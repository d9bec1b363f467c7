----------------------------- MODULE MpeqsProofs -----------------------------
(***************************************************************************)
(* Proofs about parts of mpeqs and of the experiments on it.               *)
(*                                                                         *)
(* PySpell, for any number of threads, calls and sources: the lock around  *)
(* the test for None lets one thread at most open a store, so there is one *)
(* store, 1.  In it a name is added together with its function, and only   *)
(* when it was not there: what a name stands for never changes, and what   *)
(* was seen of it remains true.                                            *)
(*                                                                         *)
(* WorkPad, for work records of any length: of the rows derived from one   *)
(* row all but the latest are stale, so that a row and a row it stands on  *)
(* are never both used; and a pair tried is remembered with versions, which*)
(* only go up, so that a key of today's versions was noted on today's      *)
(* values.                                                                 *)
(*                                                                         *)
(* IslandGraph, for any definitions: the calls of resolve are a chain of   *)
(* references, and what has a value is closed under them, so that an answer*)
(* solves the system and a refusal names what is missing or circular.      *)
(*                                                                         *)
(* Units, for any table and any number of threads: a call holds edges of   *)
(* the table only, so what it returns is derived from it, also when audits *)
(* exchange the graph under it; and while the graph stays one, its walk is *)
(* a breadth-first one, whose answer is a shortest way and whose refusal   *)
(* means that there is none.  With one auditor at most, the graph is whole *)
(* whenever no audit is under way.                                         *)
(*                                                                         *)
(* BrickLedger, for any registry of positive quotes and any paths: both    *)
(* sides of a quote keep the order of amounts, so a walk that takes the    *)
(* lower side at every open question ends no higher than any answers can   *)
(* make it; the ledger has every open crossing of every computation, so an *)
(* answer reruns all it concerns, and leaves the rest as it would come out *)
(* again.                                                                  *)
(*                                                                         *)
(* EqMemory, for any equations: a move keeps the solution, so that every   *)
(* road of the ops that gathers and divides lands, and the search finds    *)
(* the best that do; a key begins the signature of the example its entry   *)
(* was made from, and no other key, and a miss, a split and an added bit   *)
(* leave that so.                                                          *)
(***************************************************************************)
EXTENDS PySpell, WorkPad, IslandGraph, Units, BrickLedger, EqMemory, FiniteFacts, SequenceTheorems

-----------------------------------------------------------------------------
(* PySpell *)

Store == functions[1]

Typed ==
    /\ spc \in [Users -> {"idle", "shared", "open", "opened", "define", "compile"}]
    /\ job \in [Users -> Jobs \cup {NoJob}]
    /\ mine \in [Users -> {None, 1}]
    /\ names \in [Users -> Seq(STRING)]
    /\ result \in [Users -> {"none", "refused", "ran", "bijective"}]
    /\ default \in {None, 1}
    /\ compiled \in Seq({1} \X STRING)

\* The store there is, if any, is the default one, and its parts come into being together.
Unique ==
    LET opened == IF default = None THEN {} ELSE {1}
    IN  DOMAIN functions = opened /\ DOMAIN defined = opened /\ DOMAIN lock = opened

\* One thread is between the test for None and the return of _shared; those past it have the
\* default store.
Shared ==
    \A u \in Users :
        /\ spc[u] \in {"open", "opened"} <=> default_lock = u
        /\ spc[u] = "open" => default = None
        /\ spc[u] = "opened" => default = 1
        /\ spc[u] \in {"define", "compile"} => mine[u] = 1
        /\ mine[u] = 1 => default = 1

\* What has been compiled is what the store knows.
KnownNames ==
    /\ default = 1 => defined[1] = DOMAIN Store
    /\ default = None => compiled = << >>
    /\ \A i \in DOMAIN compiled : compiled[i][2] \in DOMAIN Store
    /\ \A i, k \in DOMAIN compiled : compiled[i] = compiled[k] => i = k

\* The names a call has defined so far are those of its first sources, and are in the store.
Defining ==
    \A u \in Users :
        /\ Len(names[u]) <= Len(job[u].sources)
        /\ spc[u] = "compile" => Len(names[u]) < Len(job[u].sources)
        /\ \A i \in DOMAIN names[u] :
              /\ default = 1 /\ names[u][i] \in DOMAIN Store
              /\ names[u][i] = job[u].sources[i].name

\* What ran is what the store holds under that name, and what was found bijective is so.
Seen ==
    /\ \A x \in ran : default = 1 /\ x[1].name \in DOMAIN Store /\ x[2] = Store[x[1].name]
    /\ \A u \in Users :
          spc[u] = "idle" /\ result[u] = "bijective" =>
              /\ mine[u] = 1 /\ Len(names[u]) = 2
              /\ <<Store[names[u][1]], Store[names[u][2]]>> \in Inverses

SpellIInv == Typed /\ Unique /\ Shared /\ KnownNames /\ Defining /\ Seen

-----------------------------------------------------------------------------

\* The sources of a job, or of no job, are a sequence of sources.
LEMMA SourcesTyped ==
  ASSUME NEW j \in Jobs \cup {NoJob}
  PROVE  j.sources \in Seq(Sources)
<1>1. CASE j \in Jobs
  BY <1>1, JobsAssumption
<1>2. CASE j = NoJob
  BY <1>2 DEF NoJob
<1> QED
  BY <1>1, <1>2

\* What is open are functions of the store, and nothing is when every job names its sources.
LEMMA OpenedIs ==
  ASSUME Typed, Unique
  PROVE  /\ Opened \subseteq DOMAIN functions
         /\ default = None => Opened = {} /\ Cardinality(Opened) = 0
<1>1. Opened \subseteq DOMAIN functions
  BY DEF Opened
<1>2. default = None => Opened = {}
  BY <1>1 DEF Unique
<1> QED
  BY <1>1, <1>2, FS_EmptySet

\* An empty store answers nothing that was not defined.
LEMMA SpellInitInv == SpellInit => SpellIInv
<1> SUFFICES ASSUME SpellInit PROVE SpellIInv
  OBVIOUS
<1> USE DEF SpellInit, None
<1>1. Typed
  BY DEF Typed
<1>2. Unique /\ KnownNames
  BY DEF Unique, KnownNames
<1>3. Shared
  BY UsersAssumption DEF Shared
<1>4. Defining /\ Seen
  BY DEF Defining, Seen, NoJob
<1> QED
  BY <1>1, <1>2, <1>3, <1>4 DEF SpellIInv

\* A step of one thread that leaves the store and the default lock alone.
LEMMA StartJobInv ==
  ASSUME SpellIInv, NEW u \in Users, NEW j \in Jobs, StartJob(u, j)
  PROVE  SpellIInv'
<1> USE DEF StartJob
<1>1. Typed /\ Unique /\ Shared /\ KnownNames /\ Defining /\ Seen
  BY DEF SpellIInv
<1>2. Typed'
  BY <1>1 DEF Typed
<1>3. Unique' /\ KnownNames'
  BY <1>1 DEF Unique, KnownNames, Store
<1>4. Shared'
  BY <1>1 DEF Shared, Typed
<1>5. Defining'
  <2>1. j.sources \in Seq(Sources)
    BY SourcesTyped
  <2> QED
    BY <1>1, <2>1 DEF Defining, Typed, Store
<1>6. Seen'
  BY <1>1 DEF Seen, Typed, Store
<1> QED
  BY <1>2, <1>3, <1>4, <1>5, <1>6 DEF SpellIInv

LEMMA SharedTestInv ==
  ASSUME SpellIInv, NEW u \in Users, SharedTest(u)
  PROVE  SpellIInv'
<1> USE DEF SharedTest, TakeDefaultLock
<1>1. Typed /\ Unique /\ Shared /\ KnownNames /\ Defining /\ Seen
  BY DEF SpellIInv
<1>2. Typed'
  BY <1>1 DEF Typed
<1>3. Unique' /\ KnownNames'
  BY <1>1 DEF Unique, KnownNames, Store
<1>4. Shared'
  BY <1>1, UsersAssumption DEF Shared, Typed
<1>5. Defining' /\ Seen'
  BY <1>1 DEF Defining, Seen, Typed, Store
<1> QED
  BY <1>2, <1>3, <1>4, <1>5 DEF SpellIInv

LEMMA SharedOpenInv ==
  ASSUME SpellIInv, NEW u \in Users, SharedOpen(u)
  PROVE  SpellIInv'
<1> USE DEF SharedOpen
<1>1. Typed /\ Unique /\ Shared /\ KnownNames /\ Defining /\ Seen
  BY DEF SpellIInv
<1>2. default = None /\ spc[u] = "open" /\ Cardinality(Opened) + 1 = 1
  BY <1>1, OpenedIs DEF Shared
<1>3. /\ DOMAIN functions = {} /\ DOMAIN defined = {} /\ DOMAIN lock = {}
      /\ functions' = With(functions, 1, << >>) /\ defined' = With(defined, 1, {}) /\ lock' = With(lock, 1, Free)
      /\ default' = 1
  BY <1>1, <1>2 DEF Unique
<1>4. /\ DOMAIN functions' = {1} /\ DOMAIN defined' = {1} /\ DOMAIN lock' = {1}
      /\ functions'[1] = << >> /\ defined'[1] = {}
  BY <1>3 DEF With
<1>e. DOMAIN << >> = {}
  OBVIOUS
<1>5. Typed'
  BY <1>1, <1>3 DEF Typed
<1>6. Unique'
  BY <1>3, <1>4 DEF Unique, None
<1>7. KnownNames'
  <2>1. compiled' = << >> /\ default' = 1
    BY <1>1, <1>2, <1>3 DEF KnownNames
  <2>2. DOMAIN compiled' = {}
    BY <1>e, <2>1
  <2>3. Store' = << >>
    BY <1>4 DEF Store
  <2> QED
    BY <1>4, <1>e, <2>1, <2>2, <2>3 DEF KnownNames, None
<1>8. Shared'
  BY <1>1, <1>2, <1>3 DEF Shared, Typed, None
<1>9. \A v \in Users : DOMAIN names[v] = {} /\ mine[v] # 1
  BY <1>1, <1>2 DEF Defining, Shared, None
<1>10. Defining'
  BY <1>1, <1>2, <1>9 DEF Defining, Typed, Store
<1>11. Seen'
  BY <1>1, <1>2, <1>3, <1>9 DEF Seen, Typed, Store, None
<1> QED
  BY <1>5, <1>6, <1>7, <1>8, <1>10, <1>11 DEF SpellIInv

LEMMA SharedReturnInv ==
  ASSUME SpellIInv, NEW u \in Users, SharedReturn(u)
  PROVE  SpellIInv'
<1> USE DEF SharedReturn
<1>1. Typed /\ Unique /\ Shared /\ KnownNames /\ Defining /\ Seen
  BY DEF SpellIInv
<1>2. default = 1
  BY <1>1 DEF Shared
<1>3. Typed'
  BY <1>1 DEF Typed
<1>4. Unique' /\ KnownNames'
  BY <1>1 DEF Unique, KnownNames, Store
<1>5. Shared'
  BY <1>1, <1>2, UsersAssumption DEF Shared, Typed
<1>6. Defining' /\ Seen'
  BY <1>1 DEF Defining, Seen, Typed, Store
<1> QED
  BY <1>3, <1>4, <1>5, <1>6 DEF SpellIInv

LEMMA DefineEnterInv ==
  ASSUME SpellIInv, NEW u \in Users, DefineEnter(u)
  PROVE  SpellIInv'
<1> USE DEF DefineEnter, End
<1>1. Typed /\ Unique /\ Shared /\ KnownNames /\ Defining /\ Seen
  BY DEF SpellIInv
<1>2. mine[u] = 1 /\ default = 1 /\ spc[u] = "define" /\ DOMAIN lock = {1}
  BY <1>1 DEF Shared, Unique, None
<1>3. Typed'
  BY <1>1 DEF Typed
<1>4. Unique' /\ KnownNames'
  BY <1>1, <1>2 DEF Unique, KnownNames, Store
<1>5. Shared'
  BY <1>1, <1>2 DEF Shared, Typed
<1>6. Defining'
  BY <1>1, <1>2 DEF Defining, Typed, Store
<1>7. Seen'
  BY <1>1, <1>2 DEF Seen, Typed, Store
<1> QED
  BY <1>3, <1>4, <1>5, <1>6, <1>7 DEF SpellIInv

LEMMA DefineLockedInv ==
  ASSUME SpellIInv, NEW u \in Users, DefineLocked(u)
  PROVE  SpellIInv'
<1> DEFINE src == Source(u)
<1>1. Typed /\ Unique /\ Shared /\ KnownNames /\ Defining /\ Seen
  BY DEF SpellIInv
<1>2. /\ spc[u] = "compile" /\ mine[u] = 1 /\ default = 1
      /\ DOMAIN lock = {1} /\ DOMAIN functions = {1} /\ DOMAIN defined = {1}
      /\ default' = default /\ default_lock' = default_lock /\ job' = job /\ mine' = mine /\ ran' = ran
      /\ lock' = [lock EXCEPT ![1] = Free]
  <2>1. spc[u] = "compile" /\ default' = default /\ default_lock' = default_lock /\ job' = job /\ mine' = mine /\ ran' = ran
    BY DEF DefineLocked
  <2>2. mine[u] = 1 /\ default = 1
    BY <1>1, <2>1 DEF Shared, None
  <2>3. DOMAIN lock = {1} /\ DOMAIN functions = {1} /\ DOMAIN defined = {1}
    BY <1>1, <2>2 DEF Unique, None
  <2>4. lock' = [lock EXCEPT ![1] = Free]
    BY <2>2 DEF DefineLocked, Release
  <2> QED
    BY <2>1, <2>2, <2>3, <2>4
<1>3. /\ Len(names[u]) \in Nat /\ job[u].sources \in Seq(Sources)
      /\ Len(names[u]) + 1 \in DOMAIN job[u].sources
      /\ src = job[u].sources[Len(names[u]) + 1] /\ src \in Sources
  <2>1. names[u] \in Seq(STRING) /\ job[u].sources \in Seq(Sources)
    BY <1>1, SourcesTyped DEF Typed
  <2>2. Len(names[u]) < Len(job[u].sources)
    BY <1>1, <1>2 DEF Defining
  <2> QED
    BY <2>1, <2>2 DEF Source
<1>4. CASE IsDefined(u) \/ src.compiles
  <2>1. /\ names' = [names EXCEPT ![u] = Append(@, src.name)]
        /\ spc' = [spc EXCEPT ![u] = "define"]
        /\ result' = result
    BY <1>4 DEF DefineLocked
  <2>2. /\ src.name \in STRING
        /\ DOMAIN functions' = {1} /\ DOMAIN defined' = {1}
        /\ defined'[1] = DOMAIN Store'
        /\ DOMAIN Store \subseteq DOMAIN Store' /\ src.name \in DOMAIN Store'
        /\ \A x \in DOMAIN Store : Store'[x] = Store[x]
        /\ \/ compiled' = compiled
           \/ compiled' = Append(compiled, <<1, src.name>>) /\ src.name \notin DOMAIN Store
    <3>0. src.name \in STRING
      BY <1>3 DEF Sources
    <3>1. CASE IsDefined(u)
      <4>1. functions' = functions /\ defined' = defined /\ compiled' = compiled
        BY <3>1 DEF DefineLocked
      <4>2. src.name \in DOMAIN Store
        BY <1>1, <1>2, <3>1 DEF IsDefined, KnownNames
      <4> QED
        BY <1>1, <1>2, <3>0, <4>1, <4>2 DEF KnownNames, Store
    <3>2. CASE ~IsDefined(u)
      <4>1. /\ functions' = [functions EXCEPT ![1] = With(@, src.name, src.body)]
            /\ defined' = [defined EXCEPT ![1] = @ \cup {src.name}]
            /\ compiled' = Append(compiled, <<1, src.name>>)
        BY <1>2, <1>4, <3>2 DEF DefineLocked, Remember
      <4>2. src.name \notin DOMAIN Store
        BY <1>1, <1>2, <3>2 DEF IsDefined, KnownNames
      <4>3. Store' = With(Store, src.name, src.body)
        BY <1>2, <4>1 DEF Store
      <4>4. defined'[1] = DOMAIN Store \cup {src.name}
        BY <1>1, <1>2, <4>1 DEF KnownNames
      <4>5. /\ DOMAIN With(Store, src.name, src.body) = DOMAIN Store \cup {src.name}
            /\ \A x \in DOMAIN Store : With(Store, src.name, src.body)[x] = Store[x]
        BY <4>2 DEF With
      <4>6. DOMAIN functions' = {1} /\ DOMAIN defined' = {1}
        BY <1>2, <4>1
      <4> QED
        BY <3>0, <4>1, <4>2, <4>3, <4>4, <4>5, <4>6
    <3> QED
      BY <3>1, <3>2
  <2>3. /\ spc'[u] = "define" /\ names'[u] = Append(names[u], src.name)
        /\ \A v \in Users \ {u} : spc'[v] = spc[v] /\ names'[v] = names[v]
    BY <1>1, <2>1 DEF Typed
  <2>4. Typed'
    <3>1. compiled' \in Seq({1} \X STRING)
      <4>1. compiled \in Seq({1} \X STRING)
        BY <1>1 DEF Typed
      <4>2. <<1, src.name>> \in {1} \X STRING
        BY <2>2
      <4>3. Append(compiled, <<1, src.name>>) \in Seq({1} \X STRING)
        BY <4>1, <4>2
      <4> QED
        BY <2>2, <4>1, <4>3
    <3>2. names' \in [Users -> Seq(STRING)]
      BY <1>1, <2>1, <2>2 DEF Typed
    <3> QED
      BY <1>1, <1>2, <2>1, <3>1, <3>2 DEF Typed
  <2>5. Unique'
    BY <1>2, <2>2 DEF Unique, None
  <2>6. Shared'
    BY <1>1, <1>2, <2>1 DEF Shared, Typed
  <2>7. KnownNames'
    <3>1. CASE compiled' = compiled
      BY <1>1, <1>2, <2>2, <3>1 DEF KnownNames, None
    <3>2. CASE compiled' = Append(compiled, <<1, src.name>>) /\ src.name \notin DOMAIN Store
      <4>1. compiled \in Seq({1} \X STRING) /\ <<1, src.name>> \in {1} \X STRING
        BY <1>1, <2>2 DEF Typed
      <4>2. /\ DOMAIN compiled' = DOMAIN compiled \cup {Len(compiled) + 1} /\ Len(compiled) + 1 \notin DOMAIN compiled
            /\ compiled'[Len(compiled) + 1] = <<1, src.name>>
            /\ \A i \in DOMAIN compiled : compiled'[i] = compiled[i]
        BY <3>2, <4>1
      <4>3. \A i \in DOMAIN compiled : compiled[i] # <<1, src.name>>
        BY <1>1, <3>2 DEF KnownNames
      <4> QED
        BY <1>1, <1>2, <2>2, <4>2, <4>3 DEF KnownNames, None
    <3> QED
      BY <2>2, <3>1, <3>2
  <2>8. Defining'
    <3> SUFFICES ASSUME NEW v \in Users
                 PROVE  /\ Len(names'[v]) <= Len(job[v].sources)
                        /\ spc'[v] = "compile" => Len(names'[v]) < Len(job[v].sources)
                        /\ \A i \in DOMAIN names'[v] :
                              /\ default = 1 /\ names'[v][i] \in DOMAIN Store'
                              /\ names'[v][i] = job[v].sources[i].name
      BY <1>2 DEF Defining
    <3>1. CASE v = u
      <4>1. names[u] \in Seq(STRING) /\ src.name \in STRING
        BY <1>1, <2>2 DEF Typed
      <4>2. /\ DOMAIN names'[u] = DOMAIN names[u] \cup {Len(names[u]) + 1}
            /\ Len(names'[u]) = Len(names[u]) + 1
            /\ names'[u][Len(names[u]) + 1] = src.name
            /\ \A i \in DOMAIN names[u] : names'[u][i] = names[u][i]
        BY <2>3, <4>1
      <4>3. Len(names'[u]) <= Len(job[u].sources)
        BY <1>3, <4>2
      <4>4. ASSUME NEW i \in DOMAIN names'[u]
            PROVE  names'[u][i] \in DOMAIN Store' /\ names'[u][i] = job[u].sources[i].name
        <5>1. CASE i \in DOMAIN names[u]
          BY <1>1, <2>2, <4>2, <5>1 DEF Defining
        <5>2. CASE i = Len(names[u]) + 1
          BY <1>3, <2>2, <4>2, <5>2
        <5> QED
          BY <4>2, <5>1, <5>2
      <4> QED
        BY <1>2, <2>3, <3>1, <4>3, <4>4
    <3>2. CASE v # u
      BY <1>1, <2>2, <2>3, <3>2 DEF Defining
    <3> QED
      BY <3>1, <3>2
  <2>9. Seen'
    <3>1. \A x \in ran : default' = 1 /\ x[1].name \in DOMAIN Store' /\ x[2] = Store'[x[1].name]
      BY <1>1, <1>2, <2>2 DEF Seen
    <3>2. ASSUME NEW v \in Users, spc'[v] = "idle", result'[v] = "bijective"
          PROVE  /\ mine'[v] = 1 /\ Len(names'[v]) = 2
                 /\ <<Store'[names'[v][1]], Store'[names'[v][2]]>> \in Inverses
      <4>1. v # u /\ names'[v] = names[v] /\ spc[v] = "idle" /\ result[v] = "bijective"
        BY <2>1, <2>3, <3>2
      <4>2. 1 \in DOMAIN names[v] /\ 2 \in DOMAIN names[v] /\ mine[v] = 1 /\ Len(names[v]) = 2
        <5>1. names[v] \in Seq(STRING)
          BY <1>1 DEF Typed
        <5>2. mine[v] = 1 /\ Len(names[v]) = 2
          BY <1>1, <4>1 DEF Seen
        <5> QED
          BY <5>1, <5>2
      <4>3. names[v][1] \in DOMAIN Store /\ names[v][2] \in DOMAIN Store
        BY <1>1, <4>2 DEF Defining
      <4> QED
        BY <1>1, <1>2, <2>2, <4>1, <4>2, <4>3 DEF Seen
    <3> QED
      BY <1>2, <3>1, <3>2 DEF Seen
  <2> QED
    BY <2>4, <2>5, <2>6, <2>7, <2>8, <2>9 DEF SpellIInv
<1>5. CASE ~IsDefined(u) /\ ~src.compiles
  <2>1. /\ names' = names /\ functions' = functions /\ compiled' = compiled
        /\ spc' = [spc EXCEPT ![u] = "idle"]
        /\ result' = [result EXCEPT ![u] = "refused"]
        /\ defined' = [defined EXCEPT ![1] = @]
    BY <1>2, <1>5 DEF DefineLocked, End, Remember
  <2>2. defined'[1] = defined[1] /\ DOMAIN defined' = {1} /\ Store' = Store
    BY <1>2, <2>1 DEF Store
  <2>3. Typed'
    BY <1>1, <1>2, <2>1 DEF Typed
  <2>4. Unique' /\ KnownNames'
    BY <1>1, <1>2, <2>1, <2>2 DEF Unique, KnownNames, None
  <2>5. Shared'
    BY <1>1, <1>2, <2>1 DEF Shared, Typed
  <2>6. Defining'
    BY <1>1, <1>2, <2>1, <2>2 DEF Defining, Typed
  <2>7. Seen'
    BY <1>1, <1>2, <2>1, <2>2 DEF Seen, Typed
  <2> QED
    BY <2>3, <2>4, <2>5, <2>6, <2>7 DEF SpellIInv
<1> QED
  BY <1>4, <1>5

LEMMA QueryInv ==
  ASSUME SpellIInv, NEW u \in Users, Query(u)
  PROVE  SpellIInv'
<1> USE DEF Query, End
<1>1. Typed /\ Unique /\ Shared /\ KnownNames /\ Defining /\ Seen
  BY DEF SpellIInv
<1>2. mine[u] = 1 /\ default = 1 /\ names[u][1] \in DOMAIN Store
  <2>1. 1 \in DOMAIN names[u]
    BY <1>1 DEF Typed
  <2> QED
    BY <1>1, <2>1 DEF Shared, Defining
<1>3. /\ names[u][1] = job[u].sources[1].name
      /\ ran' = ran \cup {<<job[u].sources[1], Store[names[u][1]]>>}
      /\ spc' = [spc EXCEPT ![u] = "idle"] /\ result' = [result EXCEPT ![u] = "ran"]
  <2>1. 1 \in DOMAIN names[u]
    BY <1>1 DEF Typed
  <2> QED
    BY <1>1, <1>2, <2>1 DEF Defining, Body, Store
<1>4. Typed'
  BY <1>1, <1>3 DEF Typed
<1>5. Unique' /\ KnownNames'
  BY <1>1 DEF Unique, KnownNames, Store
<1>6. Shared'
  BY <1>1, <1>3 DEF Shared, Typed
<1>7. Defining'
  BY <1>1, <1>3 DEF Defining, Typed, Store
<1>8. Seen'
  BY <1>1, <1>2, <1>3 DEF Seen, Typed, Store
<1> QED
  BY <1>4, <1>5, <1>6, <1>7, <1>8 DEF SpellIInv

LEMMA CreateLensInv ==
  ASSUME SpellIInv, NEW u \in Users, CreateLens(u)
  PROVE  SpellIInv'
<1> USE DEF CreateLens, End
<1>1. Typed /\ Unique /\ Shared /\ KnownNames /\ Defining /\ Seen
  BY DEF SpellIInv
<1>2. mine[u] = 1
  BY <1>1 DEF Shared
<1>3. /\ spc' = [spc EXCEPT ![u] = "idle"] /\ result'[u] \in {"refused", "bijective"}
      /\ \A v \in Users \ {u} : result'[v] = result[v]
      /\ result'[u] = "bijective" => <<Store[names[u][1]], Store[names[u][2]]>> \in Inverses
  BY <1>1, <1>2 DEF Typed, Body, Store
<1>4. Typed'
  BY <1>1 DEF Typed
<1>5. Unique' /\ KnownNames'
  BY <1>1 DEF Unique, KnownNames, Store
<1>6. Shared'
  BY <1>1 DEF Shared, Typed
<1>7. Defining'
  BY <1>1 DEF Defining, Typed, Store
<1>8. Seen'
  BY <1>1, <1>2, <1>3 DEF Seen, Typed, Store
<1> QED
  BY <1>4, <1>5, <1>6, <1>7, <1>8 DEF SpellIInv

LEMMA SpellStepInv == SpellIInv /\ [SpellNext]_spellVars => SpellIInv'
<1> SUFFICES ASSUME SpellIInv, [SpellNext]_spellVars PROVE SpellIInv'
  OBVIOUS
<1>1. CASE SpellNext
  <2> PICK u \in Users : (\E j \in Jobs : StartJob(u, j)) \/ SpellStep(u)
    BY <1>1 DEF SpellNext
  <2>1. CASE \E j \in Jobs : StartJob(u, j)
    BY <2>1, StartJobInv
  <2>2. CASE SpellStep(u)
    BY <2>2, SharedTestInv, SharedOpenInv, SharedReturnInv, DefineEnterInv, DefineLockedInv, QueryInv,
       CreateLensInv DEF SpellStep
  <2> QED
    BY <2>1, <2>2
<1>2. CASE UNCHANGED spellVars
  <2> USE <1>2 DEF spellVars
  <2>1. Typed' /\ Unique' /\ Shared' /\ KnownNames'
    BY DEF SpellIInv, Typed, Unique, Shared, KnownNames, Store
  <2>2. Defining' /\ Seen'
    BY DEF SpellIInv, Defining, Seen, Store
  <2> QED
    BY <2>1, <2>2 DEF SpellIInv
<1> QED
  BY <1>1, <1>2

\* The invariant of the store holds of every run.
THEOREM SpellInvariant == SpellSpec => []SpellIInv
  BY SpellInitInv, SpellStepInv, PTL DEF SpellSpec

\* Whatever threads meet in whatever order: there is one store, no name is compiled twice in
\* it, calls of one source run one body, and what was found bijective stays so.
THEOREM NamesForGoodTheorem == SpellSpec => []NamesForGood
<1>1. SpellIInv => NamesForGood
  <2> SUFFICES ASSUME SpellIInv PROVE NamesForGood
    OBVIOUS
  <2>1. Typed /\ Unique /\ Shared /\ KnownNames /\ Defining /\ Seen
    BY DEF SpellIInv
  <2>2. OneStore
    BY <2>1 DEF OneStore, Typed
  <2>3. CompiledOnce
    <3>1. \A i, j \in 1 .. Len(compiled) : compiled[i] = compiled[j] => i = j
      BY <2>1 DEF KnownNames, Typed
    <3>2. ASSUME NEW s \in Opened
          PROVE  defined[s] = DOMAIN functions[s]
      <4>1. s = 1 /\ default = 1
        BY <2>1, OpenedIs DEF Unique, Typed
      <4> QED
        BY <2>1, <4>1 DEF KnownNames, Store
    <3> QED
      BY <3>1, <3>2 DEF CompiledOnce
  <2>4. SameSourceSameBody
    BY <2>1 DEF Seen, SameSourceSameBody
  <2>5. BijectiveForGood
    BY <2>1 DEF Seen, BijectiveForGood, Body, Store
  <2> QED
    BY <2>2, <2>3, <2>4, <2>5 DEF NamesForGood
<1> QED
  BY SpellInvariant, <1>1, PTL

-----------------------------------------------------------------------------
(* WorkPad *)

PadLen == Len(rows)
WholeRow(row) == [value |-> row.value, op |-> row.op, deps |-> row.deps,
               stale |-> row.stale, used |-> row.used, version |-> row.version]

\* The rows are a sequence of records; a derived row stands on two earlier rows.
PadFormed ==
    /\ PadLen \in Nat /\ Ids = 1 .. PadLen /\ rows = [r \in 1 .. PadLen |-> rows[r]]
    /\ \A r \in Ids :
        /\ rows[r] = WholeRow(rows[r])
        /\ rows[r].stale \in BOOLEAN /\ rows[r].used \in BOOLEAN /\ rows[r].version \in Nat
        /\ \/ rows[r].deps = <<>>
           \/ \E a, b \in 1 .. r - 1 : rows[r].deps = <<a, b>> /\ rows[r].op \in Ops

\* Of two rows derived from one, the earlier is stale: at most one row derived from it counts.
PadReused ==
    ~revived => \A r, s \in Ids : r < s /\ Deps(r) \cap Deps(s) # {} => rows[r].stale

\* A key names rows that are there or were undone, no version later than theirs; a key of the
\* versions they have now was tried on the values they have now.
Fits(k, tried) ==
    /\ k = <<k[1], <<k[2][1], k[2][2]>>, <<k[3][1], k[3][2]>>>>
    /\ k[2][1] \in Ids \cup undone /\ k[3][1] \in Ids \cup undone
    /\ k[2][1] \in Ids \ undone => k[2][2] \in Nat /\ k[2][2] <= rows[k[2][1]].version
    /\ k[3][1] \in Ids \ undone => k[3][2] \in Nat /\ k[3][2] <= rows[k[3][1]].version
    /\ /\ k[2][1] \in Ids \ undone /\ k[2][2] = rows[k[2][1]].version
       /\ k[3][1] \in Ids \ undone /\ k[3][2] = rows[k[3][1]].version
       => tried = Premise(k)

PadKeys == undone \in SUBSET Nat /\ \A k \in DOMAIN premise : Fits(k, premise[k])

PadIInv == PadFormed /\ ValueFollows /\ NothingLeftStanding /\ ConsumedOnce /\ PadReused /\ PadKeys

\* What a function on 1 .. N is as a sequence.
LEMMA FunctionSeq ==
    ASSUME NEW N \in Nat, NEW f, f = [i \in 1 .. N |-> f[i]]
    PROVE  /\ f \in Seq({f[i] : i \in 1 .. N}) /\ Len(f) = N /\ DOMAIN f = 1 .. N
<1>1. f \in [1 .. N -> {f[i] : i \in 1 .. N}]
  OBVIOUS
<1> DEFINE S == {f[i] : i \in 1 .. N}
<1> HIDE DEF S
<1>2. f \in [1 .. N -> S]
  BY <1>1 DEF S
<1> QED BY <1>2, SeqDef, LenProperties DEF S

\* The operands of a pair.
LEMMA PairSet == ASSUME NEW a, NEW b, NEW d, d = <<a, b>> PROVE {d[i] : i \in DOMAIN d} = {a, b}
<1>1. DOMAIN <<a, b>> = {1, 2} /\ <<a, b>>[1] = a /\ <<a, b>>[2] = b
  OBVIOUS
<1> QED BY <1>1

\* The operands of a row.
LEMMA DepsAre ==
    ASSUME PadFormed, NEW r \in Ids
    PROVE  /\ Deps(r) \in SUBSET (1 .. r - 1) /\ r \in Nat \ {0} /\ r <= PadLen
           /\ rows[r].deps = <<>> => Deps(r) = {}
           /\ rows[r].deps # <<>> =>
                /\ rows[r].op \in Ops
                /\ rows[r].deps[1] \in 1 .. r - 1 /\ rows[r].deps[2] \in 1 .. r - 1
                /\ Deps(r) = {rows[r].deps[1], rows[r].deps[2]}
<1>1. r \in 1 .. PadLen /\ PadLen \in Nat
  BY DEF PadFormed
<1>2. CASE rows[r].deps = <<>>
  BY <1>1, <1>2 DEF Deps
<1>3. CASE rows[r].deps # <<>>
  <2>1. PICK a, b \in 1 .. r - 1 : rows[r].deps = <<a, b>> /\ rows[r].op \in Ops
    BY <1>3 DEF PadFormed
  <2>2. DOMAIN <<a, b>> = {1, 2} /\ <<a, b>>[1] = a /\ <<a, b>>[2] = b
    OBVIOUS
  <2>3. Deps(r) = {a, b}
    BY <2>1, <2>2 DEF Deps
  <2> QED BY <1>1, <1>3, <2>1, <2>2, <2>3
<1> QED BY <1>2, <1>3

\* A state of the record from the one before, row by row, keeps its form.
LEMMA FormedFrom ==
    ASSUME NEW N \in Nat, NEW f, f = [r \in 1 .. N |-> f[r]], rows' = f,
           \A r \in 1 .. N :
              /\ f[r] = WholeRow(f[r])
              /\ f[r].stale \in BOOLEAN /\ f[r].used \in BOOLEAN /\ f[r].version \in Nat
              /\ \/ f[r].deps = <<>>
                 \/ \E a, b \in 1 .. r - 1 : f[r].deps = <<a, b>> /\ f[r].op \in Ops
    PROVE  PadFormed' /\ PadLen' = N /\ Ids' = 1 .. N
<1>1. Len(f) = N /\ DOMAIN f = 1 .. N
  BY FunctionSeq
<1>2. PadLen' = N /\ Ids' = 1 .. N
  BY <1>1 DEF PadLen, Ids
<1> QED BY <1>2 DEF PadFormed

\* An empty work record satisfies the invariant.
LEMMA PadStart == ASSUME PadInit PROVE PadIInv
<1> DEFINE N == Len(Givens)
<1>1. N \in Nat
  BY GivensAssumption
<1>2. rows = [r \in 1 .. N |-> NewRow(Givens[r], NoOp, <<>>)] /\ premise = <<>> /\ undone = {}
  BY DEF PadInit
<1> HIDE DEF N
<1>3. DOMAIN rows = 1 .. N /\ rows = [r \in 1 .. N |-> rows[r]]
  BY <1>2
<1>4. Len(rows) = N
  BY <1>1, <1>3, FunctionSeq
<1>5. ASSUME NEW r \in 1 .. N
      PROVE  /\ rows[r] = WholeRow(rows[r]) /\ rows[r].stale = FALSE /\ rows[r].used = FALSE
             /\ rows[r].version = 0 /\ rows[r].deps = <<>>
  <2>1. rows[r] = NewRow(Givens[r], NoOp, <<>>)
    BY <1>2
  <2> QED BY <2>1 DEF NewRow, WholeRow
<1>6. PadFormed
  <2>1. PadLen = N /\ Ids = 1 .. N
    BY <1>3, <1>4 DEF PadLen, Ids
  <2>2. FALSE \in BOOLEAN /\ 0 \in Nat
    OBVIOUS
  <2> QED BY <1>1, <1>3, <1>5, <2>1, <2>2 DEF PadFormed
<1>7. \A r \in Ids : Deps(r) = {}
  BY <1>3, <1>5, <1>6, DepsAre DEF Ids
<1>8. ValueFollows
  BY <1>3, <1>5 DEF ValueFollows, Derived, Ids
<1>9. NothingLeftStanding
  BY <1>7 DEF NothingLeftStanding, Standing
<1>10. ConsumedOnce
  <2>1. \A d \in Ids : rows[d].used = FALSE /\ Consumers(d) = {}
    BY <1>3, <1>5, <1>7 DEF Consumers, Ids
  <2> QED BY <2>1 DEF ConsumedOnce
<1>11. PadReused
  BY <1>7 DEF PadReused
<1>12. PadKeys
  <2>1. DOMAIN premise = {}
    BY <1>2
  <2> QED BY <1>2, <2>1 DEF PadKeys
<1> QED BY <1>6, <1>8, <1>9, <1>10, <1>11, <1>12 DEF PadIInv

\* What append makes of the rows.
LEMMA ExtendIs ==
    ASSUME PadFormed, NEW op \in Ops, NEW a \in Ids, NEW b \in Ids, Extend(a, op, b),
           NEW N, N = PadLen, NEW n, n = N + 1
    PROVE  /\ PadFormed' /\ PadLen' = n /\ Ids' = 1 .. n /\ N \in Nat /\ Ids = 1 .. N
           /\ \A r \in 1 .. N :
                /\ rows'[r].value = rows[r].value /\ rows'[r].op = rows[r].op
                /\ rows'[r].deps = rows[r].deps /\ (rows'[r].stale <=> rows[r].stale)
                /\ rows'[r].version = rows[r].version
                /\ rows'[r].used <=> (rows[r].used \/ r \in {a, b})
                /\ Deps(r)' = Deps(r)
           /\ rows'[n].value = Apply(rows[a].value, op, rows[b].value)
           /\ rows'[n].op = op /\ rows'[n].deps = <<a, b>> /\ Deps(n)' = {a, b}
           /\ ~rows'[n].stale /\ ~rows'[n].used /\ rows'[n].version = 0
<1> DEFINE old == [r \in 1 .. N |-> [rows[r] EXCEPT !.used = @ \/ r \in {a, b}]]
           new == NewRow(Apply(rows[a].value, op, rows[b].value), op, <<a, b>>)
           f == Append(old, new)
<1>1. N \in Nat /\ Ids = 1 .. N /\ a \in 1 .. N /\ b \in 1 .. N
  BY DEF PadFormed
<1>2. Consumed({a, b}) = old
  BY <1>1 DEF Consumed
<1>3. rows' = Append(old, new)
  BY <1>2 DEF Extend
<1>4. \A r \in 1 .. N : /\ rows[r] = WholeRow(rows[r]) /\ rows[r].used \in BOOLEAN /\ rows[r].stale \in BOOLEAN
                        /\ rows[r].version \in Nat
                        /\ \/ rows[r].deps = <<>>
                           \/ \E x, y \in 1 .. r - 1 : rows[r].deps = <<x, y>> /\ rows[r].op \in Ops
  BY <1>1 DEF PadFormed
<1>5. ASSUME NEW r \in 1 .. N
      PROVE  /\ old[r] = WholeRow(old[r])
             /\ old[r].value = rows[r].value /\ old[r].op = rows[r].op
             /\ old[r].deps = rows[r].deps /\ old[r].stale = rows[r].stale
             /\ old[r].version = rows[r].version
             /\ old[r].used = (rows[r].used \/ r \in {a, b}) /\ old[r].used \in BOOLEAN
  <2> DEFINE w == rows[r]
  <2> HIDE DEF w
  <2>1. w = WholeRow(w)
    BY <1>4 DEF w
  <2>2. old[r] = [w EXCEPT !.used = @ \/ r \in {a, b}]
    BY DEF w
  <2> QED BY <2>1, <2>2 DEF WholeRow, w
<1>6. /\ new = WholeRow(new) /\ new.value = Apply(rows[a].value, op, rows[b].value)
      /\ new.op = op /\ new.deps = <<a, b>> /\ new.stale = FALSE /\ new.used = FALSE /\ new.version = 0
  BY DEF NewRow, WholeRow
<1> HIDE DEF new
<1>7. /\ f = [r \in 1 .. N + 1 |-> f[r]] /\ f[N + 1] = new /\ \A r \in 1 .. N : f[r] = old[r]
  <2>1. old = [i \in 1 .. N |-> old[i]]
    OBVIOUS
  <2> HIDE DEF old
  <2>2. old \in Seq({old[i] : i \in 1 .. N}) /\ Len(old) = N
    BY <1>1, <2>1, FunctionSeq
  <2> DEFINE S == {old[i] : i \in 1 .. N} \cup {new}
  <2>3. old \in Seq(S) /\ new \in S
    BY <2>2, SeqMonotonic
  <2> HIDE DEF S
  <2>4. /\ f \in Seq(S) /\ Len(f) = N + 1 /\ \A r \in 1 .. N : f[r] = old[r]
        /\ f[N + 1] = new
    BY <2>2, <2>3, AppendProperties
  <2>5. f \in [1 .. N + 1 -> S]
    BY <2>4, LenProperties
  <2> HIDE DEF f
  <2> QED BY <2>4, <2>5
<1> HIDE DEF old, f
<1>8. (\A r \in 1 .. N + 1 : r = N + 1 \/ r \in 1 .. N) /\ N + 1 \in Nat
  BY <1>1
<1>9. ASSUME NEW r \in 1 .. N + 1
      PROVE   /\ f[r] = WholeRow(f[r])
              /\ f[r].stale \in BOOLEAN /\ f[r].used \in BOOLEAN /\ f[r].version \in Nat
              /\ \/ f[r].deps = <<>>
                 \/ \E x, y \in 1 .. r - 1 : f[r].deps = <<x, y>> /\ f[r].op \in Ops
  <2>1. CASE r # N + 1
    <3>3. r \in 1 .. N
      BY <1>8, <2>1
    <3>1. f[r] = old[r]
      BY <1>7, <3>3
    <3>2. old[r].deps = rows[r].deps /\ old[r].op = rows[r].op /\ old[r].stale = rows[r].stale
          /\ old[r].version = rows[r].version /\ old[r].used \in BOOLEAN /\ old[r] = WholeRow(old[r])
      BY <1>5, <3>3
    <3> QED BY <1>4, <3>1, <3>2, <3>3
  <2>2. CASE r = N + 1
    <3>1. a \in 1 .. r - 1 /\ b \in 1 .. r - 1
      BY <1>1, <2>2
    <3>2. /\ f[r] = new /\ new = WholeRow(new) /\ new.op = op /\ new.deps = <<a, b>>
          /\ new.stale = FALSE /\ new.used = FALSE /\ new.version = 0
      BY <1>6, <1>7, <2>2
    <3>3. f[r] = WholeRow(f[r])
      BY <3>2
    <3>4. f[r].stale \in BOOLEAN /\ f[r].used \in BOOLEAN /\ f[r].version \in Nat
      <4>1. f[r].stale = FALSE /\ f[r].used = FALSE /\ f[r].version = 0
        BY <3>2
      <4>2. f[r].version \in Nat
        BY <4>1
      <4>3. f[r].stale \in BOOLEAN /\ f[r].used \in BOOLEAN
        BY <4>1, Zenon
      <4> QED BY <4>2, <4>3
    <3>5. \E x, y \in 1 .. r - 1 : f[r].deps = <<x, y>> /\ f[r].op \in Ops
      <4>1. f[r].deps = <<a, b>> /\ f[r].op \in Ops
        BY <3>2
      <4> QED BY <3>1, <4>1
    <3> QED BY <3>3, <3>4, <3>5
  <2> QED BY <2>1, <2>2
<1>10. rows' = f
  BY <1>3 DEF f
<1>11. PadFormed' /\ PadLen' = N + 1 /\ Ids' = 1 .. N + 1
  BY <1>7, <1>8, <1>9, <1>10, FormedFrom
<1>12. ASSUME NEW r \in 1 .. N PROVE Deps(r)' = Deps(r)
  <2>1. rows'[r].deps = rows[r].deps
    BY <1>5, <1>7, <1>10
  <2> QED BY <2>1 DEF Deps
<1>13. Deps(n)' = {a, b}
  <2>1. rows'[n].deps = <<a, b>>
    BY <1>6, <1>7, <1>10
  <2> DEFINE d == rows'[n].deps
  <2>2. Deps(n)' = {d[i] : i \in DOMAIN d}
    BY DEF Deps
  <2> HIDE DEF d
  <2>3. d = <<a, b>>
    BY <2>1 DEF d
  <2>4. {d[i] : i \in DOMAIN d} = {a, b}
    BY <2>3, PairSet
  <2> QED BY <2>2, <2>4
<1>14. \A r \in 1 .. N :
                    /\ rows'[r].value = rows[r].value /\ rows'[r].op = rows[r].op
                    /\ rows'[r].deps = rows[r].deps /\ (rows'[r].stale <=> rows[r].stale)
                    /\ rows'[r].version = rows[r].version
                    /\ rows'[r].used <=> (rows[r].used \/ r \in {a, b})
  BY <1>5, <1>7, <1>10
<1>15. /\ rows'[N + 1].value = Apply(rows[a].value, op, rows[b].value)
       /\ rows'[N + 1].op = op /\ rows'[N + 1].deps = <<a, b>>
       /\ ~rows'[n].stale /\ ~rows'[n].used /\ rows'[N + 1].version = 0
  BY <1>6, <1>7, <1>10
<1> QED BY <1>1, <1>11, <1>12, <1>13, <1>14, <1>15

\* Rows that keep the operands they had keep the form of the record.
LEMMA SameShape ==
    ASSUME PadFormed, NEW N \in Nat, N <= PadLen, NEW f, f = [r \in 1 .. N |-> f[r]], rows' = f,
           \A r \in 1 .. N :
              /\ f[r] = WholeRow(f[r])
              /\ f[r].stale \in BOOLEAN /\ f[r].used \in BOOLEAN /\ f[r].version \in Nat
              /\ f[r].deps = rows[r].deps /\ (f[r].op = rows[r].op \/ f[r].op \in Ops)
    PROVE  PadFormed' /\ PadLen' = N /\ Ids' = 1 .. N /\ \A r \in 1 .. N : Deps(r)' = Deps(r)
<1>1. PadLen \in Nat /\ Ids = 1 .. PadLen
  BY DEF PadFormed
<1>2. \A r \in 1 .. N : r \in Ids
  BY <1>1
<1>3. ASSUME NEW r \in 1 .. N
      PROVE  \/ f[r].deps = <<>>
             \/ \E a, b \in 1 .. r - 1 : f[r].deps = <<a, b>> /\ f[r].op \in Ops
  <2>1. \/ rows[r].deps = <<>>
        \/ \E a, b \in 1 .. r - 1 : rows[r].deps = <<a, b>> /\ rows[r].op \in Ops
    BY <1>2 DEF PadFormed
  <2> QED BY <2>1
<1>4. PadFormed' /\ PadLen' = N /\ Ids' = 1 .. N
  BY <1>3, FormedFrom
<1>5. ASSUME NEW r \in 1 .. N PROVE Deps(r)' = Deps(r)
  <2>1. rows'[r].deps = rows[r].deps
    OBVIOUS
  <2> QED BY <2>1 DEF Deps
<1> QED BY <1>4, <1>5

\* What undo makes of the rows.
LEMMA UndoIs ==
    ASSUME PadFormed, PadUndo, NEW N, N = PadLen
    PROVE  /\ PadFormed' /\ Ids' = 1 .. N - 1 /\ N \in Nat \ {0} /\ Ids = 1 .. N
           /\ rows[N].deps # <<>> /\ undone' = undone \cup {N}
           /\ \A r \in 1 .. N - 1 :
                /\ rows'[r].value = rows[r].value /\ rows'[r].op = rows[r].op
                /\ rows'[r].deps = rows[r].deps /\ (rows'[r].stale <=> rows[r].stale)
                /\ rows'[r].version = rows[r].version
                /\ rows'[r].used <=> (rows[r].used /\ r \notin Deps(N))
                /\ Deps(r)' = Deps(r)
<1>1. N \in Nat /\ Ids = 1 .. N /\ rows = [r \in 1 .. N |-> rows[r]]
  BY DEF PadFormed
<1>2. rows # <<>> /\ rows[N].deps # <<>> /\ undone' = undone \cup {N}
  BY DEF PadUndo, CanUndo, PadLen
<1>3. N # 0
  <2>1. SUFFICES ASSUME N = 0 PROVE FALSE
    OBVIOUS
  <2>2. 1 .. N = {}
    BY <2>1
  <2>3. rows = [r \in {} |-> rows[r]]
    BY <1>1, <2>2
  <2> QED BY <1>2, <2>3
<1> DEFINE f == [r \in 1 .. N - 1 |-> [rows[r] EXCEPT !.used = @ /\ r \notin Deps(N)]]
<1>4. rows' = f
  BY DEF PadUndo, Dropped, PadLen
<1>5. N - 1 \in Nat /\ N - 1 <= N /\ \A r \in 1 .. N - 1 : r \in Ids
  BY <1>1, <1>3
<1>6. ASSUME NEW r \in 1 .. N - 1
      PROVE  /\ f[r] = WholeRow(f[r])
             /\ f[r].value = rows[r].value /\ f[r].op = rows[r].op
             /\ f[r].deps = rows[r].deps /\ f[r].stale = rows[r].stale
             /\ f[r].version = rows[r].version
             /\ f[r].used = (rows[r].used /\ r \notin Deps(N)) /\ f[r].used \in BOOLEAN
  <2> DEFINE w == rows[r]
             c == r \notin Deps(N)
  <2>1. w = WholeRow(w) /\ w.used \in BOOLEAN
    BY <1>5 DEF PadFormed
  <2>2. f[r] = [w EXCEPT !.used = @ /\ c]
    OBVIOUS
  <2> HIDE DEF w, c
  <2>3. /\ f[r] = WholeRow(f[r]) /\ f[r].value = w.value /\ f[r].op = w.op /\ f[r].deps = w.deps
        /\ f[r].stale = w.stale /\ f[r].version = w.version /\ f[r].used = (w.used /\ c)
    BY <2>1, <2>2 DEF WholeRow
  <2>4. f[r].used \in BOOLEAN
    BY <2>3, Zenon
  <2> QED BY <2>3, <2>4 DEF w, c
<1>7. ASSUME NEW r \in 1 .. N - 1 PROVE rows[r].stale \in BOOLEAN /\ rows[r].version \in Nat
  BY <1>5 DEF PadFormed
<1>8. f = [r \in 1 .. N - 1 |-> f[r]]
  OBVIOUS
<1> HIDE DEF f
<1>9. /\ PadFormed' /\ Ids' = 1 .. N - 1 /\ \A r \in 1 .. N - 1 : Deps(r)' = Deps(r)
  <2> DEFINE M == N - 1
  <2>1. /\ M \in Nat /\ M <= PadLen /\ f = [r \in 1 .. M |-> f[r]] /\ rows' = f
    BY <1>1, <1>4, <1>5, <1>8
  <2>2. \A r \in 1 .. M :
              /\ f[r] = WholeRow(f[r])
              /\ f[r].stale \in BOOLEAN /\ f[r].used \in BOOLEAN /\ f[r].version \in Nat
              /\ f[r].deps = rows[r].deps /\ (f[r].op = rows[r].op \/ f[r].op \in Ops)
    BY <1>6, <1>7
  <2> HIDE DEF M
  <2>3. PadFormed' /\ PadLen' = M /\ Ids' = 1 .. M /\ \A r \in 1 .. M : Deps(r)' = Deps(r)
    BY <2>1, <2>2, SameShape
  <2> QED BY <2>3 DEF M
<1> QED BY <1>1, <1>2, <1>3, <1>4, <1>6, <1>9

\* The rows after a patch of rid by op that marks the rows marked.
Marking(rid, op, marked, r) ==
    IF r = rid THEN Corrected(rid, op)
    ELSE IF r \in marked THEN [rows[r] EXCEPT !.stale = TRUE, !.version = @ + 1]
         ELSE rows[r]

PatchStep(rid, op, marked) ==
    /\ rid \in Derived /\ marked \in SUBSET (Ids \ {rid}) /\ Marks(rid, marked)
    /\ rows' = [r \in Ids |-> [Marking(rid, op, marked, r) EXCEPT !.used = @ /\ r \notin Freed(rid, marked)]]
    /\ revived' = (revived \/ rows[rid].stale)
    /\ UNCHANGED <<explored, premise, undone, refused>>

\* A patch marks some of the later rows, and frees the premises that only those used.
LEMMA PatchSteps ==
    ASSUME NEW rid, NEW op, PadPatch(rid, op)
    PROVE  \E marked : PatchStep(rid, op, marked)
<1>1. PICK marked \in SUBSET (Ids \ {rid}) :
        /\ Marks(rid, marked)
        /\ rows' = [r \in Ids |-> [Marking(rid, op, marked, r) EXCEPT !.used = @ /\ r \notin Freed(rid, marked)]]
  BY DEF PadPatch, Marking
<1>2. rid \in Derived /\ revived' = (revived \/ rows[rid].stale) /\ UNCHANGED <<explored, premise, undone, refused>>
  BY DEF PadPatch
<1> QED BY <1>1, <1>2 DEF PatchStep

\* What patch makes of the rows.
LEMMA PatchIs ==
    ASSUME PadFormed, NEW rid, NEW op \in Ops, NEW marked, PatchStep(rid, op, marked),
           NEW N, N = PadLen, NEW freed, freed = Freed(rid, marked)
    PROVE  /\ PadFormed' /\ N \in Nat /\ Ids = 1 .. N /\ Ids' = 1 .. N /\ rid \in 1 .. N
           /\ \A r \in 1 .. N :
                /\ rows'[r].deps = rows[r].deps /\ Deps(r)' = Deps(r)
                /\ rows'[r].used <=> (rows[r].used /\ r \notin freed)
                /\ r = rid => /\ ~rows'[r].stale /\ rows'[r].version = rows[r].version + 1
                              /\ rows'[r].value = Apply(rows[rows[r].deps[1]].value, op, rows[rows[r].deps[2]].value)
                              /\ rows'[r].op = op
                /\ r # rid => /\ rows'[r].value = rows[r].value /\ rows'[r].op = rows[r].op
                /\ r \in marked => rows'[r].stale /\ rows'[r].version = rows[r].version + 1
                /\ r # rid /\ r \notin marked =>
                     (rows'[r].stale <=> rows[r].stale) /\ rows'[r].version = rows[r].version
<1>1. N \in Nat /\ Ids = 1 .. N /\ rid \in 1 .. N /\ rid \notin marked
  BY DEF PadFormed, PatchStep, Derived
<1> DEFINE f == [r \in 1 .. N |-> [Marking(rid, op, marked, r) EXCEPT !.used = @ /\ r \notin freed]]
<1>2. rows' = f
  BY <1>1 DEF PatchStep
<1>3. ASSUME NEW r \in 1 .. N
      PROVE  /\ rows[r] = WholeRow(rows[r]) /\ rows[r].stale \in BOOLEAN /\ rows[r].version \in Nat
             /\ rows[r].used \in BOOLEAN
  BY <1>1 DEF PadFormed
<1>4. ASSUME NEW r \in 1 .. N
      PROVE  /\ f[r] = WholeRow(f[r])
             /\ f[r].deps = rows[r].deps
             /\ f[r].used = (rows[r].used /\ r \notin freed)
             /\ r = rid => /\ f[r].stale = FALSE /\ f[r].version = rows[r].version + 1
                           /\ f[r].value = Apply(rows[rows[r].deps[1]].value, op, rows[rows[r].deps[2]].value)
                           /\ f[r].op = op
             /\ r # rid => f[r].value = rows[r].value /\ f[r].op = rows[r].op
             /\ r \in marked => f[r].stale = TRUE /\ f[r].version = rows[r].version + 1
             /\ r # rid /\ r \notin marked => f[r].stale = rows[r].stale /\ f[r].version = rows[r].version
  <2> DEFINE w == rows[r]
             m == Marking(rid, op, marked, r)
             c == r \notin freed
             v == Apply(rows[rows[r].deps[1]].value, op, rows[rows[r].deps[2]].value)
  <2>1. w = WholeRow(w)
    BY <1>3
  <2>2. f[r] = [m EXCEPT !.used = @ /\ c]
    OBVIOUS
  <2>3. r = rid => m = [w EXCEPT !.value = v, !.op = op, !.stale = FALSE, !.version = @ + 1]
    BY DEF Marking, Corrected
  <2>4. r \in marked => m = [w EXCEPT !.stale = TRUE, !.version = @ + 1]
    BY <1>1 DEF Marking
  <2>5. r # rid /\ r \notin marked => m = w
    BY DEF Marking
  <2> HIDE DEF w, m, c, v, f
  <2>6. r = rid => /\ m = WholeRow(m) /\ m.deps = w.deps /\ m.used = w.used /\ m.stale = FALSE
                   /\ m.version = w.version + 1 /\ m.value = v /\ m.op = op
    BY <2>1, <2>3 DEF WholeRow
  <2>7. r \in marked => /\ m = WholeRow(m) /\ m.deps = w.deps /\ m.used = w.used /\ m.stale = TRUE
                        /\ m.version = w.version + 1 /\ m.value = w.value /\ m.op = w.op
    BY <2>1, <2>4 DEF WholeRow
  <2>8. m = WholeRow(m) /\ m.deps = w.deps /\ m.used = w.used
    BY <2>1, <2>5, <2>6, <2>7
  <2>9. /\ f[r] = WholeRow(f[r]) /\ f[r].used = (m.used /\ c) /\ f[r].deps = m.deps
        /\ f[r].value = m.value /\ f[r].op = m.op /\ f[r].stale = m.stale /\ f[r].version = m.version
    BY <2>2, <2>8 DEF WholeRow
  <2>10. f[r].used = (w.used /\ c)
    BY <2>8, <2>9
  <2>11. f[r].deps = w.deps
    BY <2>8, <2>9
  <2>12. r = rid => f[r].stale = FALSE /\ f[r].version = w.version + 1 /\ f[r].value = v /\ f[r].op = op
    BY <2>6, <2>9
  <2>13. r # rid => f[r].value = w.value /\ f[r].op = w.op
    BY <2>5, <2>7, <2>9
  <2>14. r \in marked => f[r].stale = TRUE /\ f[r].version = w.version + 1
    BY <2>7, <2>9
  <2>15. r # rid /\ r \notin marked => f[r].stale = w.stale /\ f[r].version = w.version
    BY <2>5, <2>9
  <2> QED BY <2>9, <2>10, <2>11, <2>12, <2>13, <2>14, <2>15 DEF w, c, v
<1>5. f = [r \in 1 .. N |-> f[r]]
  OBVIOUS
<1> HIDE DEF f
<1>6. ASSUME NEW r \in 1 .. N
      PROVE  /\ f[r].stale \in BOOLEAN /\ f[r].used \in BOOLEAN /\ f[r].version \in Nat
             /\ (f[r].op = rows[r].op \/ f[r].op \in Ops)
  <2>1. f[r].stale = FALSE \/ f[r].stale = TRUE \/ f[r].stale = rows[r].stale
    BY <1>4
  <2>2. f[r].stale \in BOOLEAN
    BY <1>3, <2>1, Zenon
  <2>3. f[r].used \in BOOLEAN
    BY <1>4, Zenon
  <2>4. f[r].version \in Nat
    <3>1. f[r].version = rows[r].version + 1 \/ f[r].version = rows[r].version
      BY <1>4
    <3>2. rows[r].version \in Nat
      BY <1>3
    <3> QED BY <3>1, <3>2
  <2>5. f[r].op = rows[r].op \/ f[r].op \in Ops
    BY <1>4
  <2> QED BY <2>2, <2>3, <2>4, <2>5
<1>7. /\ PadFormed' /\ PadLen' = N /\ Ids' = 1 .. N /\ \A r \in 1 .. N : Deps(r)' = Deps(r)
  <2>1. N \in Nat /\ N <= PadLen
    BY <1>1
  <2>2. \A r \in 1 .. N :
              /\ f[r] = WholeRow(f[r])
              /\ f[r].stale \in BOOLEAN /\ f[r].used \in BOOLEAN /\ f[r].version \in Nat
              /\ f[r].deps = rows[r].deps /\ (f[r].op = rows[r].op \/ f[r].op \in Ops)
    BY <1>4, <1>6
  <2> QED BY <1>2, <1>5, <2>1, <2>2, SameShape
<1> QED BY <1>1, <1>2, <1>4, <1>7

\* A key holds its operands, each with the version it has, in one order or the other.
LEMMA KeyIs ==
    ASSUME NEW a, NEW op, NEW b
    PROVE  \E x, y \in {a, b} : Key(a, op, b) = <<op, <<x, Version(x)>>, <<y, Version(y)>>>>
<1>1. CASE op \in Commuting /\ ~Before(<<a, Version(a)>>, <<b, Version(b)>>)
  <2>1. Key(a, op, b) = <<op, <<b, Version(b)>>, <<a, Version(a)>>>>
    BY <1>1 DEF Key
  <2> QED BY <2>1
<1>2. CASE ~(op \in Commuting /\ ~Before(<<a, Version(a)>>, <<b, Version(b)>>))
  <2>1. Key(a, op, b) = <<op, <<a, Version(a)>>, <<b, Version(b)>>>>
    BY <1>2 DEF Key
  <2> QED BY <2>1
<1> QED BY <1>1, <1>2

\* A key that fits goes on fitting if no number is used again that was not undone, versions only
\* grow, and a version keeps its value.
LEMMA FitsStays ==
    ASSUME NEW k, NEW tried, Fits(k, tried), Ids \cup undone \subseteq Ids' \cup undone',
           \A r \in Ids' \ undone' : r \in Ids \cup undone =>
              /\ r \in Ids \ undone
              /\ rows[r].version \in Nat /\ rows'[r].version \in Nat
              /\ rows[r].version <= rows'[r].version
              /\ rows[r].version = rows'[r].version => rows[r].value = rows'[r].value
    PROVE  Fits(k, tried)'
<1> DEFINE x == k[2][1]
           i == k[2][2]
           y == k[3][1]
           j == k[3][2]
<1>1. /\ k = <<k[1], <<x, i>>, <<y, j>>>> /\ x \in Ids \cup undone /\ y \in Ids \cup undone
      /\ x \in Ids \ undone => i \in Nat /\ i <= rows[x].version
      /\ y \in Ids \ undone => j \in Nat /\ j <= rows[y].version
      /\ /\ x \in Ids \ undone /\ i = rows[x].version
         /\ y \in Ids \ undone /\ j = rows[y].version
         => tried = <<rows[x].value, rows[y].value>>
  BY DEF Fits, Premise
<1> HIDE DEF x, i, y, j
<1>2. x \in Ids' \cup undone' /\ y \in Ids' \cup undone'
  BY <1>1
<1>3. x \in Ids' \ undone' => /\ i \in Nat /\ i <= rows'[x].version
                              /\ i = rows'[x].version => x \in Ids \ undone /\ i = rows[x].version
                                                         /\ rows[x].value = rows'[x].value
  BY <1>1
<1>4. y \in Ids' \ undone' => /\ j \in Nat /\ j <= rows'[y].version
                              /\ j = rows'[y].version => y \in Ids \ undone /\ j = rows[y].version
                                                         /\ rows[y].value = rows'[y].value
  BY <1>1
<1>5. /\ x \in Ids' \ undone' /\ i = rows'[x].version
      /\ y \in Ids' \ undone' /\ j = rows'[y].version
      => tried = <<rows'[x].value, rows'[y].value>>
  BY <1>1, <1>3, <1>4
<1> QED BY <1>1, <1>2, <1>3, <1>4, <1>5 DEF Fits, Premise, x, y, i, j

\* What append notes of an attempt fits, on the rows as they were.
LEMMA NotedFits ==
    ASSUME PadFormed, PadKeys, NEW a, NEW op, NEW b, PadAppend(a, op, b)
    PROVE  /\ undone' = undone /\ revived' = revived
           /\ \A k \in DOMAIN premise' : Fits(k, premise'[k])
<1> DEFINE key == Key(a, op, b)
<1>1. /\ undone' = undone /\ revived' = revived
      /\ premise' = IF {a, b} \subseteq Ids THEN Noted(premise, key, Premise(key)) ELSE premise
  BY DEF PadAppend
<1>2. CASE ~({a, b} \subseteq Ids)
  BY <1>1, <1>2 DEF PadKeys
<1>3. CASE {a, b} \subseteq Ids
  <2>1. PICK x, y \in {a, b} : key = <<op, <<x, Version(x)>>, <<y, Version(y)>>>>
    BY KeyIs
  <2>2. x \in Ids /\ y \in Ids
    BY <1>3
  <2>3. /\ Version(x) = rows[x].version /\ rows[x].version \in Nat
        /\ Version(y) = rows[y].version /\ rows[y].version \in Nat
    BY <2>2 DEF PadFormed, Version
  <2> HIDE DEF key
  <2>4. /\ key[1] = op /\ key[2] = <<x, rows[x].version>> /\ key[3] = <<y, rows[y].version>>
        /\ key[2][1] = x /\ key[2][2] = rows[x].version /\ key[3][1] = y /\ key[3][2] = rows[y].version
        /\ key = <<key[1], <<key[2][1], key[2][2]>>, <<key[3][1], key[3][2]>>>>
    BY <2>1, <2>3
  <2>5. Fits(key, Premise(key))
    <3>1. rows[x].version <= rows[x].version /\ rows[y].version <= rows[y].version
      BY <2>3
    <3> QED BY <2>2, <2>3, <2>4, <3>1 DEF Fits
  <2>6. premise' = Noted(premise, key, Premise(key))
    BY <1>1, <1>3 DEF key
  <2>7. ASSUME NEW k \in DOMAIN premise' PROVE Fits(k, premise'[k])
    <3>1. k \in DOMAIN premise \cup {key} /\ premise'[k] = IF k = key THEN Premise(key) ELSE premise[k]
      BY <2>6 DEF Noted
    <3>2. CASE k = key
      BY <2>5, <3>1, <3>2
    <3>3. CASE k # key
      BY <3>1, <3>3 DEF PadKeys
    <3> QED BY <3>2, <3>3
  <2> QED BY <1>1, <2>7
<1> QED BY <1>2, <1>3

\* Keys that fitted before a step fit after it.
LEMMA KeysStay ==
    ASSUME undone' \in SUBSET Nat, Ids \cup undone \subseteq Ids' \cup undone',
           \A k \in DOMAIN premise' : Fits(k, premise'[k]),
           \A r \in Ids' \ undone' : r \in Ids \cup undone =>
              /\ r \in Ids \ undone
              /\ rows[r].version \in Nat /\ rows'[r].version \in Nat
              /\ rows[r].version <= rows'[r].version
              /\ rows[r].version = rows'[r].version => rows[r].value = rows'[r].value
    PROVE  PadKeys'
<1>1. ASSUME NEW k \in DOMAIN premise' PROVE Fits(k, premise[k])'
  <2>1. PICK v : v = premise'[k]
    OBVIOUS
  <2>2. Fits(k, v)'
    BY <2>1, FitsStays
  <2> QED BY <2>1, <2>2 DEF Fits
<1> QED BY <1>1 DEF PadKeys

\* An append keeps the invariant.
LEMMA AppendKeeps ==
    ASSUME PadIInv, NEW a, NEW op, NEW b, PadAppend(a, op, b)
    PROVE  PadIInv'
<1>1. PadFormed /\ ValueFollows /\ NothingLeftStanding /\ ConsumedOnce /\ PadReused /\ PadKeys
  BY DEF PadIInv
<1>2. undone' = undone /\ revived' = revived /\ \A k \in DOMAIN premise' : Fits(k, premise'[k])
  BY <1>1, NotedFits
<1>3. undone' \in SUBSET Nat
  BY <1>1, <1>2 DEF PadKeys
<1>4. CASE rows' = rows
  <2>1. Ids' = Ids /\ PadLen' = PadLen
    BY <1>4 DEF Ids, PadLen
  <2>2. \A r : Deps(r)' = Deps(r)
    BY <1>4 DEF Deps
  <2>3. PadFormed'
    BY <1>1, <1>4, <2>1 DEF PadFormed
  <2>4. ValueFollows'
    BY <1>1, <1>4, <2>1 DEF ValueFollows, Derived
  <2>5. NothingLeftStanding'
    BY <1>1, <1>2, <1>4, <2>1, <2>2 DEF NothingLeftStanding, Standing
  <2>6. ConsumedOnce'
    BY <1>1, <1>2, <1>4, <2>1, <2>2 DEF ConsumedOnce, Consumers
  <2>7. PadReused'
    BY <1>1, <1>2, <1>4, <2>1, <2>2 DEF PadReused
  <2>8. PadKeys'
    <3>1. \A r \in Ids : rows[r].version \in Nat /\ rows[r].version <= rows[r].version
      BY <1>1 DEF PadFormed
    <3> QED BY <1>2, <1>3, <1>4, <2>1, <3>1, KeysStay
  <2> QED BY <2>3, <2>4, <2>5, <2>6, <2>7, <2>8 DEF PadIInv
<1>5. CASE rows' # rows
  <2>1. Verdict(a, op, b) = "ok" /\ Extend(a, op, b)
    BY <1>5 DEF PadAppend
  <2>2. /\ op \in Ops /\ a \in Ids /\ b \in Ids
        /\ ~rows[a].stale /\ ~rows[a].used /\ ~rows[b].stale /\ ~rows[b].used
    BY <2>1 DEF Verdict, Fault
  <2>3. PICK N, n : N = PadLen /\ n = N + 1
    OBVIOUS
  <2>4. /\ PadFormed' /\ Ids' = 1 .. n /\ N \in Nat /\ Ids = 1 .. N
        /\ \A r \in 1 .. N :
                /\ rows'[r].value = rows[r].value /\ rows'[r].op = rows[r].op
                /\ rows'[r].deps = rows[r].deps /\ (rows'[r].stale <=> rows[r].stale)
                /\ rows'[r].version = rows[r].version
                /\ rows'[r].used <=> (rows[r].used \/ r \in {a, b})
                /\ Deps(r)' = Deps(r)
        /\ rows'[n].value = Apply(rows[a].value, op, rows[b].value)
        /\ rows'[n].op = op /\ rows'[n].deps = <<a, b>> /\ Deps(n)' = {a, b}
        /\ ~rows'[n].stale /\ ~rows'[n].used /\ rows'[n].version = 0
    <3>1. PadFormed /\ op \in Ops /\ a \in Ids /\ b \in Ids /\ Extend(a, op, b)
      BY <1>1, <2>1, <2>2
    <3> QED BY <2>3, <3>1, ExtendIs
  <2>6. /\ n \notin Ids /\ Ids' = Ids \cup {n} /\ \A r \in Ids : r < n
    BY <2>3, <2>4
  <2>7. \A r \in Ids : Deps(r) \subseteq Ids /\ r \notin Deps(r) /\ n \notin Deps(r)
    <3> SUFFICES ASSUME NEW r \in Ids PROVE Deps(r) \subseteq Ids /\ r \notin Deps(r) /\ n \notin Deps(r)
      OBVIOUS
    <3>1. Deps(r) \in SUBSET (1 .. r - 1) /\ r \in 1 .. N
      BY <1>1, <2>4, DepsAre
    <3> QED BY <2>3, <2>4, <3>1
  <2>8. ValueFollows'
    <3> SUFFICES ASSUME NEW r \in Ids', rows'[r].deps # <<>>, ~rows'[r].stale
                 PROVE  rows'[r].value = Apply(rows'[rows'[r].deps[1]].value, rows'[r].op, rows'[rows'[r].deps[2]].value)
      BY DEF ValueFollows, Derived
    <3>1. CASE r = n
      <4>1. rows'[r].deps[1] = a /\ rows'[r].deps[2] = b
        BY <2>4, <3>1
      <4> QED BY <2>2, <2>4, <3>1, <4>1
    <3>2. CASE r # n
      <4>1. r \in Ids /\ rows[r].deps # <<>> /\ ~rows[r].stale
        BY <2>4, <2>6, <3>2
      <4>2. rows[r].deps[1] \in Ids /\ rows[r].deps[2] \in Ids
        <5>1. Deps(r) = {rows[r].deps[1], rows[r].deps[2]}
          BY <1>1, <4>1, DepsAre
        <5> QED BY <2>7, <4>1, <5>1
      <4>3. rows[r].value = Apply(rows[rows[r].deps[1]].value, rows[r].op, rows[rows[r].deps[2]].value)
        BY <1>1, <4>1 DEF ValueFollows, Derived
      <4> QED BY <2>4, <4>1, <4>2, <4>3
    <3> QED BY <3>1, <3>2
  <2>9. NothingLeftStanding'
    <3> SUFFICES ASSUME ~revived', NEW r \in Ids', ~rows'[r].stale, NEW d \in Deps(r)' PROVE ~rows'[d].stale
      BY DEF NothingLeftStanding, Standing
    <3>1. CASE r = n
      BY <2>2, <2>4, <3>1
    <3>2. CASE r # n
      <4>1. r \in Ids /\ ~rows[r].stale /\ d \in Deps(r) /\ d \in Ids
        BY <2>4, <2>6, <2>7, <3>2
      <4> QED BY <1>1, <1>2, <2>4, <4>1 DEF NothingLeftStanding, Standing
    <3> QED BY <3>1, <3>2
  <2>10. ASSUME ~revived PROVE Consumers(a) = {} /\ Consumers(b) = {}
    BY <1>1, <2>2, <2>10 DEF ConsumedOnce
  <2>11. \A d \in Ids : Consumers(d)' = Consumers(d) \cup (IF d \in {a, b} THEN {n} ELSE {})
    <3> SUFFICES ASSUME NEW d \in Ids, NEW r
                 PROVE  r \in Consumers(d)' <=> r \in Consumers(d) \/ (d \in {a, b} /\ r = n)
      OBVIOUS
    <3>1. r \in Consumers(d)' <=> r \in Ids' /\ ~rows'[r].stale /\ d \in Deps(r)'
      BY DEF Consumers
    <3>2. r \in Consumers(d) <=> r \in Ids /\ ~rows[r].stale /\ d \in Deps(r)
      BY DEF Consumers
    <3>3. CASE r = n
      BY <2>4, <2>6, <3>1, <3>2, <3>3
    <3>4. CASE r # n
      BY <2>4, <2>6, <3>1, <3>2, <3>4
    <3> QED BY <3>3, <3>4
  <2>12. ConsumedOnce'
    <3> SUFFICES ASSUME ~revived', NEW d \in Ids', ~rows'[d].stale
                 PROVE  /\ rows'[d].used <=> Consumers(d)' # {}
                        /\ \A r, s \in Consumers(d)' : r = s
      BY DEF ConsumedOnce
    <3>1. CASE d = n
      <4>1. Consumers(d)' = {}
        <5> SUFFICES ASSUME NEW r \in Ids', n \in Deps(r)' PROVE FALSE
          BY <3>1 DEF Consumers
        <5> QED BY <2>2, <2>4, <2>6, <2>7
      <4> QED BY <2>4, <3>1, <4>1
    <3>2. CASE d # n
      <4>1. d \in Ids /\ ~rows[d].stale /\ ~revived
        BY <1>2, <2>4, <2>6, <3>2
      <4>2. /\ rows[d].used <=> Consumers(d) # {}
            /\ \A r, s \in Consumers(d) : r = s
        BY <1>1, <4>1 DEF ConsumedOnce
      <4>3. rows'[d].used <=> (rows[d].used \/ d \in {a, b})
        BY <2>4, <4>1
      <4>4. CASE d \in {a, b}
        <5>1. Consumers(d)' = {n}
          BY <2>10, <2>11, <4>1, <4>4
        <5> QED BY <4>3, <4>4, <5>1
      <4>5. CASE d \notin {a, b}
        BY <2>11, <4>1, <4>2, <4>3, <4>5
      <4> QED BY <4>4, <4>5
    <3> QED BY <3>1, <3>2
  <2>13. PadReused'
    <3> SUFFICES ASSUME ~revived', NEW r \in Ids', NEW s \in Ids', r < s,
                        NEW d \in Deps(r)', d \in Deps(s)'
                 PROVE  rows'[r].stale
      BY DEF PadReused
    <3>1. r \in Ids /\ ~revived /\ d \in Deps(r) /\ (rows'[r].stale <=> rows[r].stale)
      <4>1. r # n
        BY <2>3, <2>4
      <4> QED BY <1>2, <2>4, <2>6, <4>1
    <3>2. CASE s = n
      <4>1. d \in {a, b}
        BY <2>4, <3>2
      <4>2. r \notin Consumers(d)
        BY <2>10, <3>1, <4>1
      <4> QED BY <3>1, <4>2 DEF Consumers
    <3>3. CASE s # n
      <4>1. s \in Ids /\ d \in Deps(s)
        BY <2>4, <2>6, <3>3
      <4> QED BY <1>1, <3>1, <4>1 DEF PadReused
    <3> QED BY <3>2, <3>3
  <2>14. PadKeys'
    <3>1. ASSUME NEW r \in Ids' \ undone', r \in Ids \cup undone
          PROVE  /\ r \in Ids \ undone
                 /\ rows[r].version \in Nat /\ rows'[r].version \in Nat
                 /\ rows[r].version <= rows'[r].version
                 /\ rows[r].version = rows'[r].version => rows[r].value = rows'[r].value
      <4>1. r \in Ids \ undone
        BY <1>2, <3>1
      <4>2. rows[r].version \in Nat
        BY <1>1, <4>1 DEF PadFormed
      <4>3. rows[r].version = rows'[r].version /\ rows[r].value = rows'[r].value
        BY <2>4, <4>1
      <4> QED BY <4>1, <4>2, <4>3
    <3>2. Ids \cup undone \subseteq Ids' \cup undone'
      BY <1>2, <2>6
    <3> QED BY <1>2, <1>3, <3>1, <3>2, KeysStay
  <2> QED BY <2>4, <2>8, <2>9, <2>12, <2>13, <2>14 DEF PadIInv
<1> QED BY <1>4, <1>5

\* An undo keeps the invariant.
LEMMA UndoKeeps == ASSUME PadIInv, PadUndo PROVE PadIInv'
<1>1. PadFormed /\ ValueFollows /\ NothingLeftStanding /\ ConsumedOnce /\ PadReused /\ PadKeys
  BY DEF PadIInv
<1>2. PICK N : N = PadLen
  OBVIOUS
<1>3. /\ PadFormed' /\ Ids' = 1 .. N - 1 /\ N \in Nat \ {0} /\ Ids = 1 .. N
      /\ rows[N].deps # <<>> /\ undone' = undone \cup {N}
      /\ \A r \in 1 .. N - 1 :
           /\ rows'[r].value = rows[r].value /\ rows'[r].op = rows[r].op
           /\ rows'[r].deps = rows[r].deps /\ (rows'[r].stale <=> rows[r].stale)
           /\ rows'[r].version = rows[r].version
           /\ rows'[r].used <=> (rows[r].used /\ r \notin Deps(N))
           /\ Deps(r)' = Deps(r)
  BY <1>1, <1>2, UndoIs
<1>4. revived' = revived /\ premise' = premise
  BY DEF PadUndo
<1>5. N \in Ids /\ N \notin Ids' /\ Ids = Ids' \cup {N} /\ \A r \in Ids' : r < N
  BY <1>3
<1>6. \A r \in Ids : Deps(r) \subseteq Ids' /\ r \notin Deps(r)
  <2> SUFFICES ASSUME NEW r \in Ids PROVE Deps(r) \subseteq Ids' /\ r \notin Deps(r)
    OBVIOUS
  <2>1. Deps(r) \in SUBSET (1 .. r - 1) /\ r \in 1 .. N
    BY <1>1, <1>3, DepsAre
  <2> QED BY <1>3, <2>1
<1>7. ValueFollows'
  <2> SUFFICES ASSUME NEW r \in Ids', rows'[r].deps # <<>>, ~rows'[r].stale
               PROVE  rows'[r].value = Apply(rows'[rows'[r].deps[1]].value, rows'[r].op, rows'[rows'[r].deps[2]].value)
    BY DEF ValueFollows, Derived
  <2>1. r \in Ids /\ rows[r].deps # <<>> /\ ~rows[r].stale
    BY <1>3, <1>5
  <2>2. rows[r].deps[1] \in Ids' /\ rows[r].deps[2] \in Ids'
    <3>1. Deps(r) = {rows[r].deps[1], rows[r].deps[2]}
      BY <1>1, <2>1, DepsAre
    <3> QED BY <1>6, <2>1, <3>1
  <2>3. rows[r].value = Apply(rows[rows[r].deps[1]].value, rows[r].op, rows[rows[r].deps[2]].value)
    BY <1>1, <2>1 DEF ValueFollows, Derived
  <2> QED BY <1>3, <2>2, <2>3
<1>8. NothingLeftStanding'
  <2> SUFFICES ASSUME ~revived', NEW r \in Ids', ~rows'[r].stale, NEW d \in Deps(r)' PROVE ~rows'[d].stale
    BY DEF NothingLeftStanding, Standing
  <2>1. r \in Ids /\ ~rows[r].stale /\ d \in Deps(r) /\ d \in Ids'
    BY <1>3, <1>5, <1>6
  <2> QED BY <1>1, <1>3, <1>4, <2>1 DEF NothingLeftStanding, Standing
<1>9. \A d \in Ids' : \A r : r \in Consumers(d)' <=> r \in Consumers(d) /\ r # N
  <2> SUFFICES ASSUME NEW d \in Ids', NEW r PROVE r \in Consumers(d)' <=> r \in Consumers(d) /\ r # N
    OBVIOUS
  <2>1. r \in Consumers(d)' <=> r \in Ids' /\ ~rows'[r].stale /\ d \in Deps(r)'
    BY DEF Consumers
  <2>2. r \in Consumers(d) <=> r \in Ids /\ ~rows[r].stale /\ d \in Deps(r)
    BY DEF Consumers
  <2> QED BY <1>3, <1>5, <2>1, <2>2
<1>10. ConsumedOnce'
  <2> SUFFICES ASSUME ~revived', NEW d \in Ids', ~rows'[d].stale
               PROVE  /\ rows'[d].used <=> Consumers(d)' # {}
                      /\ \A r, s \in Consumers(d)' : r = s
    BY DEF ConsumedOnce
  <2>1. d \in Ids /\ ~rows[d].stale /\ ~revived
    BY <1>3, <1>4, <1>5
  <2>2. /\ rows[d].used <=> Consumers(d) # {}
        /\ \A r, s \in Consumers(d) : r = s
    BY <1>1, <2>1 DEF ConsumedOnce
  <2>3. rows'[d].used <=> rows[d].used /\ d \notin Deps(N)
    BY <1>3
  <2>4. CASE d \in Deps(N)
    <3>1. Consumers(d)' = {}
      <4> SUFFICES ASSUME NEW r \in Consumers(d), r # N PROVE FALSE
        BY <1>9
      <4>1. r \in Ids /\ ~rows[r].stale /\ d \in Deps(r) /\ r < N
        BY <1>5 DEF Consumers
      <4> QED BY <1>1, <1>5, <2>1, <2>4, <4>1 DEF PadReused
    <3> QED BY <2>3, <2>4, <3>1
  <2>5. CASE d \notin Deps(N)
    <3>1. N \notin Consumers(d)
      BY <2>5 DEF Consumers
    <3> QED BY <1>9, <2>2, <2>3, <2>5, <3>1
  <2> QED BY <2>4, <2>5
<1>11. PadReused'
  <2> SUFFICES ASSUME ~revived', NEW r \in Ids', NEW s \in Ids', r < s,
                      NEW d \in Deps(r)', d \in Deps(s)'
               PROVE  rows'[r].stale
    BY DEF PadReused
  <2>1. r \in Ids /\ s \in Ids /\ d \in Deps(r) /\ d \in Deps(s) /\ ~revived /\ (rows'[r].stale <=> rows[r].stale)
    BY <1>3, <1>4, <1>5
  <2> QED BY <1>1, <2>1 DEF PadReused
<1>12. PadKeys'
  <2>1. undone' \in SUBSET Nat
    BY <1>1, <1>3 DEF PadKeys
  <2>2. Ids \cup undone \subseteq Ids' \cup undone'
    BY <1>3, <1>5
  <2>3. \A k \in DOMAIN premise' : Fits(k, premise'[k])
    BY <1>1, <1>4 DEF PadKeys
  <2>4. ASSUME NEW r \in Ids' \ undone', r \in Ids \cup undone
        PROVE  /\ r \in Ids \ undone
               /\ rows[r].version \in Nat /\ rows'[r].version \in Nat
               /\ rows[r].version <= rows'[r].version
               /\ rows[r].version = rows'[r].version => rows[r].value = rows'[r].value
    <3>1. r \in Ids \ undone
      BY <1>3, <1>5
    <3>2. rows[r].version \in Nat
      BY <1>1, <3>1 DEF PadFormed
    <3>3. rows[r].version = rows'[r].version /\ rows[r].value = rows'[r].value
      BY <1>3
    <3> QED BY <3>1, <3>2, <3>3
  <2> QED BY <2>1, <2>2, <2>3, <2>4, KeysStay
<1> QED BY <1>3, <1>7, <1>8, <1>10, <1>11, <1>12 DEF PadIInv

\* What a patch marks comes after the row patched.
LEMMA MarkedLater ==
    ASSUME PadFormed, NEW rid, NEW op, NEW marked, PatchStep(rid, op, marked)
    PROVE  \A r \in marked : rid < r
<1>1. /\ rid \in Ids /\ marked \in SUBSET Ids /\ rid \notin marked /\ Ids = 1 .. PadLen /\ PadLen \in Nat
      /\ Marks(rid, marked)
  BY DEF PatchStep, Derived, PadFormed
<1> DEFINE S == {r \in marked : r <= rid}
<1>2. SUFFICES ASSUME S # {} PROVE FALSE
  BY <1>1
<1>3. S \in SUBSET Nat
  <2>1. \A r \in marked : r \in 1 .. PadLen
    BY <1>1
  <2>2. \A r \in 1 .. PadLen : r \in Nat
    BY <1>1
  <2> QED BY <2>1, <2>2
<1>4. PICK r \in S : \A s \in S : r <= s
  BY <1>2, <1>3, SmallestNat
<1>5. r \in Ids /\ r \in marked /\ r <= rid
  BY <1>1
<1>6. Deps(r) \cap (marked \cup {rid}) # {}
  BY <1>1, <1>5 DEF Marks
<1>7. PICK d \in Deps(r) : d \in marked \cup {rid}
  BY <1>6
<1>8. d \in 1 .. r - 1 /\ r \in 1 .. PadLen
  BY <1>1, <1>5, DepsAre
<1>9. d < r /\ d < rid /\ d \in marked
  BY <1>1, <1>5, <1>7, <1>8
<1> QED BY <1>1, <1>3, <1>4, <1>8, <1>9

\* A patch keeps the invariant.
LEMMA PatchKeeps ==
    ASSUME PadIInv, NEW rid, NEW op \in Ops, NEW marked, PatchStep(rid, op, marked)
    PROVE  PadIInv'
<1>1. PadFormed /\ ValueFollows /\ NothingLeftStanding /\ ConsumedOnce /\ PadReused /\ PadKeys
  BY DEF PadIInv
<1>2. PICK N, freed : N = PadLen /\ freed = Freed(rid, marked)
  OBVIOUS
<1>3. /\ PadFormed' /\ N \in Nat /\ Ids = 1 .. N /\ Ids' = 1 .. N /\ rid \in 1 .. N
      /\ \A r \in 1 .. N :
           /\ rows'[r].deps = rows[r].deps /\ Deps(r)' = Deps(r)
           /\ rows'[r].used <=> (rows[r].used /\ r \notin freed)
           /\ r = rid => /\ ~rows'[r].stale /\ rows'[r].version = rows[r].version + 1
                         /\ rows'[r].value = Apply(rows[rows[r].deps[1]].value, op, rows[rows[r].deps[2]].value)
                         /\ rows'[r].op = op
           /\ r # rid => /\ rows'[r].value = rows[r].value /\ rows'[r].op = rows[r].op
           /\ r \in marked => rows'[r].stale /\ rows'[r].version = rows[r].version + 1
           /\ r # rid /\ r \notin marked =>
                (rows'[r].stale <=> rows[r].stale) /\ rows'[r].version = rows[r].version
  BY <1>1, <1>2, PatchIs
<1>4. /\ revived' = (revived \/ rows[rid].stale) /\ premise' = premise /\ undone' = undone
      /\ rid \in Ids /\ rid \notin marked /\ rows[rid].deps # <<>> /\ marked \subseteq Ids
  BY DEF PatchStep, Derived
<1>5. \A r \in Ids : r \in marked <=> /\ ~rows[r].stale /\ rows[r].deps # << >>
                                      /\ Deps(r) \cap (marked \cup {rid}) # {}
  BY DEF PatchStep, Marks
<1>6. \A r \in marked : rid < r
  BY <1>1, MarkedLater
<1>7. \A r \in Ids : Deps(r) \subseteq Ids /\ \A d \in Deps(r) : d < r /\ rows[r].deps # <<>>
  <2> SUFFICES ASSUME NEW r \in Ids PROVE Deps(r) \subseteq Ids /\ \A d \in Deps(r) : d < r /\ rows[r].deps # <<>>
    OBVIOUS
  <2>1. Deps(r) \in SUBSET (1 .. r - 1) /\ r \in 1 .. N /\ (rows[r].deps = <<>> => Deps(r) = {})
    BY <1>1, <1>3, DepsAre
  <2> QED BY <1>3, <2>1
<1>8. ValueFollows'
  <2> SUFFICES ASSUME NEW r \in Ids, rows'[r].deps # <<>>, ~rows'[r].stale
               PROVE  rows'[r].value = Apply(rows'[rows'[r].deps[1]].value, rows'[r].op, rows'[rows'[r].deps[2]].value)
    BY <1>3 DEF ValueFollows, Derived
  <2> DEFINE c == rows[r].deps[1]
             d == rows[r].deps[2]
  <2>1. rows[r].deps # <<>> /\ rows'[r].deps = rows[r].deps /\ r \notin marked
    BY <1>3
  <2>2. Deps(r) = {c, d}
    BY <1>1, <2>1, DepsAre
  <2>3. c \in 1 .. N /\ d \in 1 .. N /\ c < r /\ d < r
    BY <1>3, <1>7, <2>2
  <2> HIDE DEF c, d
  <2>4. CASE r = rid
    <3>1. c # rid /\ d # rid
      BY <1>3, <2>3, <2>4
    <3>2. rows'[c].value = rows[c].value /\ rows'[d].value = rows[d].value
      BY <1>3, <2>3, <3>1
    <3>3. rows'[r].value = Apply(rows[c].value, op, rows[d].value) /\ rows'[r].op = op
      BY <1>3, <2>4 DEF c, d
    <3>4. rows'[r].deps[1] = c /\ rows'[r].deps[2] = d
      BY <2>1 DEF c, d
    <3> QED BY <3>2, <3>3, <3>4
  <2>5. CASE r # rid
    <3>1. ~rows[r].stale
      BY <1>3, <2>1, <2>5
    <3>2. rid \notin Deps(r)
      BY <1>5, <2>1, <3>1
    <3>3. rows'[c].value = rows[c].value /\ rows'[d].value = rows[d].value
      BY <1>3, <2>2, <2>3, <3>2
    <3>4. rows[r].value = Apply(rows[c].value, rows[r].op, rows[d].value)
      BY <1>1, <2>1, <3>1 DEF ValueFollows, Derived, c, d
    <3>5. rows'[r].deps[1] = c /\ rows'[r].deps[2] = d /\ rows'[r].value = rows[r].value /\ rows'[r].op = rows[r].op
      BY <1>3, <2>1, <2>5 DEF c, d
    <3> QED BY <3>3, <3>4, <3>5
  <2> QED BY <2>4, <2>5
<1>9. ASSUME ~revived' PROVE ~revived /\ ~rows[rid].stale
  BY <1>4, <1>9
<1>10. ASSUME ~revived', NEW r \in Ids, ~rows'[r].stale PROVE r \notin marked /\ ~rows[r].stale
  BY <1>3, <1>9, <1>10
<1>11. NothingLeftStanding'
  <2> SUFFICES ASSUME ~revived', NEW r \in Ids, ~rows'[r].stale, NEW d \in Deps(r), rows'[d].stale PROVE FALSE
    BY <1>3 DEF NothingLeftStanding, Standing
  <2>1. ~revived /\ ~rows[rid].stale /\ r \notin marked /\ ~rows[r].stale /\ d \in Ids /\ d < r
        /\ rows[r].deps # <<>>
    BY <1>7, <1>9, <1>10
  <2>2. ~rows[d].stale
    BY <1>1, <2>1 DEF NothingLeftStanding, Standing
  <2>3. d \in marked
    BY <1>3, <2>1, <2>2
  <2> QED BY <1>5, <2>1, <2>3
<1>12. ASSUME ~revived', NEW d \in Ids, NEW r
       PROVE  r \in Consumers(d)' <=> r \in Consumers(d) /\ r \notin marked
  <2>1. r \in Consumers(d)' <=> r \in Ids' /\ ~rows'[r].stale /\ d \in Deps(r)'
    BY DEF Consumers
  <2>2. r \in Consumers(d) <=> r \in Ids /\ ~rows[r].stale /\ d \in Deps(r)
    BY DEF Consumers
  <2>3. r \in Ids => (~rows'[r].stale <=> ~rows[r].stale /\ r \notin marked)
    BY <1>3, <1>4, <1>9, <1>12
  <2> QED BY <1>3, <2>1, <2>2, <2>3
<1>13. ConsumedOnce'
  <2> SUFFICES ASSUME ~revived', NEW d \in Ids, ~rows'[d].stale
               PROVE  /\ rows'[d].used <=> Consumers(d)' # {}
                      /\ \A r, s \in Consumers(d)' : r = s
    BY <1>3 DEF ConsumedOnce
  <2>1. ~rows[d].stale /\ d \notin marked /\ ~revived
    BY <1>9, <1>10
  <2>2. /\ rows[d].used <=> Consumers(d) # {}
        /\ \A r, s \in Consumers(d) : r = s
    BY <1>1, <2>1 DEF ConsumedOnce
  <2>3. rows'[d].used <=> rows[d].used /\ d \notin freed
    BY <1>3
  <2>4. \A r : r \in Consumers(d)' <=> r \in Consumers(d) /\ r \notin marked
    BY <1>12
  <2>5. d \in freed <=> d = rid \/ \E r \in marked : d \in Deps(r)
    BY <1>2, <2>1 DEF Freed
  <2>6. CASE d = rid
    <3>1. \A r \in Consumers(d) : r \in marked
      BY <1>5, <1>7, <2>6 DEF Consumers
    <3> QED BY <2>3, <2>4, <2>5, <2>6, <3>1
  <2>7. CASE d # rid /\ d \in freed
    <3>1. PICK r \in marked : d \in Deps(r)
      BY <2>5, <2>7
    <3>2. r \in Consumers(d)
      BY <1>4, <1>5, <3>1 DEF Consumers
    <3> QED BY <2>2, <2>3, <2>4, <2>7, <3>1, <3>2
  <2>8. CASE d \notin freed
    <3>1. \A r \in Consumers(d) : r \notin marked
      BY <2>5, <2>8 DEF Consumers
    <3> QED BY <2>2, <2>3, <2>4, <2>8, <3>1
  <2> QED BY <2>6, <2>7, <2>8
<1>14. PadReused'
  <2> SUFFICES ASSUME ~revived', NEW r \in Ids, NEW s \in Ids, r < s,
                      NEW d \in Deps(r), d \in Deps(s), ~rows'[r].stale
               PROVE  FALSE
    BY <1>3 DEF PadReused
  <2>1. ~revived /\ ~rows[r].stale
    BY <1>9, <1>10
  <2> QED BY <1>1, <2>1 DEF PadReused
<1>15. PadKeys'
  <2>1. undone' \in SUBSET Nat
    BY <1>1, <1>4 DEF PadKeys
  <2>2. Ids \cup undone \subseteq Ids' \cup undone'
    BY <1>3, <1>4
  <2>3. \A k \in DOMAIN premise' : Fits(k, premise'[k])
    BY <1>1, <1>4 DEF PadKeys
  <2>4. ASSUME NEW r \in Ids' \ undone', r \in Ids \cup undone
        PROVE  /\ r \in Ids \ undone
               /\ rows[r].version \in Nat /\ rows'[r].version \in Nat
               /\ rows[r].version <= rows'[r].version
               /\ rows[r].version = rows'[r].version => rows[r].value = rows'[r].value
    <3>1. r \in Ids \ undone
      BY <1>3, <1>4
    <3>2. rows[r].version \in Nat
      BY <1>1, <3>1 DEF PadFormed
    <3>3. \/ rows'[r].version = rows[r].version + 1
          \/ rows[r].version = rows'[r].version /\ rows[r].value = rows'[r].value
      BY <1>3, <3>1
    <3> QED BY <3>1, <3>2, <3>3
  <2> QED BY <2>1, <2>2, <2>3, <2>4, KeysStay
<1> QED BY <1>3, <1>8, <1>11, <1>13, <1>14, <1>15 DEF PadIInv

\* A step that leaves the record alone keeps the invariant.
LEMMA PadStutter == ASSUME PadIInv, UNCHANGED padVars PROVE PadIInv'
<1>1. rows' = rows /\ premise' = premise /\ undone' = undone /\ revived' = revived
  BY DEF padVars
<1>2. PadFormed' /\ ValueFollows' /\ NothingLeftStanding'
  BY <1>1 DEF PadIInv, PadFormed, PadLen, Ids, ValueFollows, Derived, NothingLeftStanding, Standing, Deps
<1>3. ConsumedOnce' /\ PadReused'
  BY <1>1 DEF PadIInv, Ids, ConsumedOnce, Consumers, PadReused, Deps
<1>4. PadKeys'
  BY <1>1 DEF PadIInv, PadKeys, Fits, Premise, Ids
<1> QED BY <1>2, <1>3, <1>4 DEF PadIInv

\* Every step keeps the invariant.
LEMMA PadStep == ASSUME PadIInv, [PadNext]_padVars PROVE PadIInv'
<1>1. CASE UNCHANGED padVars
  BY <1>1, PadStutter
<1>2. ASSUME NEW a, NEW op, NEW b, PadAppend(a, op, b) PROVE PadIInv'
  BY <1>2, AppendKeeps
<1>3. CASE PadUndo
  BY <1>3, UndoKeeps
<1>4. ASSUME NEW rid, NEW op \in Ops, PadPatch(rid, op) PROVE PadIInv'
  <2>1. PICK marked : PatchStep(rid, op, marked)
    BY <1>4, PatchSteps
  <2> QED BY <2>1, PatchKeeps
<1> QED BY <1>1, <1>2, <1>3, <1>4 DEF PadNext

\* The key of an attempt on rows never undone names versions they have now.
LEMMA PremiseIsKept == ASSUME PadFormed, PadKeys PROVE PremiseKept
<1> SUFFICES ASSUME NEW a \in Ids \ undone, NEW b \in Ids \ undone, NEW op \in Ops,
                    Key(a, op, b) \in DOMAIN premise
             PROVE  premise[Key(a, op, b)] = Premise(Key(a, op, b))
  BY DEF PremiseKept
<1> DEFINE k == Key(a, op, b)
<1>1. PICK x, y \in {a, b} : k = <<op, <<x, Version(x)>>, <<y, Version(y)>>>>
  BY KeyIs
<1>2. Fits(k, premise[k])
  BY DEF PadKeys
<1>3. x \in Ids \ undone /\ y \in Ids \ undone /\ Version(x) = rows[x].version /\ Version(y) = rows[y].version
  BY DEF Version
<1> HIDE DEF k
<1>4. k[2][1] = x /\ k[2][2] = rows[x].version /\ k[3][1] = y /\ k[3][2] = rows[y].version
  BY <1>1, <1>3
<1>5. premise[k] = Premise(k)
  BY <1>2, <1>3, <1>4 DEF Fits
<1> QED BY <1>5 DEF k

\* The invariant of the record holds always (workpad.py:81-195).
THEOREM PadInvariant == PadSpec => []PadIInv
BY PadStart, PadStep, PTL DEF PadSpec

\* Whatever is appended, undone and corrected, for every set of operators and any number of calls:
\* a row that is not stale holds what its operands now give; until a stale row is corrected itself,
\* nothing stands on a stale row and a row is consumed exactly by the one row derived from it; and
\* what seen() answers was tried on the values the operands hold now (workpad.py:13-24, 81-195).
THEOREM RecordSoundTheorem == PadSpec => []RecordSound
<1>1. PadIInv => RecordSound
  BY PremiseIsKept DEF PadIInv, RecordSound
<1> QED BY <1>1, PadInvariant, PTL

-----------------------------------------------------------------------------
(* IslandGraph *)

NamesApart ==
    /\ \A b \in Bodies : b.slots \cap IslandNames = {}
    /\ AnswerWords \cap IslandNames = {}

Frames == [name : DOMAIN defs, todo : SUBSET DOMAIN defs]

\* What is kept is right: a value stands on values.
Settled(n) ==
    /\ PutIn(n) \subseteq DOMAIN values
    /\ values[n] = Worth(n, values)
    /\ ~defs[n].machine => Left(n) = {}

\* The calls of resolve, from the one asked for: each on the way of the one above it.
Calls ==
    /\ visiting = {stack[i].name : i \in DOMAIN stack}
    /\ visiting \cap DOMAIN values = {}
    /\ stack # << >> => stack[1].name = Asked
    /\ \A i, j \in DOMAIN stack :
          /\ stack[i].name = stack[j].name => i = j
          /\ i <= j => stack[j].name \in RestsOn(stack[i].name)
          /\ j = i + 1 => stack[j].name \in defs[stack[i].name].refs

\* What a call has done with is valued, but for the one it waits for.
DoneWith ==
    \A i \in DOMAIN stack :
        /\ stack[i].todo \subseteq WantedOf(stack[i].name)
        /\ \A m \in WantedOf(stack[i].name) \ stack[i].todo :
              m \in DOMAIN values \/ (i + 1 \in DOMAIN stack /\ stack[i + 1].name = m)

GraphTyped ==
    /\ DOMAIN defs \subseteq IslandNames /\ \A n \in DOMAIN defs : defs[n] \in Bodies
    /\ stack \in Seq(Frames)
    /\ DOMAIN values \subseteq DOMAIN defs

GraphInv ==
    /\ GraphTyped
    /\ \A n \in DOMAIN values : Settled(n)
    /\ resolution = Unresolved => Calls /\ DoneWith /\ stack # << >>
    /\ ResolvedRight

LEMMA RestsOnSelf == ASSUME NEW n \in DOMAIN defs PROVE n \in RestsOn(n)
BY DEF RestsOn

LEMMA RestsOnStep ==
    ASSUME NEW n, NEW m \in RestsOn(n), NEW k \in defs[m].refs \cap DOMAIN defs
    PROVE  k \in RestsOn(n)
BY DEF RestsOn

LEMMA RestsOnWithin ==
    ASSUME NEW n, NEW S \in SUBSET DOMAIN defs, n \in S,
           \A m \in S : defs[m].refs \cap DOMAIN defs \subseteq S
    PROVE  RestsOn(n) \subseteq S
BY DEF RestsOn

\* A reference is found among the names of the text, once slots are not called like it.
LEMMA WantedIsReferred ==
    ASSUME NamesApart, GraphTyped, NEW n \in DOMAIN defs, NEW m \in WantedOf(n)
    PROVE  m \in defs[n].refs \cap DOMAIN defs /\ m # n
BY DEF NamesApart, GraphTyped, WantedOf, NamesIn

LEMMA TopReplaced ==
    ASSUME NEW T, NEW s \in Seq(T), s # << >>, NEW e \in T
    PROVE  LET r == Append(SubSeq(s, 1, Len(s) - 1), e)
           IN  /\ r \in Seq(T) /\ Len(r) = Len(s) /\ DOMAIN r = DOMAIN s
               /\ \A i \in DOMAIN s : r[i] = IF i = Len(s) THEN e ELSE s[i]
<1>1. Len(s) \in Nat /\ Len(s) > 0 /\ DOMAIN s = 1 .. Len(s)
  BY EmptySeq, LenProperties
<1>2. SubSeq(s, 1, Len(s) - 1) \in Seq(T) /\ Len(SubSeq(s, 1, Len(s) - 1)) = Len(s) - 1
      /\ \A i \in 1 .. Len(s) - 1 : SubSeq(s, 1, Len(s) - 1)[i] = s[i]
  BY <1>1, SubSeqProperties
<1>3. PICK r : r = Append(SubSeq(s, 1, Len(s) - 1), e)
  OBVIOUS
<1>4. r \in Seq(T) /\ Len(r) = Len(s) /\ r[Len(s)] = e /\ \A i \in 1 .. Len(s) - 1 : r[i] = s[i]
  <2>1. PICK c : c = SubSeq(s, 1, Len(s) - 1)
    OBVIOUS
  <2>2. c \in Seq(T) /\ Len(c) = Len(s) - 1 /\ (\A i \in 1 .. Len(s) - 1 : c[i] = s[i]) /\ r = Append(c, e)
    BY <1>2, <1>3, <2>1
  <2>3. Len(c) + 1 = Len(s)
    BY <2>2, <1>1
  <2> QED BY <2>2, <2>3, <1>1, AppendProperties
<1>5. DOMAIN r = 1 .. Len(s)
  BY <1>4, LenProperties
<1>6. \A i \in DOMAIN s : r[i] = IF i = Len(s) THEN e ELSE s[i]
  BY <1>1, <1>4
<1> QED BY <1>1, <1>3, <1>4, <1>5, <1>6

LEMMA TopOff ==
    ASSUME NEW T, NEW s \in Seq(T), s # << >>
    PROVE  LET r == SubSeq(s, 1, Len(s) - 1)
           IN  /\ r \in Seq(T) /\ DOMAIN r = DOMAIN s \ {Len(s)} /\ Len(r) = Len(s) - 1
               /\ \A i \in DOMAIN r : r[i] = s[i]
<1>1. Len(s) \in Nat /\ Len(s) > 0 /\ DOMAIN s = 1 .. Len(s)
  BY EmptySeq, LenProperties
<1>2. PICK r : r = SubSeq(s, 1, Len(s) - 1)
  OBVIOUS
<1>3. r \in Seq(T) /\ Len(r) = Len(s) - 1 /\ \A i \in 1 .. Len(s) - 1 : r[i] = s[i]
  BY <1>1, <1>2, SubSeqProperties
<1>4. DOMAIN r = 1 .. Len(s) - 1
  BY <1>3, LenProperties, <1>1
<1> QED BY <1>1, <1>2, <1>3, <1>4

LEMMA GraphBegins == ASSUME NamesApart, GraphInit PROVE GraphInv
<1>1. PICK D \in SUBSET IslandNames : defs \in [D -> Bodies]
  BY DEF GraphInit
<1>2. DOMAIN defs = D /\ (\A n \in DOMAIN defs : defs[n] \in Bodies) /\ DOMAIN values = {}
  BY <1>1 DEF GraphInit
<1>3. CASE Asked \in DOMAIN defs
  <2>1. visiting = {Asked} /\ stack = <<Frame(Asked)>> /\ resolution = Unresolved
    BY <1>3 DEF GraphInit
  <2>2. Frame(Asked) \in Frames /\ Frame(Asked).name = Asked /\ Frame(Asked).todo = WantedOf(Asked)
    BY <1>3 DEF Frame, Frames, WantedOf
  <2>3. stack \in Seq(Frames) /\ DOMAIN stack = {1} /\ stack[1] = Frame(Asked) /\ stack # << >>
    BY <2>1, <2>2
  <2>4. Calls
    BY <1>3, <1>2, <2>1, <2>2, <2>3, RestsOnSelf DEF Calls
  <2>5. DoneWith
    BY <2>2, <2>3 DEF DoneWith
  <2>6. ResolvedRight
    BY <2>1 DEF ResolvedRight, AnswerSolves, RefusalNamesCulprit, Unresolved
  <2>7. GraphTyped
    BY <1>1, <1>2, <2>3 DEF GraphTyped
  <2> QED BY <1>2, <2>3, <2>4, <2>5, <2>6, <2>7 DEF GraphInv
<1>4. CASE Asked \notin DOMAIN defs
  <2>1. stack = <<>> /\ resolution = RefusedFor("never defined", Asked)
    BY <1>4 DEF GraphInit
  <2>2. stack \in Seq(Frames)
    BY <2>1, EmptySeq
  <2>3. ResolvedRight
    BY <2>1, <1>4 DEF ResolvedRight, AnswerSolves, RefusalNamesCulprit, RefusedFor, Referenced
  <2> QED BY <1>1, <1>2, <2>1, <2>2, <2>3 DEF GraphInv, GraphTyped, Unresolved, RefusedFor
<1> QED BY <1>3, <1>4

\* What holds of the call on top.
LEMMA OnTop ==
    ASSUME GraphInv, Running
    PROVE  /\ stack \in Seq(Frames) /\ stack # << >> /\ Len(stack) \in Nat /\ Len(stack) > 0
           /\ DOMAIN stack = 1 .. Len(stack) /\ Len(stack) \in DOMAIN stack
           /\ Top \in Frames /\ Top = stack[Len(stack)]
           /\ Top.name \in RestsOn(Asked) /\ Top.name \notin DOMAIN values
           /\ Calls /\ DoneWith /\ GraphTyped
           /\ \A m \in WantedOf(Top.name) \ Top.todo : m \in DOMAIN values
<1>1. stack \in Seq(Frames) /\ stack # << >> /\ Calls /\ DoneWith /\ GraphTyped
  BY DEF GraphInv, Running, GraphTyped
<1>2. Len(stack) \in Nat /\ Len(stack) > 0 /\ DOMAIN stack = 1 .. Len(stack)
  BY <1>1, EmptySeq, LenProperties
<1>3. 1 \in DOMAIN stack /\ Len(stack) \in DOMAIN stack /\ 1 <= Len(stack) /\ Len(stack) + 1 \notin DOMAIN stack
  BY <1>2
<1>4. Top = stack[Len(stack)] /\ Top \in Frames
  BY <1>1, <1>3 DEF Top
<1>5. Top.name \in RestsOn(Asked) /\ Top.name \notin DOMAIN values
  BY <1>1, <1>3, <1>4 DEF Calls
<1>6. \A m \in WantedOf(Top.name) \ Top.todo : m \in DOMAIN values
  BY <1>1, <1>3, <1>4 DEF DoneWith
<1> QED BY <1>1, <1>2, <1>3, <1>4, <1>5, <1>6

LEMMA ReferKeeps ==
    ASSUME NamesApart, GraphInv, NEW n \in IslandNames, Refer(n)
    PROVE  GraphInv'
<1>1. Running /\ n \in Top.todo /\ defs' = defs /\ values' = values
  BY DEF Refer
<1>2. /\ stack \in Seq(Frames) /\ stack # << >> /\ Len(stack) \in Nat /\ Len(stack) > 0
      /\ DOMAIN stack = 1 .. Len(stack) /\ Len(stack) \in DOMAIN stack
      /\ Top \in Frames /\ Top = stack[Len(stack)]
      /\ Top.name \in RestsOn(Asked) /\ Top.name \notin DOMAIN values
      /\ Calls /\ DoneWith /\ GraphTyped
  BY <1>1, OnTop
<1>3. n \in DOMAIN defs /\ n \in WantedOf(Top.name) /\ Top.name \in DOMAIN defs
  BY <1>1, <1>2 DEF Frames, DoneWith
<1>4. n \in defs[Top.name].refs \cap DOMAIN defs /\ n # Top.name
  BY <1>2, <1>3, WantedIsReferred
<1>5. Frames' = Frames
  BY <1>1 DEF Frames
<1>6. \A m : WantedOf(m)' = WantedOf(m) /\ RestsOn(m)' = RestsOn(m)
  BY <1>1 DEF WantedOf, RestsOn, NamesIn
<1>7. \A m \in DOMAIN values : Settled(m)'
  BY <1>1 DEF GraphInv, Settled, PutIn, Worth, Left
<1>8. resolution = Unresolved
  BY <1>1 DEF Running
<1>9. PICK r : r = Append(Caller, Rest(n))
  OBVIOUS
<1>10. Rest(n) = [name |-> Top.name, todo |-> Top.todo \ {n}] /\ Rest(n) \in Frames
  <2>1. PICK t \in Frames : t = Top
    BY <1>2
  <2>2. Rest(n) = [t EXCEPT !.todo = t.todo \ {n}]
    BY <2>1 DEF Rest
  <2> QED BY <2>1, <2>2 DEF Frames
<1>11. /\ r \in Seq(Frames) /\ Len(r) = Len(stack) /\ DOMAIN r = DOMAIN stack
       /\ \A i \in DOMAIN stack : r[i] = IF i = Len(stack) THEN Rest(n) ELSE stack[i]
  BY <1>2, <1>9, <1>10, TopReplaced DEF Caller
<1>12. \A i \in DOMAIN stack : r[i].name = stack[i].name /\ r[i].todo \subseteq stack[i].todo
  BY <1>2, <1>10, <1>11
<1>13. r # << >>
  BY <1>2, <1>11
<1>14. CASE HasValue(n) /\ stack' = Append(Caller, Rest(n)) /\ UNCHANGED <<visiting, resolution>>
  <2>1. stack' = r
    BY <1>14, <1>9
  <2>2. GraphTyped'
    BY <2>1, <1>1, <1>2, <1>5, <1>11 DEF GraphTyped
  <2>3. Calls'
    <3>1. visiting' = {stack'[i].name : i \in DOMAIN stack'} /\ visiting' \cap DOMAIN values' = {}
      <4>1. visiting = {stack[i].name : i \in DOMAIN stack} /\ visiting \cap DOMAIN values = {}
        BY <1>2 DEF Calls
      <4>2. {r[i].name : i \in DOMAIN r} = {stack[i].name : i \in DOMAIN stack}
        BY <1>11, <1>12
      <4> QED BY <4>1, <4>2, <2>1, <1>1, <1>14
    <3>2. stack'[1].name = Asked
      BY <2>1, <1>2, <1>11, <1>12 DEF Calls
    <3>3. ASSUME NEW i \in DOMAIN stack, NEW j \in DOMAIN stack
          PROVE  /\ r[i].name = r[j].name => i = j
                 /\ i <= j => r[j].name \in RestsOn(r[i].name)
                 /\ j = i + 1 => r[j].name \in defs[r[i].name].refs
      BY <3>3, <1>2, <1>12 DEF Calls
    <3> QED BY <3>1, <3>2, <3>3, <2>1, <1>1, <1>6, <1>11 DEF Calls
  <2>4. DoneWith'
    <3>1. SUFFICES ASSUME NEW i \in DOMAIN stack
                   PROVE  /\ r[i].todo \subseteq WantedOf(r[i].name)
                          /\ \A m \in WantedOf(r[i].name) \ r[i].todo :
                                m \in DOMAIN values \/ (i + 1 \in DOMAIN r /\ r[i + 1].name = m)
      BY <2>1, <1>1, <1>6, <1>11 DEF DoneWith
    <3>2. r[i].name = stack[i].name /\ stack[i].todo \subseteq WantedOf(stack[i].name)
      BY <1>2, <1>12 DEF DoneWith
    <3>3. ASSUME NEW m \in WantedOf(stack[i].name) \ stack[i].todo
          PROVE  m \in DOMAIN values \/ (i + 1 \in DOMAIN r /\ r[i + 1].name = m)
      BY <1>2, <1>11, <1>12 DEF DoneWith
    <3>4. ASSUME NEW m \in WantedOf(stack[i].name) \ r[i].todo, m \in stack[i].todo
          PROVE  m \in DOMAIN values
      <4>1. i = Len(stack) /\ m = n
        BY <3>4, <1>2, <1>10, <1>11
      <4> QED BY <4>1, <1>14 DEF HasValue
    <3> QED BY <3>2, <3>3, <3>4, <1>12
  <2>5. ResolvedRight'
    BY <1>8, <1>14 DEF ResolvedRight, AnswerSolves, RefusalNamesCulprit, Unresolved
  <2> QED BY <2>1, <2>2, <2>3, <2>4, <2>5, <1>1, <1>7, <1>13 DEF GraphInv
<1>15. CASE /\ Circular(n)
            /\ resolution' = RefusedFor("defines itself", n)
            /\ UNCHANGED <<stack, visiting>>
  <2>1. PICK j \in DOMAIN stack : stack[j].name = n
    BY <1>2, <1>15 DEF Circular, Calls
  <2>2. j # Len(stack) /\ j \in Nat /\ j + 1 \in DOMAIN stack /\ j + 1 <= Len(stack) /\ 1 \in DOMAIN stack /\ 1 <= j
    BY <2>1, <1>2, <1>4
  <2>3. stack[j + 1].name \in defs[n].refs /\ Top.name \in RestsOn(stack[j + 1].name)
    BY <2>1, <2>2, <1>2 DEF Calls
  <2>4. n \in RestsOn(stack[j + 1].name)
    BY <2>3, <1>4, RestsOnStep
  <2>5. stack[j + 1].name \in DOMAIN defs
    <3>1. stack[j + 1] \in Frames
      BY <2>2, <1>2
    <3> QED BY <3>1 DEF Frames
  <2>6. OnItself(n)
    BY <2>3, <2>4, <2>5 DEF OnItself
  <2>7. n \in RestsOn(Asked)
    BY <1>2, <1>4, RestsOnStep
  <2>8. resolution'.kind = "defines itself" /\ resolution'.of = n
    BY <1>15 DEF RefusedFor
  <2>9. RefusalNamesCulprit'
    BY <2>6, <2>7, <2>8, <1>1 DEF RefusalNamesCulprit, OnItself, RestsOn
  <2>10. ResolvedRight' /\ resolution' # Unresolved
    <3>1. resolution'.kind # "answer" /\ resolution'.kind # "open"
      BY <2>8
    <3> QED BY <3>1, <2>9 DEF ResolvedRight, AnswerSolves, Unresolved
  <2>11. GraphTyped'
    BY <1>15, <1>1, <1>2, <1>5 DEF GraphTyped
  <2> QED BY <2>10, <2>11, <1>1, <1>7, Zenon DEF GraphInv, Unresolved
<1>16. CASE /\ ~HasValue(n) /\ ~Circular(n)
            /\ stack' = Append(Append(Caller, Rest(n)), Frame(n))
            /\ visiting' = visiting \cup {n}
            /\ UNCHANGED resolution
  <2>1. stack' = Append(r, Frame(n))
    BY <1>16, <1>9
  <2>2. Frame(n) \in Frames /\ Frame(n).name = n /\ Frame(n).todo = WantedOf(n)
    BY <1>3 DEF Frame, Frames, WantedOf
  <2>3. PICK k \in Nat : k = Len(stack)
    BY <1>2
  <2>4. stack' \in Seq(Frames) /\ Len(stack') = k + 1 /\ stack'[k + 1] = Frame(n)
        /\ \A i \in 1 .. k : stack'[i] = r[i]
    BY <2>1, <2>2, <2>3, <1>11, AppendProperties
  <2>5. DOMAIN stack' = 1 .. (k + 1) /\ DOMAIN stack = 1 .. k /\ DOMAIN r = 1 .. k /\ k > 0
    BY <2>3, <2>4, <1>2, <1>11, LenProperties
  <2>6. \A i \in 1 .. k : stack'[i].name = stack[i].name
    BY <2>4, <2>5, <1>12
  <2>7. stack'[k + 1].name = n
    BY <2>2, <2>4
  <2>8. n \notin DOMAIN values /\ n \notin visiting
    BY <1>16 DEF HasValue, Circular
  <2>9. GraphTyped'
    BY <2>4, <1>1, <1>2, <1>5 DEF GraphTyped
  <2>10. Calls'
    <3>1. visiting' = {stack'[i].name : i \in DOMAIN stack'}
      <4>1. visiting = {stack[i].name : i \in 1 .. k}
        BY <1>2, <2>5 DEF Calls
      <4>2. {stack'[i].name : i \in 1 .. (k + 1)} = {stack[i].name : i \in 1 .. k} \cup {n}
        BY <2>6, <2>7
      <4> QED BY <4>1, <4>2, <2>5, <1>16
    <3>2. visiting' \cap DOMAIN values' = {}
      BY <2>8, <1>1, <1>2, <1>16 DEF Calls
    <3>3. stack'[1].name = Asked
      BY <2>5, <2>6, <1>2 DEF Calls
    <3>4. ASSUME NEW i \in 1 .. k, NEW j \in 1 .. k
          PROVE  /\ stack'[i].name = stack'[j].name => i = j
                 /\ i <= j => stack'[j].name \in RestsOn(stack'[i].name)
                 /\ j = i + 1 => stack'[j].name \in defs[stack'[i].name].refs
      BY <1>2, <2>5, <2>6 DEF Calls
    <3>5. ASSUME NEW i \in 1 .. k
          PROVE  /\ stack'[i].name # n
                 /\ n \in RestsOn(stack'[i].name)
                 /\ k + 1 = i + 1 => n \in defs[stack'[i].name].refs
      <4>1. stack[i].name \in visiting
        BY <2>5, <1>2 DEF Calls
      <4>2. Top.name \in RestsOn(stack[i].name)
        BY <2>3, <2>5, <1>2 DEF Calls
      <4>3. n \in RestsOn(stack[i].name)
        BY <4>2, <1>4, RestsOnStep
      <4> QED BY <4>1, <4>3, <2>3, <2>6, <2>8, <1>2, <1>4
    <3>6. n \in RestsOn(n)
      BY <1>3, RestsOnSelf
    <3>7. ASSUME NEW i \in DOMAIN stack', NEW j \in DOMAIN stack'
          PROVE  /\ stack'[i].name = stack'[j].name => i = j
                 /\ i <= j => stack'[j].name \in RestsOn(stack'[i].name)
                 /\ j = i + 1 => stack'[j].name \in defs[stack'[i].name].refs
      <4>1. i \in 1 .. k \/ i = k + 1
        BY <2>5
      <4>2. j \in 1 .. k \/ j = k + 1
        BY <2>5
      <4>3. CASE i \in 1 .. k /\ j \in 1 .. k
        BY <4>3, <3>4
      <4>4. CASE i \in 1 .. k /\ j = k + 1
        BY <4>4, <3>5, <2>7
      <4>5. CASE i = k + 1 /\ j \in 1 .. k
        BY <4>5, <3>5, <2>7
      <4>6. CASE i = k + 1 /\ j = k + 1
        BY <4>6, <3>6, <2>7
      <4> QED BY <4>1, <4>2, <4>3, <4>4, <4>5, <4>6
    <3> QED BY <3>1, <3>2, <3>3, <3>7, <1>1, <1>6 DEF Calls
  <2>11. DoneWith'
    <3>1. SUFFICES ASSUME NEW i \in 1 .. (k + 1)
                   PROVE  /\ stack'[i].todo \subseteq WantedOf(stack'[i].name)
                          /\ \A m \in WantedOf(stack'[i].name) \ stack'[i].todo :
                                m \in DOMAIN values \/ (i + 1 \in DOMAIN stack' /\ stack'[i + 1].name = m)
      BY <2>5, <1>1, <1>6 DEF DoneWith
    <3>2. CASE i = k + 1
      BY <3>2, <2>2, <2>4
    <3>3. CASE i \in 1 .. k
      <4>1. stack'[i].name = stack[i].name /\ stack'[i].todo \subseteq stack[i].todo
            /\ stack[i].todo \subseteq WantedOf(stack[i].name) /\ i + 1 \in DOMAIN stack'
        BY <3>3, <2>4, <2>5, <1>2, <1>12 DEF DoneWith
      <4>2. ASSUME NEW m \in WantedOf(stack[i].name) \ stack[i].todo
            PROVE  m \in DOMAIN values \/ stack'[i + 1].name = m
        BY <3>3, <2>5, <2>6, <1>2 DEF DoneWith
      <4>3. ASSUME NEW m \in stack[i].todo \ stack'[i].todo
            PROVE  stack'[i + 1].name = m
        <5>1. i = k /\ m = n
          <6>1. stack'[i] = IF i = k THEN Rest(n) ELSE stack[i]
            BY <3>3, <2>3, <2>4, <2>5, <1>11
          <6>2. i = k
            BY <4>3, <6>1
          <6>3. stack[i].todo \ stack'[i].todo = Top.todo \ (Top.todo \ {n})
            BY <6>1, <6>2, <2>3, <1>2, <1>10
          <6> QED BY <6>2, <6>3, <4>3
        <5> QED BY <5>1, <2>7
      <4> QED BY <4>1, <4>2, <4>3
    <3> QED BY <3>2, <3>3
  <2>12. ResolvedRight'
    BY <1>8, <1>16 DEF ResolvedRight, AnswerSolves, RefusalNamesCulprit, Unresolved
  <2>13. stack' # << >>
    BY <2>5
  <2> QED BY <2>9, <2>10, <2>11, <2>12, <2>13, <1>1, <1>7 DEF GraphInv
<1> QED BY <1>14, <1>15, <1>16 DEF Refer

\* The call on top comes to its value.
LEMMA ResolvedKeeps ==
    ASSUME NamesApart, GraphInv, Running, Top.todo = {}, defs' = defs, Resolved(Top.name),
           ~defs[Top.name].machine => Left(Top.name) = {}
    PROVE  GraphInv'
<1>1. PICK n : n = Top.name
  OBVIOUS
<1>2. /\ stack \in Seq(Frames) /\ stack # << >> /\ Len(stack) \in Nat /\ Len(stack) > 0
      /\ DOMAIN stack = 1 .. Len(stack) /\ Len(stack) \in DOMAIN stack
      /\ stack[Len(stack)] \in Frames /\ stack[Len(stack)].name = n
      /\ n \in RestsOn(Asked) /\ n \notin DOMAIN values
      /\ Calls /\ DoneWith /\ GraphTyped
      /\ \A m \in WantedOf(n) : m \in DOMAIN values
  BY <1>1, OnTop
<1>3. n \in DOMAIN defs
  BY <1>2 DEF Frames
<1>4. /\ values' = [m \in DOMAIN values \cup {n} |-> IF m = n THEN Worth(n, values) ELSE values[m]]
      /\ visiting' = visiting \ {n}
      /\ stack' = SubSeq(stack, 1, Len(stack) - 1)
      /\ resolution' = IF stack' = <<>> THEN [kind |-> "answer", of |-> n] ELSE Unresolved
  BY <1>1 DEF Resolved, Caller
<1>5. /\ DOMAIN values' = DOMAIN values \cup {n} /\ values'[n] = Worth(n, values)
      /\ \A m \in DOMAIN values : values'[m] = values[m]
  BY <1>2, <1>4
<1>6. \A m : WantedOf(m)' = WantedOf(m) /\ RestsOn(m)' = RestsOn(m) /\ PutIn(m)' = PutIn(m) /\ Left(m)' = Left(m)
  BY DEF WantedOf, RestsOn, NamesIn, PutIn, Left
<1>7. ASSUME NEW m, PutIn(m) \subseteq DOMAIN values
      PROVE  Worth(m, values)' = Worth(m, values)
  <2>1. [k \in PutIn(m) |-> values'[k]] = [k \in PutIn(m) |-> values[k]]
    BY <1>5, <1>7
  <2> QED BY <2>1, <1>6 DEF Worth
<1>8. \A m \in DOMAIN values' : Settled(m)'
  <2>1. PutIn(n) \subseteq DOMAIN values
    BY <1>2 DEF PutIn, WantedOf, NamesIn
  <2>2. Settled(n)'
    BY <2>1, <1>1, <1>5, <1>6, <1>7 DEF Settled
  <2>3. ASSUME NEW m \in DOMAIN values PROVE Settled(m)'
    BY <1>5, <1>6, <1>7 DEF Settled, GraphInv
  <2> QED BY <2>2, <2>3, <1>5
<1>9. /\ stack' \in Seq(Frames) /\ DOMAIN stack' = DOMAIN stack \ {Len(stack)}
      /\ \A i \in DOMAIN stack' : stack'[i] = stack[i]
  BY <1>2, <1>4, TopOff
<1>10. GraphTyped'
  <2>1. Frames' = Frames
    BY DEF Frames
  <2> QED BY <2>1, <1>2, <1>3, <1>5, <1>9 DEF GraphTyped
<1>11. CASE stack' = << >>
  <2>1. Len(stack) = 1 /\ n = Asked
    <3>1. DOMAIN stack' = {}
      BY <1>11
    <3>2. Len(stack) = 1
      BY <3>1, <1>2, <1>9
    <3> QED BY <3>2, <1>2 DEF Calls
  <2>2. RestsOn(Asked) \subseteq DOMAIN values'
    <3>1. Asked \in DOMAIN values' /\ DOMAIN values' \in SUBSET DOMAIN defs
      BY <2>1, <1>5, <1>10 DEF GraphTyped
    <3>2. ASSUME NEW m \in DOMAIN values' PROVE defs[m].refs \cap DOMAIN defs \subseteq DOMAIN values'
      BY <1>8 DEF Settled, PutIn
    <3> QED BY <3>1, <3>2, RestsOnWithin
  <2>3. ASSUME NEW m \in DOMAIN values', ~defs[m].machine PROVE defs[m].refs \subseteq DOMAIN values' \ {m}
    BY <2>3, <1>8 DEF Settled, PutIn, Left
  <2>4. AnswerSolves'
    BY <2>2, <2>3, <1>6, <1>8 DEF AnswerSolves, Settled
  <2>5. resolution'.kind = "answer"
    BY <1>4, <1>11
  <2>6. RefusalNamesCulprit'
    BY <2>5, Zenon DEF RefusalNamesCulprit
  <2>7. resolution' # Unresolved
    <3>1. Unresolved.kind = "open"
      BY DEF Unresolved
    <3> QED BY <2>5, <3>1
  <2> QED BY <2>4, <2>6, <2>7, <1>8, <1>10 DEF GraphInv, ResolvedRight
<1>12. CASE stack' # << >>
  <2>1. resolution' = Unresolved
    BY <1>4, <1>12
  <2>2. Calls'
    <3>1. visiting' = {stack'[i].name : i \in DOMAIN stack'} /\ visiting' \cap DOMAIN values' = {}
      <4>1. /\ visiting = {stack[i].name : i \in DOMAIN stack} /\ visiting \cap DOMAIN values = {}
            /\ \A i \in DOMAIN stack : stack[i].name = n => i = Len(stack)
        BY <1>2 DEF Calls
      <4>2. {stack'[i].name : i \in DOMAIN stack'} = {stack[i].name : i \in DOMAIN stack} \ {n}
        BY <4>1, <1>2, <1>9
      <4> QED BY <4>1, <4>2, <1>4, <1>5
    <3>2. stack'[1].name = Asked
      <4>1. 1 \in DOMAIN stack'
        <5>1. PICK r : r = stack'
          OBVIOUS
        <5>2. r \in Seq(Frames) /\ r # << >>
          BY <5>1, <1>9, <1>12
        <5>3. Len(r) \in Nat \ {0} /\ DOMAIN r = 1 .. Len(r)
          BY <5>2, EmptySeq, LenProperties
        <5> QED BY <5>1, <5>3
      <4> QED BY <4>1, <1>9, <1>2 DEF Calls
    <3>3. ASSUME NEW i \in DOMAIN stack', NEW j \in DOMAIN stack'
          PROVE  /\ stack'[i].name = stack'[j].name => i = j
                 /\ i <= j => stack'[j].name \in RestsOn(stack'[i].name)
                 /\ j = i + 1 => stack'[j].name \in defs[stack'[i].name].refs
      BY <1>2, <1>9 DEF Calls
    <3> QED BY <3>1, <3>2, <3>3, <1>6 DEF Calls
  <2>3. DoneWith'
    <3>1. SUFFICES ASSUME NEW i \in DOMAIN stack'
                   PROVE  /\ stack'[i].todo \subseteq WantedOf(stack'[i].name)
                          /\ \A m \in WantedOf(stack'[i].name) \ stack'[i].todo :
                                m \in DOMAIN values' \/ (i + 1 \in DOMAIN stack' /\ stack'[i + 1].name = m)
      BY <1>6 DEF DoneWith
    <3>2. i \in DOMAIN stack /\ stack'[i] = stack[i]
      BY <1>9
    <3>3. /\ stack[i].todo \subseteq WantedOf(stack[i].name)
          /\ \A m \in WantedOf(stack[i].name) \ stack[i].todo :
                m \in DOMAIN values \/ (i + 1 \in DOMAIN stack /\ stack[i + 1].name = m)
      BY <3>2, <1>2 DEF DoneWith
    <3>4. i + 1 \in DOMAIN stack => (i + 1 \in DOMAIN stack' /\ stack'[i + 1] = stack[i + 1]) \/ i + 1 = Len(stack)
      BY <1>9
    <3> QED BY <3>2, <3>3, <3>4, <1>2, <1>5
  <2>4. ResolvedRight'
    BY <2>1 DEF ResolvedRight, AnswerSolves, RefusalNamesCulprit, Unresolved
  <2> QED BY <2>2, <2>3, <2>4, <1>8, <1>10, <1>12 DEF GraphInv
<1> QED BY <1>11, <1>12

\* A refusal that is no claim of a cycle or of a name that is not there.
LEMMA RefusedKeeps ==
    ASSUME GraphInv, Running, defs' = defs, NEW kind, NEW n, Refuses(kind, n),
           kind # "open", kind # "answer", kind # "defines itself",
           kind = "never defined" =>
               n \in Referenced /\ (n \notin DOMAIN defs \/ n \in defs[n].refs)
    PROVE  GraphInv'
<1>1. resolution' = RefusedFor(kind, n) /\ stack' = stack /\ visiting' = visiting /\ values' = values
  BY DEF Refuses
<1>2. resolution'.kind = kind /\ resolution'.of = n
  BY <1>1 DEF RefusedFor
<1>3. Referenced' = Referenced
  BY DEF Referenced, RestsOn
<1>4. ResolvedRight'
  BY <1>2, <1>3 DEF ResolvedRight, AnswerSolves, RefusalNamesCulprit
<1>5. resolution' # Unresolved
  <2>1. Unresolved.kind = "open"
    BY DEF Unresolved
  <2> QED BY <1>2, <2>1, Zenon
<1>6. GraphTyped'
  BY <1>1 DEF GraphInv, GraphTyped, Frames
<1>7. \A m \in DOMAIN values' : Settled(m)'
  BY <1>1 DEF GraphInv, Settled, PutIn, Worth, Left
<1> QED BY <1>4, <1>5, <1>6, <1>7 DEF GraphInv

LEMMA EvaluateKeeps == ASSUME NamesApart, GraphInv, Evaluate PROVE GraphInv'
<1>1. Running /\ Top.todo = {} /\ defs' = defs /\ ~defs[Top.name].machine
  BY DEF Evaluate
<1>2. Top.name \in RestsOn(Asked) /\ Top.name \in DOMAIN defs /\ GraphTyped
  BY <1>1, OnTop DEF Frames
<1>3. CASE \E m \in Left(Top.name) \cup (IF Wordy(Top.name) THEN AnswerWords ELSE {}) : Refuses("never defined", m)
  <2>1. PICK m \in Left(Top.name) \cup AnswerWords : Refuses("never defined", m)
    BY <1>3
  <2>2. m \in Referenced
    BY <2>1, <1>2 DEF Left, Referenced
  <2>3. m \notin DOMAIN defs \/ m \in defs[m].refs
    BY <2>1, <1>2 DEF Left, NamesApart, GraphTyped
  <2> QED BY <2>1, <2>2, <2>3, <1>1, RefusedKeeps
<1>4. CASE Left(Top.name) = {} /\ Resolved(Top.name)
  BY <1>4, <1>1, ResolvedKeeps
<1>5. CASE Refuses("not arithmetic", Top.name)
  BY <1>5, <1>1, RefusedKeeps
<1>6. CASE Refuses("raises", Top.name)
  BY <1>6, <1>1, RefusedKeeps
<1> QED BY <1>3, <1>4, <1>5, <1>6 DEF Evaluate

LEMMA RunMachineKeeps == ASSUME NamesApart, GraphInv, RunMachine PROVE GraphInv'
<1>1. Running /\ Top.todo = {} /\ defs' = defs /\ defs[Top.name].machine
  BY DEF RunMachine
<1>2. CASE Resolved(Top.name)
  BY <1>2, <1>1, ResolvedKeeps
<1>3. CASE Refuses("machine", Top.name)
  BY <1>3, <1>1, RefusedKeeps
<1> QED BY <1>2, <1>3 DEF RunMachine

\* What solve_graph answers solves the system it was given, and what it refuses is so, for any
\* definitions and machines: where no slot and no word of an answer is called like a definition.
THEOREM ResolvedTheorem == NamesApart => (GraphSpec => []ResolvedRight)
<1> SUFFICES ASSUME NamesApart PROVE GraphSpec => []ResolvedRight
  OBVIOUS
<1>1. GraphInit => GraphInv
  BY GraphBegins
<1>2. GraphInv /\ [GraphNext]_graphVars => GraphInv'
  <2> SUFFICES ASSUME GraphInv, [GraphNext]_graphVars PROVE GraphInv'
    OBVIOUS
  <2>1. ASSUME NEW n \in IslandNames, Refer(n) PROVE GraphInv'
    BY <2>1, ReferKeeps
  <2>2. CASE Evaluate
    BY <2>2, EvaluateKeeps
  <2>3. CASE RunMachine
    BY <2>3, RunMachineKeeps
  <2>4. CASE UNCHANGED graphVars
    <3>1. defs' = defs /\ stack' = stack /\ visiting' = visiting /\ values' = values /\ resolution' = resolution
      BY <2>4 DEF graphVars
    <3>2. GraphTyped'
      BY <3>1 DEF GraphInv, GraphTyped, Frames
    <3>3. \A n \in DOMAIN values' : Settled(n)'
      BY <3>1 DEF GraphInv, Settled, PutIn, Worth, Left
    <3>4. \A n : RestsOn(n)' = RestsOn(n) /\ WantedOf(n)' = WantedOf(n) /\ PutIn(n)' = PutIn(n)
                 /\ Worth(n, values)' = Worth(n, values)
      BY <3>1 DEF RestsOn, WantedOf, NamesIn, PutIn, Worth
    <3>5. (Calls => Calls') /\ (DoneWith => DoneWith')
      BY <3>1, <3>4 DEF Calls, DoneWith
    <3>6. AnswerSolves => AnswerSolves'
      BY <3>1, <3>4 DEF AnswerSolves
    <3>7. Referenced' = Referenced /\ \A n : OnItself(n)' = OnItself(n)
      BY <3>1, <3>4 DEF Referenced, OnItself
    <3>8. RefusalNamesCulprit => RefusalNamesCulprit'
      BY <3>1, <3>4, <3>7, Zenon DEF RefusalNamesCulprit
    <3> QED BY <3>1, <3>2, <3>3, <3>5, <3>6, <3>8 DEF GraphInv, ResolvedRight
  <2> QED BY <2>1, <2>2, <2>3, <2>4 DEF GraphNext
<1>3. GraphInv => ResolvedRight
  BY DEF GraphInv
<1> QED BY <1>1, <1>2, <1>3, PTL DEF GraphSpec

-----------------------------------------------------------------------------
(* Units: the greatest common divisor, and fractions in lowest terms. *)

\* Quotient and remainder, and the ring of the integers, for the provers.
LEMMA Division ==
    ASSUME NEW m \in Nat, NEW d \in Nat \ {0}
    PROVE  /\ m \div d \in Nat /\ m % d \in 0 .. d - 1
           /\ m = d * (m \div d) + (m % d)
  <1>1. m \div d \in Int /\ m % d \in 0 .. d - 1 /\ m = d * (m \div d) + (m % d)
    BY SMT
  <1>2. PICK q \in Int, k \in 0 .. d - 1 : q = m \div d /\ k = m % d /\ m = d * q + k
    BY <1>1
  <1>3. q >= 0
    <2>1. SUFFICES ASSUME q <= -1 PROVE FALSE
      BY <1>2
    <2>2. PICK g \in Nat : g = -q - 1
      BY <2>1
    <2>3. d * q = -(d * g) - d /\ d * g \in Nat
      BY <2>2
    <2> QED
      BY <1>2, <2>3
  <1> QED
    BY <1>1, <1>2, <1>3

LEMMA Products ==
    ASSUME NEW a \in Int, NEW b \in Int, NEW c \in Int
    PROVE  /\ a * b \in Int /\ a * b = b * a /\ a * (b * c) = (a * b) * c
           /\ a * (b + c) = a * b + a * c /\ a * (b - c) = a * b - a * c
OBVIOUS

LEMMA Cancel == ASSUME NEW a \in Int, NEW b \in Int, NEW c \in Int, c # 0, a * c = b * c PROVE a = b
OBVIOUS

\* The greatest common divisor, by what it divides and is a sum of.
IsGcd(g, m, n) ==
    /\ g \in Nat
    /\ \E q \in Nat : m = g * q
    /\ \E q \in Nat : n = g * q
    /\ \E u, v \in Int : g = u * m + v * n

\* What divides n and the remainder of m by n divides m.
LEMMA DividesBoth ==
  ASSUME NEW m \in Nat, NEW n \in Nat \ {0}, NEW g, IsGcd(g, n, m % n)
  PROVE IsGcd(g, m, n)
<1>0. g \in Nat
  BY DEF IsGcd
<1>1. PICK a \in Nat, b \in Nat : n = g * a /\ m % n = g * b
  BY DEF IsGcd
<1>2. PICK u \in Int, v \in Int : g = u * n + v * (m % n)
  BY DEF IsGcd
<1>3. m \div n \in Nat /\ m % n \in 0 .. n - 1 /\ m = n * (m \div n) + (m % n)
  BY Division
<1>4. PICK q \in Nat, k \in Nat : q = m \div n /\ k = m % n /\ m = n * q + k
  BY <1>3
<1>5. m = g * (a * q + b) /\ a * q + b \in Nat
  <2>1. n * q = g * (a * q)
    BY <1>0, <1>1, Products
  <2>2. g * (a * q + b) = g * (a * q) + g * b /\ a * q \in Nat
    BY <1>0, Products
  <2> QED BY <1>1, <1>4, <2>1, <2>2
<1>6. g = v * m + (u - v * q) * n
  <2>1. PICK w \in Int : w = n * q /\ k = m - w
    BY <1>4, Products
  <2>2. v * k = v * m - v * (n * q)
    <3>1. v * (m - w) = v * m - v * w
      BY Products
    <3> QED BY <2>1, <3>1
  <2>3. v * (n * q) = (v * q) * n /\ v * q \in Int
    BY Products
  <2>4. (u - v * q) * n = u * n - (v * q) * n
    BY <2>3
  <2> QED BY <1>2, <1>4, <2>2, <2>3, <2>4
<1>7. u - v * q \in Int
  BY Products
<1> QED BY <1>0, <1>1, <1>5, <1>6, <1>7 DEF IsGcd

LEMMA GcdOfZero == ASSUME NEW m \in Nat PROVE IsGcd(m, m, 0)
<1>1. m = 1 * m + 0 * 0 /\ m = m * 1 /\ 0 = m * 0
  OBVIOUS
<1> QED BY <1>1 DEF IsGcd

\* Every two natural numbers have one: by the least second number that had none.
LEMMA GcdExists == ASSUME NEW m \in Nat, NEW n \in Nat PROVE \E g : IsGcd(g, m, n)
<1> DEFINE Bad == {k \in Nat : \E a \in Nat : ~ \E g : IsGcd(g, a, k)}
<1>1. SUFFICES Bad = {}
  OBVIOUS
<1>2. SUFFICES ASSUME Bad # {} PROVE FALSE
  OBVIOUS
<1>3. \E k \in Bad : \A l \in Bad : k <= l
  <2> HIDE DEF Bad
  <2>1. Bad \in SUBSET Nat
    BY DEF Bad
  <2> QED BY <1>2, <2>1, SmallestNat
<1>4. PICK k \in Bad : \A l \in Bad : k <= l
  BY <1>3
<1>5. PICK a \in Nat : ~ \E g : IsGcd(g, a, k)
  OBVIOUS
<1>6. CASE k = 0
  BY <1>5, <1>6, GcdOfZero
<1>7. CASE k # 0
  <2>1. k \in Nat \ {0} /\ a % k \in Nat /\ a % k < k
    BY <1>7, Division
  <2>2. a % k \notin Bad
    BY <1>4, <2>1
  <2>3. PICK g : IsGcd(g, k, a % k)
    BY <2>1, <2>2
  <2>4. IsGcd(g, a, k)
    BY <2>1, <2>3, DividesBoth
  <2> QED BY <1>5, <2>4
<1> QED BY <1>6, <1>7

\* Two natural numbers that divide each other are one.
LEMMA MutualDivisors ==
    ASSUME NEW a \in Nat, NEW b \in Nat, NEW p \in Int, NEW q \in Int, a = b * p, b = a * q
    PROVE  a = b
<1>1. CASE a = 0
  BY <1>1
<1>2. CASE a # 0
  <2>1. (p * q) * a = 1 * a
    BY Products
  <2>2. p * q \in Int
    BY Products
  <2>3. p * q = 1
    BY <1>2, <2>1, <2>2, Cancel
  <2>4. p > 0
    <3>1. CASE p = 0
      BY <2>3, <3>1
    <3>2. CASE p < 0
      <4>1. b = 0 \/ b > 0
        OBVIOUS
      <4>2. PICK s \in Nat : s = -p
        BY <3>2
      <4>3. b * p = -(b * s) /\ b * s \in Nat
        BY <4>2
      <4> QED BY <1>2, <4>3
    <3> QED BY <3>1, <3>2
  <2>5. p = 1
    BY <2>3, <2>4
  <2> QED BY <2>5
<1> QED BY <1>1, <1>2

\* What divides two numbers divides their greatest common divisor.
LEMMA GcdDivides ==
    ASSUME NEW m \in Nat, NEW n \in Nat, NEW g, NEW h, IsGcd(g, m, n), IsGcd(h, m, n)
    PROVE  \E p \in Int : g = h * p
<1>1. h \in Nat /\ g \in Nat
  BY DEF IsGcd
<1>2. PICK a \in Nat, b \in Nat : m = h * a /\ n = h * b
  BY DEF IsGcd
<1>3. PICK u \in Int, v \in Int : g = u * m + v * n
  BY DEF IsGcd
<1>4. u * m = h * (u * a) /\ v * n = h * (v * b)
  BY <1>1, <1>2, Products
<1>5. PICK x \in Int, y \in Int : x = u * a /\ y = v * b
  BY Products
<1>6. g = h * (x + y)
  BY <1>1, <1>3, <1>4, <1>5, Products
<1> QED BY <1>6

\* There is one only.
LEMMA GcdUnique ==
    ASSUME NEW m \in Nat, NEW n \in Nat, NEW g, NEW h, IsGcd(g, m, n), IsGcd(h, m, n)
    PROVE  g = h
<1>1. h \in Nat /\ g \in Nat
  BY DEF IsGcd
<1>2. PICK p \in Int, q \in Int : g = h * p /\ h = g * q
  BY GcdDivides
<1> QED BY <1>1, <1>2, MutualDivisors

\* The recursion of gcd has a value, and it is the greatest common divisor.
GcdStep(f) == [p \in Nat \X Nat |-> IF p[2] = 0 THEN p[1] ELSE f[<<p[2], p[1] % p[2]>>]]

LEMMA GcdRecurs == GcdOf = GcdStep(GcdOf)
<1>1. PICK f : f = [p \in Nat \X Nat |-> CHOOSE g : IsGcd(g, p[1], p[2])]
  OBVIOUS
<1>2. \A m, n \in Nat : IsGcd(f[<<m, n>>], m, n)
  BY <1>1, GcdExists
<1>3. ASSUME NEW p \in Nat \X Nat PROVE f[p] = GcdStep(f)[p]
  <2>1. PICK m \in Nat, n \in Nat : p = <<m, n>>
    OBVIOUS
  <2>2. CASE n = 0
    <3>1. f[p] = m
      BY <1>2, <2>1, <2>2, GcdOfZero, GcdUnique
    <3> QED BY <2>1, <2>2, <3>1 DEF GcdStep
  <2>3. CASE n # 0
    <3>1. n \in Nat \ {0} /\ m % n \in Nat
      BY <2>3, Division
    <3>2. IsGcd(f[<<n, m % n>>], m, n)
      BY <1>2, <3>1, DividesBoth
    <3>3. f[p] = f[<<n, m % n>>]
      BY <1>2, <2>1, <3>2, GcdUnique
    <3> QED BY <2>1, <2>3, <3>3 DEF GcdStep
  <2> QED BY <2>2, <2>3
<1>4. f = GcdStep(f)
  BY <1>1, <1>3 DEF GcdStep
<1>5. GcdOf = CHOOSE h : h = GcdStep(h)
  BY DEF GcdOf, GcdStep
<1> QED BY <1>4, <1>5

\* The GCD of the module is it: the least second number for which it were not is reduced by one step.
LEMMA GcdIs == ASSUME NEW m \in Nat, NEW n \in Nat PROVE IsGcd(GcdOf[<<m, n>>], m, n)
<1> DEFINE Bad == {k \in Nat : \E a \in Nat : ~IsGcd(GcdOf[<<a, k>>], a, k)}
<1>1. SUFFICES Bad = {}
  OBVIOUS
<1>2. SUFFICES ASSUME Bad # {} PROVE FALSE
  OBVIOUS
<1>3. \E k \in Bad : \A l \in Bad : k <= l
  <2> HIDE DEF Bad
  <2>1. Bad \in SUBSET Nat
    BY DEF Bad
  <2> QED BY <1>2, <2>1, SmallestNat
<1>4. PICK k \in Bad : \A l \in Bad : k <= l
  BY <1>3
<1>5. PICK a \in Nat : ~IsGcd(GcdOf[<<a, k>>], a, k)
  OBVIOUS
<1>6. \A x, y \in Nat : GcdOf[<<x, y>>] = IF y = 0 THEN x ELSE GcdOf[<<y, x % y>>]
  BY GcdRecurs DEF GcdStep
<1>7. CASE k = 0
  BY <1>5, <1>6, <1>7, GcdOfZero
<1>8. CASE k # 0
  <2>1. k \in Nat \ {0} /\ a % k \in Nat /\ a % k < k
    BY <1>8, Division
  <2>2. IsGcd(GcdOf[<<k, a % k>>], k, a % k)
    BY <1>4, <2>1
  <2>3. IsGcd(GcdOf[<<k, a % k>>], a, k)
    BY <2>1, <2>2, DividesBoth
  <2> QED BY <1>5, <1>6, <1>8, <2>1, <2>3
<1> QED BY <1>7, <1>8

\* Reducing a fraction to lowest terms keeps its value.
LEMMA ExactQuotient == ASSUME NEW d \in Nat \ {0}, NEW q \in Int PROVE (d * q) \div d = q
BY SMT

\* A fraction as Python keeps it: in lowest terms, the denominator positive.
Coprime(a, b) == \E u, v \in Int : u * a + v * b = 1
IsFraction(x) == x \in Int \X (Nat \ {0}) /\ Coprime(Num(x), Den(x))
Represents(x, n, d) == IsFraction(x) /\ n \in Int /\ d \in Int \ {0} /\ Num(x) * d = n * Den(x)

LEMMA FractionParts == ASSUME NEW x, IsFraction(x)
                       PROVE  x = <<Num(x), Den(x)>> /\ Num(x) \in Int /\ Den(x) \in Nat \ {0} /\ Den(x) \in Int \ {0}
BY DEF IsFraction, Num, Den

LEMMA AbsIs == ASSUME NEW a \in Int
               PROVE  Abs(a) \in Nat /\ (a = 0 <=> Abs(a) = 0) /\ \E s \in {1, -1} : a = s * Abs(a) /\ Abs(a) = s * a
BY DEF Abs

\* A fraction made of any two integers, the second not zero, is in lowest terms and has their value.
LEMMA FracIs == ASSUME NEW n \in Int, NEW d \in Int \ {0} PROVE Represents(Frac(n, d), n, d)
<1>1. PICK s \in {1, -1} : n = s * Abs(n) /\ Abs(n) = s * n
  BY AbsIs
<1>2. PICK t \in {1, -1} : t = (IF d < 0 THEN -1 ELSE 1) /\ d = t * Abs(d) /\ Abs(d) = t * d
  BY DEF Abs
<1>3. Abs(n) \in Nat /\ Abs(d) \in Nat \ {0}
  BY AbsIs
<1>4. PICK g : g = Gcd(n, d) /\ IsGcd(g, Abs(n), Abs(d))
  BY <1>3, GcdIs DEF Gcd
<1>5. PICK a \in Nat, b \in Nat : Abs(n) = g * a /\ Abs(d) = g * b
  BY <1>4 DEF IsGcd
<1>6. g \in Nat \ {0} /\ b \in Nat \ {0}
  <2>1. g \in Nat
    BY <1>4 DEF IsGcd
  <2>2. g * b # 0
    BY <1>3, <1>5
  <2> QED BY <2>1, <2>2
<1>7. PICK c \in Int : c = s * a
  BY Products
<1>8. n = g * c
  BY <1>1, <1>5, <1>6, <1>7, Products
<1>9. n \div g = c /\ Abs(d) \div g = b
  BY <1>5, <1>6, <1>8, ExactQuotient
<1>10. PICK x : x = Frac(n, d) /\ x = <<t * c, b>>
  BY <1>2, <1>4, <1>9 DEF Frac
<1>11. x \in Int \X (Nat \ {0}) /\ Num(x) = t * c /\ Den(x) = b
  BY <1>6, <1>10 DEF Num, Den
<1>12. Coprime(t * c, b)
  <2>1. PICK u \in Int, v \in Int : g = u * Abs(n) + v * Abs(d)
    BY <1>4 DEF IsGcd
  <2>2. u * (g * a) = g * (u * a) /\ v * (g * b) = g * (v * b) /\ u * a \in Int /\ v * b \in Int
    BY <1>6, Products
  <2>3. (u * a + v * b) * g = 1 * g
    <3>1. PICK e \in Int, f \in Int : e = u * a /\ f = v * b
      BY <2>2
    <3>2. g * (e + f) = g * e + g * f
      BY <1>6, Products
    <3> QED BY <1>5, <1>6, <2>1, <2>2, <3>1, <3>2
  <2>4. u * a + v * b = 1
    BY <1>6, <2>2, <2>3, Cancel
  <2>5. PICK w \in Int : w = u * (s * t)
    BY Products
  <2>6. w * (t * c) = u * a
    BY <1>7, <2>5
  <2> QED BY <2>4, <2>6 DEF Coprime
<1>13. (t * c) * d = n * b
  <2>1. n * b = g * (c * b)
    BY <1>6, <1>8, Products
  <2>2. t * d = g * b
    BY <1>2, <1>5
  <2>3. (t * c) * d = c * (g * b)
    BY <2>2
  <2> QED BY <1>6, <2>1, <2>3, Products
<1> QED BY <1>10, <1>11, <1>12, <1>13 DEF Represents, IsFraction

Crosswise(a, b, c, d) == a * d = c * b
DividesInt(b, d) == \E p \in Int : d = b * p

\* A coprime divisor of a product divides the other factor.
LEMMA Euclid ==
    ASSUME NEW a \in Int, NEW b \in Int, NEW c \in Int, NEW d \in Int, Coprime(a, b), Crosswise(a, b, c, d)
    PROVE  DividesInt(b, d)
<1>0. a * d = c * b
  BY DEF Crosswise
<1>1. PICK u \in Int, v \in Int : u * a + v * b = 1
  BY DEF Coprime
<1>2. d = (u * a + v * b) * d
  BY <1>1
<1>3. (u * a) * d = u * (c * b)
  BY <1>0, Products
<1>4. PICK e \in Int, f \in Int : e = u * a /\ f = v * b
  BY Products
<1>5. (e + f) * d = e * d + f * d
  OBVIOUS
<1>6. u * (c * b) = b * (u * c) /\ f * d = b * (v * d)
  BY <1>4, Products
<1>7. PICK x \in Int, y \in Int : x = u * c /\ y = v * d
  BY Products
<1>8. b * (x + y) = b * x + b * y
  BY Products
<1>9. d = b * (x + y)
  BY <1>2, <1>3, <1>4, <1>5, <1>6, <1>7, <1>8
<1> QED BY <1>9 DEF DividesInt

\* Equal values are one fraction.
LEMMA OneFraction ==
    ASSUME NEW x, NEW y, IsFraction(x), IsFraction(y), Num(x) * Den(y) = Num(y) * Den(x)
    PROVE  x = y
<1>1. PICK a \in Int, b \in Nat \ {0}, c \in Int, d \in Nat \ {0} : x = <<a, b>> /\ y = <<c, d>>
                                                         /\ a = Num(x) /\ b = Den(x) /\ c = Num(y) /\ d = Den(y)
  BY FractionParts
<1>2. Coprime(a, b) /\ Coprime(c, d) /\ a * d = c * b
  BY <1>1 DEF IsFraction
<1>3. DividesInt(b, d) /\ DividesInt(d, b)
  <2>1. Crosswise(a, b, c, d) /\ Crosswise(c, d, a, b)
    BY <1>2 DEF Crosswise
  <2>2. b \in Int /\ d \in Int
    OBVIOUS
  <2> QED BY ONLY <2>1, <2>2, <1>2, Euclid, a \in Int, c \in Int
<1>4. PICK p \in Int, q \in Int : d = b * p /\ b = d * q
  BY <1>3 DEF DividesInt
<1>5. b = d
  BY <1>4, MutualDivisors
<1>6. a = c
  BY <1>2, <1>5, Cancel
<1> QED BY <1>1, <1>5, <1>6

\* One value is one fraction: equality of fractions is equality of values.
LEMMA Same == ASSUME NEW x, NEW y, NEW n, NEW d, Represents(x, n, d), Represents(y, n, d) PROVE x = y
<1>1. PICK a \in Int, b \in Nat \ {0}, c \in Int, e \in Nat \ {0} : a = Num(x) /\ b = Den(x) /\ c = Num(y) /\ e = Den(y)
  BY FractionParts DEF Represents
<1>2. n \in Int /\ d \in Int \ {0} /\ a * d = n * b /\ c * d = n * e
  BY <1>1 DEF Represents
<1>3. (a * e) * d = (c * b) * d
  <2>1. (a * e) * d = (a * d) * e /\ (c * b) * d = (c * d) * b
    BY <1>2
  <2>2. (n * b) * e = (n * e) * b
    BY <1>2
  <2> QED BY <1>2, <2>1, <2>2
<1>4. a * e = c * b
  BY <1>2, <1>3, Cancel, Products
<1> QED BY <1>1, <1>4, OneFraction DEF Represents

LEMMA Itself == ASSUME NEW x, IsFraction(x) PROVE Represents(x, Num(x), Den(x))
BY FractionParts DEF Represents

\* A product has the product of the values, and is commutative, associative and of unit 1.
LEMMA TimesIs ==
    ASSUME NEW x, NEW y, NEW a, NEW b, NEW c, NEW d, Represents(x, a, b), Represents(y, c, d)
    PROVE  Represents(Times(x, y), a * c, b * d)
<1>1. PICK p \in Int, q \in Nat \ {0}, r \in Int, s \in Nat \ {0} : p = Num(x) /\ q = Den(x) /\ r = Num(y) /\ s = Den(y)
  BY FractionParts DEF Represents
<1>2. a \in Int /\ b \in Int \ {0} /\ c \in Int /\ d \in Int \ {0} /\ p * b = a * q /\ r * d = c * s
  BY <1>1 DEF Represents
<1>3. PICK n \in Int, m \in Int \ {0} : n = p * r /\ m = q * s
  BY Products
<1>4. PICK z : z = Times(x, y)
  OBVIOUS
<1>5. Represents(z, n, m)
  BY <1>1, <1>3, <1>4, FracIs DEF Times
<1>6. PICK u \in Int, v \in Nat \ {0} : u = Num(z) /\ v = Den(z) /\ u * m = n * v
  BY <1>5, FractionParts DEF Represents
<1>7. PICK e \in Int, f \in Int \ {0} : e = a * c /\ f = b * d
  BY <1>2, Products
<1>8. n * f = e * m
  <2>1. (p * r) * (b * d) = (p * b) * (r * d)
    BY <1>2
  <2>2. (a * q) * (c * s) = (a * c) * (q * s)
    BY <1>2
  <2> QED BY <1>2, <1>3, <1>7, <2>1, <2>2
<1>9. (u * f) * m = (e * v) * m
  <2>1. (u * f) * m = (n * v) * f
    BY <1>6
  <2>2. (n * v) * f = (e * m) * v
    BY <1>8
  <2> QED BY <2>1, <2>2
<1>10. u * f = e * v
  BY <1>9, Cancel, Products
<1> QED BY <1>4, <1>5, <1>6, <1>7, <1>10 DEF Represents

LEMMA TimesOfFractions ==
    ASSUME NEW x, NEW y, IsFraction(x), IsFraction(y)
    PROVE  IsFraction(Times(x, y)) /\ Represents(Times(x, y), Num(x) * Num(y), Den(x) * Den(y))
BY Itself, TimesIs DEF Represents

LEMMA TimesCommutes == ASSUME NEW x, NEW y, IsFraction(x), IsFraction(y) PROVE Times(x, y) = Times(y, x)
<1>1. PICK a \in Int, b \in Int, c \in Int, d \in Int : a = Num(x) /\ b = Den(x) /\ c = Num(y) /\ d = Den(y)
  BY FractionParts
<1>2. a * c = c * a /\ b * d = d * b
  BY Products
<1> QED BY <1>1, <1>2 DEF Times

LEMMA TimesAssociates ==
    ASSUME NEW x, NEW y, NEW z, IsFraction(x), IsFraction(y), IsFraction(z)
    PROVE  Times(Times(x, y), z) = Times(x, Times(y, z))
<1>1. PICK a \in Int, b \in Int, c \in Int, d \in Int, e \in Int, f \in Int :
          /\ Represents(x, a, b) /\ Represents(y, c, d) /\ Represents(z, e, f)
  BY Itself DEF Represents
<1>2. Represents(Times(Times(x, y), z), (a * c) * e, (b * d) * f)
  BY <1>1, TimesIs
<1>3. Represents(Times(x, Times(y, z)), a * (c * e), b * (d * f))
  BY <1>1, TimesIs
<1>4. (a * c) * e = a * (c * e) /\ (b * d) * f = b * (d * f)
  BY Products
<1> QED BY <1>2, <1>3, <1>4, Same

LEMMA OneIs == IsFraction(One) /\ Represents(One, 1, 1) /\ IsFraction(Zero)
<1>1. 0 * 1 + 1 * 1 = 1 /\ 0 * 0 + 1 * 1 = 1
  OBVIOUS
<1> QED BY <1>1 DEF IsFraction, Coprime, Represents, One, Zero, Num, Den

LEMMA TimesOne == ASSUME NEW x, IsFraction(x) PROVE Times(One, x) = x /\ Times(x, One) = x
<1>1. PICK a \in Int, b \in Int : Represents(x, a, b)
  BY Itself DEF Represents
<1>2. Represents(Times(One, x), 1 * a, 1 * b)
  BY <1>1, OneIs, TimesIs
<1>3. 1 * a = a /\ 1 * b = b
  OBVIOUS
<1> QED BY <1>1, <1>2, <1>3, Same, OneIs, TimesCommutes DEF Represents

Positive(x) == IsFraction(x) /\ Num(x) > 0

\* Factors above zero stay so.
LEMMA TimesPositive == ASSUME NEW x, NEW y, Positive(x), Positive(y) PROVE Positive(Times(x, y))
<1>1. PICK a \in Nat \ {0}, b \in Nat \ {0}, c \in Nat \ {0}, d \in Nat \ {0} :
         a = Num(x) /\ b = Den(x) /\ c = Num(y) /\ d = Den(y)
  BY FractionParts DEF Positive
<1>2. PICK z : z = Times(x, y)
  OBVIOUS
<1>3. Represents(z, a * c, b * d)
  BY <1>1, <1>2, TimesOfFractions DEF Positive
<1>4. PICK u \in Int, v \in Nat \ {0} : u = Num(z) /\ v = Den(z) /\ u * (b * d) = (a * c) * v
  BY <1>3, FractionParts DEF Represents
<1>5. (a * c) * v > 0 /\ b * d > 0
  OBVIOUS
<1>6. u > 0
  <2>1. PICK m \in Int : m = b * d /\ m > 0 /\ u * m > 0
    BY <1>4, <1>5
  <2> QED BY <2>1
<1> QED BY <1>2, <1>3, <1>4, <1>6 DEF Positive, Represents

\* The inverse has the inverse value, and undoes the factor.
LEMMA InvIs ==
    ASSUME NEW x, NEW a, NEW b, Represents(x, a, b), a # 0
    PROVE  Represents(Inv(x), b, a)
<1>1. PICK p \in Int, q \in Nat \ {0} : p = Num(x) /\ q = Den(x)
  BY FractionParts DEF Represents
<1>2. a \in Int /\ b \in Int \ {0} /\ p * b = a * q
  BY <1>1 DEF Represents
<1>3. p # 0
  <2>1. a * q # 0
    BY <1>2
  <2> QED BY <1>2, <2>1
<1>4. PICK z : z = Inv(x)
  OBVIOUS
<1>5. Represents(z, q, p)
  BY <1>1, <1>3, <1>4, FracIs DEF Inv
<1>6. PICK u \in Int, v \in Nat \ {0} : u = Num(z) /\ v = Den(z) /\ u * p = q * v
  BY <1>5, FractionParts DEF Represents
<1>7. (u * a) * q = (b * v) * q
  <2>1. (u * a) * q = u * (p * b)
    BY <1>2
  <2>2. u * (p * b) = (q * v) * b
    BY <1>6, <1>2
  <2> QED BY <2>1, <2>2, <1>2
<1>8. u * a = b * v
  BY <1>2, <1>7, Cancel, Products
<1> QED BY <1>2, <1>4, <1>5, <1>6, <1>8 DEF Represents

LEMMA TimesInverse == ASSUME NEW x, IsFraction(x), Num(x) # 0
                      PROVE  IsFraction(Inv(x)) /\ Times(x, Inv(x)) = One /\ Times(Inv(x), x) = One
<1>1. PICK a \in Int \ {0}, b \in Int \ {0} : Represents(x, a, b)
  BY Itself DEF Represents
<1>2. Represents(Inv(x), b, a)
  BY <1>1, InvIs
<1>3. PICK z : z = Times(x, Inv(x))
  OBVIOUS
<1>4. Represents(z, a * b, b * a)
  BY <1>1, <1>2, <1>3, TimesIs
<1>5. PICK m \in Int \ {0} : m = a * b /\ m = b * a
  BY Products
<1>6. Represents(One, m, m)
  <2>1. 1 * m = m * 1
    OBVIOUS
  <2> QED BY <2>1, OneIs DEF Represents, One, Num, Den
<1>7. z = One
  BY <1>4, <1>5, <1>6, Same
<1> QED BY <1>2, <1>3, <1>7, TimesCommutes DEF Represents

LEMMA InvPositive == ASSUME NEW x, Positive(x) PROVE Positive(Inv(x))
<1>1. PICK a \in Nat \ {0}, b \in Nat \ {0} : a = Num(x) /\ b = Den(x) /\ Represents(x, a, b)
  BY FractionParts, Itself DEF Positive
<1>2. PICK z : z = Inv(x)
  OBVIOUS
<1>3. Represents(z, b, a)
  BY <1>1, <1>2, InvIs
<1>4. PICK u \in Int, v \in Nat \ {0} : u = Num(z) /\ v = Den(z) /\ u * a = b * v
  BY <1>3, FractionParts DEF Represents
<1>5. u > 0
  <2>1. b * v > 0
    OBVIOUS
  <2> QED BY <1>4, <2>1
<1> QED BY <1>2, <1>3, <1>4, <1>5 DEF Positive, Represents

\* A sum has the sum of the values, a negative the negative one, and a sign is that of the value.
LEMMA PlusIs ==
    ASSUME NEW x, NEW y, NEW a, NEW b, NEW c, NEW d, Represents(x, a, b), Represents(y, c, d)
    PROVE  Represents(Plus(x, y), a * d + c * b, b * d)
<1>1. PICK p \in Int, q \in Nat \ {0}, r \in Int, s \in Nat \ {0} : p = Num(x) /\ q = Den(x) /\ r = Num(y) /\ s = Den(y)
  BY FractionParts DEF Represents
<1>2. a \in Int /\ b \in Int \ {0} /\ c \in Int /\ d \in Int \ {0} /\ p * b = a * q /\ r * d = c * s
  BY <1>1 DEF Represents
<1>3. PICK n \in Int, m \in Int \ {0} : n = p * s + r * q /\ m = q * s
  BY Products
<1>4. PICK z : z = Plus(x, y)
  OBVIOUS
<1>5. Represents(z, n, m)
  BY <1>1, <1>3, <1>4, FracIs DEF Plus
<1>6. PICK u \in Int, v \in Nat \ {0} : u = Num(z) /\ v = Den(z) /\ u * m = n * v
  BY <1>5, FractionParts DEF Represents
<1>7. PICK e \in Int, f \in Int \ {0} : e = a * d + c * b /\ f = b * d
  BY <1>2, Products
<1>8. n * f = e * m
  <2>1. (p * s) * (b * d) = (p * b) * (s * d) /\ (r * q) * (b * d) = (r * d) * (q * b)
    BY <1>2
  <2>2. (a * q) * (s * d) = (a * d) * (q * s) /\ (c * s) * (q * b) = (c * b) * (q * s)
    BY <1>2
  <2>3. PICK g \in Int, h \in Int, i \in Int, k \in Int : g = p * s /\ h = r * q /\ i = a * d /\ k = c * b
    BY <1>2, Products
  <2>4. (g + h) * f = g * f + h * f /\ (i + k) * m = i * m + k * m
    OBVIOUS
  <2> QED BY <1>2, <1>3, <1>7, <2>1, <2>2, <2>3, <2>4
<1>9. (u * f) * m = (e * v) * m
  <2>1. (u * f) * m = (n * v) * f
    BY <1>6
  <2>2. (n * v) * f = (e * m) * v
    BY <1>8
  <2> QED BY <2>1, <2>2
<1>10. u * f = e * v
  BY <1>9, Cancel, Products
<1> QED BY <1>4, <1>5, <1>6, <1>7, <1>10 DEF Represents

LEMMA NegIs == ASSUME NEW x, NEW a, NEW b, Represents(x, a, b) PROVE Represents(Neg(x), -a, b)
<1>1. PICK p \in Int, q \in Nat \ {0} : p = Num(x) /\ q = Den(x)
  BY FractionParts DEF Represents
<1>2. a \in Int /\ b \in Int \ {0} /\ p * b = a * q /\ Coprime(p, q)
  BY <1>1 DEF Represents, IsFraction
<1>3. PICK u \in Int, v \in Int : u * p + v * q = 1
  BY <1>2 DEF Coprime
<1>4. (-u) * (-p) = u * p /\ (-p) * b = -(p * b) /\ (-a) * q = -(a * q) /\ -u \in Int /\ -p \in Int /\ -a \in Int
  BY <1>2
<1>5. Coprime(-p, q)
  BY <1>3, <1>4 DEF Coprime
<1>6. Neg(x) = <<-p, q>>
  BY <1>1 DEF Neg
<1>7. IsFraction(Neg(x)) /\ Num(Neg(x)) = -p /\ Den(Neg(x)) = q
  BY <1>4, <1>5, <1>6 DEF IsFraction, Num, Den
<1> QED BY <1>2, <1>4, <1>7 DEF Represents

SignOf(n) == IF n > 0 THEN 1 ELSE IF n < 0 THEN -1 ELSE 0

LEMMA SignIs == ASSUME NEW x, NEW n, NEW d, Represents(x, n, d), d > 0 PROVE Sign(x) = SignOf(n)
<1>1. PICK p \in Int, q \in Nat \ {0} : p = Num(x) /\ q = Den(x)
  BY FractionParts DEF Represents
<1>2. n \in Int /\ d \in Int \ {0} /\ p * d = n * q
  BY <1>1 DEF Represents
<1>3. CASE p > 0
  <2>1. p * d > 0
    BY <1>2, <1>3
  <2>2. n > 0
    BY <1>2, <2>1
  <2> QED BY <1>1, <1>3, <2>2 DEF Sign, SignOf
<1>4. CASE p < 0
  <2>1. PICK k \in Nat \ {0} : k = -p
    BY <1>4
  <2>2. k * d > 0 /\ p * d = -(k * d)
    BY <1>2, <2>1
  <2>3. n < 0
    BY <1>2, <2>2
  <2> QED BY <1>1, <1>2, <1>4, <2>3 DEF Sign, SignOf
<1>5. CASE p = 0
  <2>1. n * q = 0
    BY <1>2, <1>5
  <2>2. n = 0
    BY <1>2, <2>1
  <2> QED BY <1>1, <1>5, <2>2 DEF Sign, SignOf
<1> QED BY <1>3, <1>4, <1>5

-----------------------------------------------------------------------------
(* Units: ways through a graph. *)

\* A way and an edge.
Along(w, h) == [acc |-> Times(w.acc, h.f), hops |-> Append(w.hops, h.to)]
Opens(g, w) == {h \in g : h.at = Last(w.hops) /\ h.to \notin ToSet(w.hops)}
Longer(g, W) == UNION {{Along(w, h) : h \in Opens(g, w)} : w \in W}
ByLength(f, g, s, n) == f = [k \in 0 .. n |-> IF k = 0 THEN {Here(s)} ELSE Longer(g, f[k - 1])]

\* The ways of each length are a function of the length: its recursion has a value.
LEMMA ByLengthExists == ASSUME NEW g, NEW s, NEW n \in Nat PROVE \E f : ByLength(f, g, s, n)
<1> DEFINE Bad == {k \in Nat : ~ \E f : ByLength(f, g, s, k)}
<1>1. SUFFICES ASSUME Bad # {} PROVE FALSE
  OBVIOUS
<1>2. \E k \in Bad : \A l \in Bad : k <= l
  <2> HIDE DEF Bad
  <2>1. Bad \in SUBSET Nat
    BY DEF Bad
  <2> QED BY <1>1, <2>1, SmallestNat
<1>3. PICK k \in Bad : \A l \in Bad : k <= l
  BY <1>2
<1>4. CASE k = 0
  <2>1. PICK f : f = [i \in 0 .. 0 |-> {Here(s)}]
    OBVIOUS
  <2>2. f = [i \in 0 .. 0 |-> IF i = 0 THEN {Here(s)} ELSE Longer(g, f[i - 1])]
    BY <2>1
  <2> QED BY <1>4, <2>2 DEF ByLength
<1>5. CASE k # 0
  <2>1. k - 1 \in Nat /\ k - 1 \notin Bad
    BY <1>3, <1>5
  <2>2. PICK f : ByLength(f, g, s, k - 1)
    BY <2>1
  <2>3. PICK e : e = [i \in 0 .. k |-> IF i < k THEN f[i] ELSE Longer(g, f[k - 1])]
    OBVIOUS
  <2>4. \A i \in 0 .. k - 1 : f[i] = IF i = 0 THEN {Here(s)} ELSE Longer(g, f[i - 1])
    BY <2>2 DEF ByLength
  <2>5. ASSUME NEW i \in 0 .. k PROVE e[i] = IF i = 0 THEN {Here(s)} ELSE Longer(g, e[i - 1])
    <3>1. CASE i = k
      <4>1. e[i] = Longer(g, f[k - 1]) /\ e[k - 1] = f[k - 1]
        BY <3>1, <2>1, <2>3
      <4> QED BY <3>1, <1>5, <4>1
    <3>2. CASE i # k
      <4>1. i \in 0 .. k - 1 /\ e[i] = f[i] /\ (i # 0 => e[i - 1] = f[i - 1])
        BY <3>2, <2>3
      <4> QED BY <4>1, <2>4
    <3> QED BY <3>1, <3>2
  <2>6. ByLength(e, g, s, k)
    BY <2>3, <2>5 DEF ByLength
  <2> QED BY <2>6
<1> QED BY <1>4, <1>5

\* The ways of a graph are those of each length up to the number of its nodes.
LEMMA WaysAre ==
    ASSUME NEW g, NEW s, IsFiniteSet(Nodes(g))
    PROVE  \E f : ByLength(f, g, s, Cardinality(Nodes(g))) /\ Ways(g, s) = UNION {f[k] : k \in 0 .. Cardinality(Nodes(g))}
<1>1. Cardinality(Nodes(g)) \in Nat
  BY FS_CardinalityType
<1>2. PICK f : f = CHOOSE e : ByLength(e, g, s, Cardinality(Nodes(g)))
  OBVIOUS
<1>3. ByLength(f, g, s, Cardinality(Nodes(g)))
  BY <1>1, <1>2, ByLengthExists
<1>4. Ways(g, s) = UNION {f[k] : k \in DOMAIN f}
  <2>1. f = CHOOSE e : e = [k \in 0 .. Cardinality(Nodes(g)) |->
                IF k = 0 THEN {Here(s)}
                ELSE UNION {{[acc |-> Times(w.acc, h.f), hops |-> Append(w.hops, h.to)] :
                               h \in {x \in g : x.at = Last(w.hops) /\ x.to \notin ToSet(w.hops)}} : w \in e[k - 1]}]
    BY <1>2, Zenon DEF ByLength, Longer, Along, Opens
  <2> QED BY <2>1, Zenon DEF Ways
<1>5. DOMAIN f = 0 .. Cardinality(Nodes(g))
  BY <1>3 DEF ByLength
<1> QED BY <1>3, <1>4, <1>5

\* Each edge leads to a node again.
Joined(g) == IsFiniteSet(Nodes(g)) /\ \A h \in g : h.to \in Nodes(g)

\* A list of nodes, each once.
Once(q) == \A i, j \in DOMAIN q : q[i] = q[j] => i = j
IsWay(g, w) == w = [acc |-> w.acc, hops |-> w.hops] /\ w.hops \in Seq(Nodes(g)) /\ w.hops # << >> /\ Once(w.hops)

\* Lists of nodes.
LEMMA Elements == ASSUME NEW T, NEW q \in Seq(T) PROVE ToSet(q) = {q[i] : i \in 1 .. Len(q)} /\ DOMAIN q = 1 .. Len(q) /\ Len(q) \in Nat
                                                         /\ ToSet(q) \subseteq T
BY LenProperties, ElementOfSeq DEF ToSet

LEMMA LastIs == ASSUME NEW T, NEW q \in Seq(T), q # << >> PROVE Len(q) \in Nat \ {0} /\ Last(q) = q[Len(q)] /\ Last(q) \in ToSet(q) /\ Last(q) \in T
<1>1. Len(q) \in Nat \ {0}
  BY EmptySeq, LenProperties
<1> QED BY <1>1, Elements DEF Last

LEMMA AppendIs ==
    ASSUME NEW T, NEW q \in Seq(T), NEW x \in T
    PROVE  /\ Append(q, x) \in Seq(T) /\ Len(Append(q, x)) = Len(q) + 1 /\ Append(q, x) # << >>
           /\ Last(Append(q, x)) = x /\ ToSet(Append(q, x)) = ToSet(q) \cup {x}
           /\ Once(q) /\ x \notin ToSet(q) => Once(Append(q, x))
<1>1. PICK r : r = Append(q, x)
  OBVIOUS
<1>2. r \in Seq(T) /\ Len(r) = Len(q) + 1 /\ r[Len(q) + 1] = x /\ \A i \in 1 .. Len(q) : r[i] = q[i]
  BY <1>1, AppendProperties
<1>3. Len(q) \in Nat /\ DOMAIN q = 1 .. Len(q) /\ DOMAIN r = 1 .. Len(q) + 1 /\ ToSet(q) = {q[i] : i \in 1 .. Len(q)}
      /\ ToSet(r) = {r[i] : i \in 1 .. Len(q) + 1}
  BY <1>2, Elements
<1>4. r # << >>
  BY <1>2, <1>3, EmptySeq
<1>5. Last(r) = x
  BY <1>2, <1>4, LastIs
<1>6. ToSet(r) = ToSet(q) \cup {x}
  <2>1. ASSUME NEW y \in ToSet(r) PROVE y \in ToSet(q) \cup {x}
    BY <1>2, <1>3
  <2>2. ASSUME NEW y \in ToSet(q) PROVE y \in ToSet(r)
    <3>1. PICK i \in 1 .. Len(q) : y = q[i]
      BY <1>3
    <3> QED BY <1>2, <1>3, <3>1
  <2>3. x \in ToSet(r)
    BY <1>2, <1>3
  <2> QED BY <2>1, <2>2, <2>3
<1>7. ASSUME Once(q), x \notin ToSet(q) PROVE Once(r)
  <2>1. SUFFICES ASSUME NEW i \in 1 .. Len(q) + 1, NEW j \in 1 .. Len(q) + 1, r[i] = r[j] PROVE i = j
    BY <1>3 DEF Once
  <2>2. CASE i = Len(q) + 1 \/ j = Len(q) + 1
    BY <2>1, <2>2, <1>2, <1>3, <1>7
  <2>3. CASE i \in 1 .. Len(q) /\ j \in 1 .. Len(q)
    BY <2>1, <2>3, <1>2, <1>3, <1>7 DEF Once
  <2> QED BY <2>2, <2>3, <1>3
<1> QED BY <1>1, <1>2, <1>4, <1>5, <1>6, <1>7

\* A way of no hops, and a way gone on with.
LEMMA HereIs == ASSUME NEW g, NEW s \in Nodes(g)
                PROVE  IsWay(g, Here(s)) /\ Len(Here(s).hops) = 1 /\ Last(Here(s).hops) = s /\ ToSet(Here(s).hops) = {s}
                       /\ Here(s).acc = One
<1>1. PICK q : q = <<s>>
  OBVIOUS
<1>2. q \in Seq(Nodes(g)) /\ Len(q) = 1 /\ q[1] = s /\ DOMAIN q = 1 .. 1 /\ q # << >>
  BY <1>1
<1>3. Once(q)
  BY <1>2 DEF Once
<1>4. Last(q) = s /\ ToSet(q) = {s}
  BY <1>2, LastIs, Elements
<1> QED BY <1>1, <1>2, <1>3, <1>4 DEF Here, IsWay

LEMMA AlongIs ==
    ASSUME NEW g, Joined(g), NEW w, IsWay(g, w), NEW h \in Opens(g, w)
    PROVE  /\ IsWay(g, Along(w, h)) /\ Len(Along(w, h).hops) = Len(w.hops) + 1
           /\ Last(Along(w, h).hops) = h.to /\ ToSet(Along(w, h).hops) = ToSet(w.hops) \cup {h.to}
           /\ Along(w, h).acc = Times(w.acc, h.f) /\ Along(w, h).hops = Append(w.hops, h.to)
<1>1. h.to \in Nodes(g) /\ h.to \notin ToSet(w.hops)
  BY DEF Opens, Joined
<1>2. w.hops \in Seq(Nodes(g)) /\ Once(w.hops)
  BY DEF IsWay
<1>3. PICK q : q = Append(w.hops, h.to)
  OBVIOUS
<1>4. q \in Seq(Nodes(g)) /\ Len(q) = Len(w.hops) + 1 /\ q # << >> /\ Last(q) = h.to /\ ToSet(q) = ToSet(w.hops) \cup {h.to} /\ Once(q)
  BY <1>1, <1>2, <1>3, AppendIs
<1>5. PICK v : v = Along(w, h)
  OBVIOUS
<1>6. v.acc = Times(w.acc, h.f) /\ v.hops = q /\ v = [acc |-> v.acc, hops |-> v.hops]
  BY <1>3, <1>5 DEF Along
<1> QED BY <1>3, <1>4, <1>5, <1>6 DEF IsWay

\* The ways of length k have k hops.
LEMMA LevelsAre ==
    ASSUME NEW g, Joined(g), NEW s \in Nodes(g), NEW n \in Nat, NEW f, ByLength(f, g, s, n)
    PROVE  \A k \in 0 .. n : \A w \in f[k] : IsWay(g, w) /\ Len(w.hops) = k + 1
<1> DEFINE Bad == {k \in 0 .. n : ~ \A w \in f[k] : IsWay(g, w) /\ Len(w.hops) = k + 1}
<1>1. SUFFICES ASSUME Bad # {} PROVE FALSE
  OBVIOUS
<1>2. \E k \in Bad : \A l \in Bad : k <= l
  <2> HIDE DEF Bad
  <2>1. Bad \in SUBSET Nat
    BY DEF Bad
  <2> QED BY <1>1, <2>1, SmallestNat
<1>3. PICK k \in Bad : \A l \in Bad : k <= l
  BY <1>2
<1>4. PICK w \in f[k] : ~(IsWay(g, w) /\ Len(w.hops) = k + 1)
  OBVIOUS
<1>5. \A i \in 0 .. n : f[i] = IF i = 0 THEN {Here(s)} ELSE Longer(g, f[i - 1])
  BY DEF ByLength
<1>6. CASE k = 0
  BY <1>4, <1>5, <1>6, HereIs
<1>7. CASE k # 0
  <2>1. k - 1 \in 0 .. n /\ k - 1 \notin Bad /\ k \in 0 .. n
    BY <1>3, <1>7
  <2>2. f[k] = Longer(g, f[k - 1])
    BY <1>5, <1>7, <2>1
  <2>3. PICK v \in f[k - 1] : \E h \in Opens(g, v) : w = Along(v, h)
    BY <1>4, <2>2 DEF Longer
  <2>4. IsWay(g, v) /\ Len(v.hops) = k
    BY <2>1, <2>3
  <2>5. PICK h \in Opens(g, v) : w = Along(v, h)
    BY <2>3
  <2> QED BY <1>4, <2>1, <2>4, <2>5, AlongIs
<1> QED BY <1>6, <1>7

\* Induction over ways: what holds of the way of no hops and of each way gone on with holds of all.
LEMMA WaysInduct ==
    ASSUME NEW g, Joined(g), NEW s, NEW X, Here(s) \in X,
           \A w \in X : w \in Ways(g, s) => \A h \in Opens(g, w) : Along(w, h) \in X
    PROVE  Ways(g, s) \subseteq X
<1>0. PICK n \in Nat : n = Cardinality(Nodes(g))
  BY FS_CardinalityType DEF Joined
<1>1. PICK f : ByLength(f, g, s, n) /\ Ways(g, s) = UNION {f[k] : k \in 0 .. n}
  BY <1>0, WaysAre DEF Joined
<1> DEFINE Bad == {k \in 0 .. n : ~(f[k] \subseteq X)}
<1>2. SUFFICES ASSUME Bad # {} PROVE FALSE
  BY <1>1
<1>3. \E k \in Bad : \A l \in Bad : k <= l
  <2> HIDE DEF Bad
  <2>1. Bad \in SUBSET Nat
    BY DEF Bad
  <2> QED BY <1>2, <2>1, SmallestNat
<1>4. PICK k \in Bad : \A l \in Bad : k <= l
  BY <1>3
<1>5. \A i \in 0 .. n : f[i] = IF i = 0 THEN {Here(s)} ELSE Longer(g, f[i - 1])
  BY <1>1 DEF ByLength
<1>6. CASE k = 0
  BY <1>4, <1>5, <1>6
<1>7. CASE k # 0
  <2>1. k - 1 \in 0 .. n /\ k - 1 \notin Bad /\ k \in 0 .. n
    BY <1>4, <1>7
  <2>2. f[k] = Longer(g, f[k - 1]) /\ f[k - 1] \subseteq X /\ f[k - 1] \subseteq Ways(g, s)
    BY <1>1, <1>5, <1>7, <2>1
  <2>3. ASSUME NEW w \in f[k] PROVE w \in X
    <3>1. PICK v \in f[k - 1] : \E h \in Opens(g, v) : w = Along(v, h)
      BY <2>2 DEF Longer
    <3> QED BY <2>2, <3>1
  <2> QED BY <1>4, <2>3
<1> QED BY <1>6, <1>7

\* The way of no hops is one, ways visit no node twice, and a way gone on with is a way: the
\* longest has a hop less than there are nodes.
LEMMA WaysBegin == ASSUME NEW g, Joined(g), NEW s PROVE Here(s) \in Ways(g, s)
<1>0. PICK n \in Nat : n = Cardinality(Nodes(g))
  BY FS_CardinalityType DEF Joined
<1>1. PICK f : ByLength(f, g, s, n) /\ Ways(g, s) = UNION {f[k] : k \in 0 .. n}
  BY <1>0, WaysAre DEF Joined
<1>2. 0 \in 0 .. n
  OBVIOUS
<1>3. f[0] = {Here(s)}
  BY <1>1, <1>2 DEF ByLength
<1> QED BY <1>1, <1>2, <1>3

\* Lists of nodes, each once, are no longer than there are nodes.
LEMMA OnceIsShort ==
    ASSUME NEW S, IsFiniteSet(S), NEW q \in Seq(S), Once(q)
    PROVE  Len(q) <= Cardinality(S)
<1>1. Len(q) \in Nat /\ DOMAIN q = 1 .. Len(q) /\ q \in [1 .. Len(q) -> S]
  BY LenProperties
<1>2. q \in Injection(1 .. Len(q), S)
  BY <1>1 DEF Once, Injection, IsInjective
<1>3. IsFiniteSet(1 .. Len(q)) /\ Cardinality(1 .. Len(q)) = Len(q)
  BY <1>1, FS_Interval
<1> QED BY <1>2, <1>3, FS_Injection

LEMMA WaysTyped ==
    ASSUME NEW g, Joined(g), NEW s \in Nodes(g), NEW w \in Ways(g, s)
    PROVE  IsWay(g, w)
<1>0. PICK n \in Nat : n = Cardinality(Nodes(g))
  BY FS_CardinalityType DEF Joined
<1>1. PICK f : ByLength(f, g, s, n) /\ Ways(g, s) = UNION {f[k] : k \in 0 .. n}
  BY <1>0, WaysAre DEF Joined
<1> QED BY <1>1, LevelsAre

LEMMA WaysGoOn ==
    ASSUME NEW g, Joined(g), NEW s \in Nodes(g), NEW w \in Ways(g, s), NEW h \in Opens(g, w)
    PROVE  Along(w, h) \in Ways(g, s)
<1>0. PICK n \in Nat : n = Cardinality(Nodes(g))
  BY FS_CardinalityType DEF Joined
<1>1. PICK f : ByLength(f, g, s, n) /\ Ways(g, s) = UNION {f[k] : k \in 0 .. n}
  BY <1>0, WaysAre DEF Joined
<1>2. PICK k \in 0 .. n : w \in f[k]
  BY <1>1
<1>3. IsWay(g, w) /\ Len(w.hops) = k + 1
  BY <1>1, <1>2, LevelsAre
<1>4. PICK v : v = Along(w, h)
  OBVIOUS
<1>5. IsWay(g, v) /\ Len(v.hops) = k + 2
  BY <1>3, <1>4, AlongIs
<1>6. k + 2 <= n
  <2>1. IsFiniteSet(Nodes(g)) /\ v.hops \in Seq(Nodes(g)) /\ Once(v.hops)
    BY <1>5 DEF IsWay, Joined
  <2>2. Len(v.hops) <= Cardinality(Nodes(g))
    BY <2>1, OnceIsShort
  <2> QED BY <1>0, <1>5, <2>2
<1>7. k + 1 \in 0 .. n /\ f[k + 1] = Longer(g, f[k])
  <2>1. PICK m \in 0 .. n : m = k + 1
    BY <1>6
  <2>2. f[m] = IF m = 0 THEN {Here(s)} ELSE Longer(g, f[m - 1])
    BY <1>1 DEF ByLength
  <2>3. m # 0 /\ m - 1 = k
    BY <2>1
  <2> QED BY <2>1, <2>2, <2>3
<1>8. v \in f[k + 1]
  BY <1>2, <1>4, <1>7 DEF Longer
<1> QED BY <1>1, <1>4, <1>7, <1>8

\* A graph as _graph makes it: each edge in a place of its own, with a factor above zero, and
\* the edge back beside it.
Charted(g) ==
    /\ IsFiniteSet(g)
    /\ \A h \in g : h.place \in Nat /\ Positive(h.f)
    /\ \A h, e \in g : h.place = e.place => h = e
    /\ \A h \in g : \E e \in g : e.at = h.to /\ e.to = h.at /\ e.f = Inv(h.f)

\* A graph as _graph makes it is finite, and both ends of its edges are nodes.
LEMMA ChartedJoined == ASSUME NEW g, Charted(g) PROVE Joined(g) /\ \A h \in g : h.at \in Nodes(g) /\ h.to \in Nodes(g)
<1>1. IsFiniteSet(Nodes(g))
  <2>1. IsFiniteSet(g)
    BY DEF Charted
  <2>2. PICK a : a = [h \in g |-> h.at]
    OBVIOUS
  <2>3. a \in Surjection(g, Nodes(g))
    BY <2>2 DEF Nodes, Surjection
  <2> QED BY <2>1, <2>3, FS_Surjection
<1>2. \A h \in g : h.to \in Nodes(g) /\ h.at \in Nodes(g)
  BY DEF Charted, Nodes
<1> QED BY <1>1, <1>2 DEF Joined

\* The factors of an edge and of the edge back undo each other.
LEMMA InvTwice == ASSUME NEW x, Positive(x) PROVE Inv(Inv(x)) = x
<1>1. PICK y : y = Inv(x)
  OBVIOUS
<1>2. PICK z : z = Inv(y)
  OBVIOUS
<1>3. Positive(y) /\ Positive(z)
  BY <1>1, <1>2, InvPositive
<1>4. IsFraction(x) /\ Num(x) # 0 /\ IsFraction(y) /\ Num(y) # 0 /\ IsFraction(z)
  <2>1. Num(x) \in Int /\ Num(y) \in Int
    BY <1>3, FractionParts DEF Positive
  <2> QED BY <1>3, <2>1 DEF Positive
<1>5. Times(x, y) = One /\ Times(y, z) = One
  BY <1>1, <1>2, <1>4, TimesInverse
<1>6. Times(Times(x, y), z) = Times(x, Times(y, z))
  BY <1>4, TimesAssociates
<1>7. Times(One, z) = z /\ Times(x, One) = x
  BY <1>4, TimesOne
<1> QED BY ONLY <1>1, <1>2, <1>5, <1>6, <1>7

\* Fractions of the table are in lowest terms in the sense of the lemmas above.
LEMMA LowestTerms == ASSUME NEW x, InLowestTerms(x) PROVE IsFraction(x)
<1>1. PICK n \in Int, d \in Nat \ {0} : x = <<n, d>> /\ Num(x) = n /\ Den(x) = d
  BY DEF InLowestTerms, Num, Den
<1>2. PICK s \in {1, -1} : Abs(n) = s * n
  BY AbsIs
<1>3. Abs(d) = d /\ Abs(n) \in Nat
  BY <1>1, AbsIs DEF Abs
<1>4. GcdOf[<<Abs(n), d>>] = 1
  BY <1>1, <1>3 DEF InLowestTerms, Gcd
<1>5. IsGcd(1, Abs(n), d)
  BY <1>3, <1>4, GcdIs
<1>6. PICK u \in Int, v \in Int : 1 = u * Abs(n) + v * d
  BY <1>5 DEF IsGcd
<1>7. PICK t \in Int : t = u * s
  OBVIOUS
<1>8. u * (s * n) = t * n
  BY <1>7
<1>9. t * n + v * d = 1
  BY <1>2, <1>6, <1>8
<1> QED BY <1>1, <1>9 DEF IsFraction, Coprime

\* A way leaves any set it ends outside of, over an edge after fewer hops.
Leaves(g, s, S, n) ==
    \E p \in Ways(g, s) : \E h \in Opens(g, p) : Last(p.hops) \in S /\ h.to \notin S /\ Len(p.hops) < n

LEMMA WayOut ==
    ASSUME NEW g, Joined(g), NEW S, NEW s \in Nodes(g) \cap S, NEW w \in Ways(g, s), Last(w.hops) \notin S
    PROVE  Leaves(g, s, S, Len(w.hops))
<1>1. PICK X : X = {v \in Ways(g, s) : Last(v.hops) \notin S => Leaves(g, s, S, Len(v.hops))}
  OBVIOUS
<1>2. Here(s) \in X
  BY <1>1, WaysBegin, HereIs
<1>3. ASSUME NEW v \in X, NEW h \in Opens(g, v) PROVE Along(v, h) \in X
  <2>1. v \in Ways(g, s) /\ (Last(v.hops) \notin S => Leaves(g, s, S, Len(v.hops)))
    BY <1>1
  <2>2. IsWay(g, v) /\ Along(v, h) \in Ways(g, s)
    BY <2>1, WaysTyped, WaysGoOn
  <2>3. PICK z : z = Along(v, h)
    OBVIOUS
  <2>4. Len(z.hops) = Len(v.hops) + 1 /\ Last(z.hops) = h.to
    BY <2>2, <2>3, AlongIs
  <2>5. Len(v.hops) \in Nat
    BY <2>2, LenProperties DEF IsWay
  <2>6. ASSUME Last(z.hops) \notin S PROVE Leaves(g, s, S, Len(z.hops))
    <3>1. CASE Last(v.hops) \in S
      BY <2>1, <2>4, <2>5, <2>6, <3>1 DEF Leaves
    <3>2. CASE Last(v.hops) \notin S
      <4>1. PICK p \in Ways(g, s) : \E e \in Opens(g, p) : Last(p.hops) \in S /\ e.to \notin S /\ Len(p.hops) < Len(v.hops)
        BY <2>1, <3>2 DEF Leaves
      <4>2. IsWay(g, p)
        BY WaysTyped
      <4>3. Len(p.hops) \in Nat
        BY <4>2, LenProperties DEF IsWay
      <4>4. Len(p.hops) < Len(z.hops)
        BY <4>1, <4>3, <2>4, <2>5
      <4> QED BY <4>1, <4>4 DEF Leaves
    <3> QED BY <3>1, <3>2
  <2> QED BY <1>1, <2>2, <2>3, <2>6
<1>4. Ways(g, s) \subseteq X
  BY <1>2, <1>3, WaysInduct
<1> QED BY <1>1, <1>4

\* The factor of a way is above zero.
LEMMA WayFactors ==
    ASSUME NEW g, Charted(g), NEW s \in Nodes(g)
    PROVE  \A w \in Ways(g, s) : Positive(w.acc)
<1>0. Joined(g)
  BY ChartedJoined
<1>1. PICK X : X = {w \in Ways(g, s) : Positive(w.acc)}
  OBVIOUS
<1>2. Here(s) \in X
  <2>1. Positive(One)
    BY OneIs DEF Positive, One, Num
  <2> QED BY <1>0, <1>1, <2>1, WaysBegin, HereIs
<1>3. ASSUME NEW v \in X, NEW h \in Opens(g, v) PROVE Along(v, h) \in X
  <2>1. v \in Ways(g, s) /\ Positive(v.acc) /\ Positive(h.f)
    BY <1>1 DEF Charted, Opens
  <2>2. IsWay(g, v) /\ Along(v, h) \in Ways(g, s)
    BY <1>0, <2>1, WaysTyped, WaysGoOn
  <2>3. Along(v, h).acc = Times(v.acc, h.f)
    BY <1>0, <2>2, AlongIs
  <2>4. Positive(Times(v.acc, h.f))
    BY <2>1, TimesPositive
  <2> QED BY <1>1, <2>2, <2>3, <2>4
<1>4. Ways(g, s) \subseteq X
  BY <1>0, <1>2, <1>3, WaysInduct
<1> QED BY <1>1, <1>4

\* A way parts at any of its nodes.
Parts(g, s, r, m) ==
    \E p \in Ways(g, s) : \E q \in Ways(g, m) :
        /\ Last(p.hops) = m /\ Last(q.hops) = Last(r.hops) /\ ToSet(q.hops) \subseteq ToSet(r.hops)
        /\ r.acc = Times(p.acc, q.acc)

LEMMA WaysPart ==
    ASSUME NEW g, Charted(g), NEW s \in Nodes(g)
    PROVE  \A r \in Ways(g, s) : \A m \in ToSet(r.hops) : Parts(g, s, r, m)
<1>0. Joined(g)
  BY ChartedJoined
<1>1. PICK X : X = {r \in Ways(g, s) : \A m \in ToSet(r.hops) : Parts(g, s, r, m)}
  OBVIOUS
<1>2. Here(s) \in X
  <2>1. PICK z : z = Here(s)
    OBVIOUS
  <2>2. z \in Ways(g, s) /\ Last(z.hops) = s /\ ToSet(z.hops) = {s} /\ z.acc = One
    BY <1>0, <2>1, WaysBegin, HereIs
  <2>3. Times(One, One) = One
    BY OneIs, TimesOne
  <2>4. Parts(g, s, z, s)
    BY <2>2, <2>3 DEF Parts
  <2> QED BY <1>1, <2>1, <2>2, <2>4
<1>3. ASSUME NEW r \in X, NEW h \in Opens(g, r) PROVE Along(r, h) \in X
  <2>1. r \in Ways(g, s) /\ \A m \in ToSet(r.hops) : Parts(g, s, r, m)
    BY <1>1
  <2>2. IsWay(g, r) /\ Along(r, h) \in Ways(g, s)
    BY <1>0, <2>1, WaysTyped, WaysGoOn
  <2>3. PICK z : z = Along(r, h)
    OBVIOUS
  <2>4. Last(z.hops) = h.to /\ ToSet(z.hops) = ToSet(r.hops) \cup {h.to} /\ z.acc = Times(r.acc, h.f) /\ IsWay(g, z)
    BY <1>0, <2>2, <2>3, AlongIs
  <2>5. h.to \in Nodes(g) /\ h.to \notin ToSet(r.hops) /\ h \in g /\ h.at = Last(r.hops) /\ IsFraction(h.f)
    BY <1>0 DEF Opens, Joined, Charted, Positive
  <2>6. ASSUME NEW m \in ToSet(r.hops) PROVE Parts(g, s, z, m)
    <3>1. PICK p \in Ways(g, s) : \E q \in Ways(g, m) :
             /\ Last(p.hops) = m /\ Last(q.hops) = Last(r.hops) /\ ToSet(q.hops) \subseteq ToSet(r.hops)
             /\ r.acc = Times(p.acc, q.acc)
      BY <2>1 DEF Parts
    <3>2. PICK q \in Ways(g, m) :
             /\ Last(p.hops) = m /\ Last(q.hops) = Last(r.hops) /\ ToSet(q.hops) \subseteq ToSet(r.hops)
             /\ r.acc = Times(p.acc, q.acc)
      BY <3>1
    <3>3. m \in Nodes(g)
      BY <2>2, Elements DEF IsWay
    <3>4. h \in Opens(g, q)
      BY <2>5, <3>2 DEF Opens
    <3>5. IsWay(g, q) /\ Along(q, h) \in Ways(g, m)
      BY <1>0, <3>3, <3>4, WaysTyped, WaysGoOn
    <3>6. PICK y : y = Along(q, h)
      OBVIOUS
    <3>7. Last(y.hops) = h.to /\ ToSet(y.hops) = ToSet(q.hops) \cup {h.to} /\ y.acc = Times(q.acc, h.f)
      BY <1>0, <3>4, <3>5, <3>6, AlongIs
    <3>8. IsFraction(p.acc) /\ IsFraction(q.acc)
      BY <3>3, WayFactors DEF Positive
    <3>9. Times(Times(p.acc, q.acc), h.f) = Times(p.acc, Times(q.acc, h.f))
      BY <2>5, <3>8, TimesAssociates
    <3>10. z.acc = Times(p.acc, y.acc)
      BY <2>4, <3>2, <3>7, <3>9
    <3>11. y \in Ways(g, m) /\ Last(y.hops) = Last(z.hops) /\ ToSet(y.hops) \subseteq ToSet(z.hops)
      BY <2>4, <3>2, <3>5, <3>6, <3>7
    <3> QED BY <3>2, <3>10, <3>11 DEF Parts
  <2>7. Parts(g, s, z, h.to)
    <3>1. PICK y : y = Here(h.to)
      OBVIOUS
    <3>2. y \in Ways(g, h.to) /\ Last(y.hops) = h.to /\ ToSet(y.hops) = {h.to} /\ y.acc = One
      BY <1>0, <2>5, <3>1, WaysBegin, HereIs
    <3>3. IsFraction(z.acc)
      BY <2>2, <2>3, WayFactors DEF Positive
    <3>4. z.acc = Times(z.acc, y.acc)
      BY <3>2, <3>3, TimesOne
    <3> QED BY <2>2, <2>3, <2>4, <3>2, <3>4 DEF Parts
  <2> QED BY <1>1, <2>2, <2>3, <2>4, <2>6, <2>7
<1>4. Ways(g, s) \subseteq X
  BY <1>0, <1>2, <1>3, WaysInduct
<1> QED BY <1>1, <1>4

\* Any two ways between two nodes have one factor.
Agrees(g) == \A a \in Nodes(g) : \A v, w \in Ways(g, a) : Last(v.hops) = Last(w.hops) => v.acc = w.acc

\* Then the factors are a potential: a way there and a way on are worth any way through.
LEMMA Potential ==
    ASSUME NEW g, Charted(g), Agrees(g), NEW s \in Nodes(g), NEW v \in Ways(g, s)
    PROVE  /\ Last(v.hops) \in Nodes(g)
           /\ \A l \in Ways(g, Last(v.hops)), r \in Ways(g, s) :
                 Last(l.hops) = Last(r.hops) => r.acc = Times(v.acc, l.acc)
<1>0. Joined(g)
  BY ChartedJoined
<1>1. PICK e : e = Last(v.hops)
  OBVIOUS
<1>2. e \in Nodes(g)
  <2>1. IsWay(g, v)
    BY <1>0, WaysTyped
  <2> QED BY <1>1, <2>1, LastIs DEF IsWay
<1> DEFINE Met(l) == \E r \in Ways(g, s) : Last(r.hops) = Last(l.hops) /\ r.acc = Times(v.acc, l.acc)
<1>3. PICK X : X = {l \in Ways(g, e) : Met(l)}
  OBVIOUS
<1>4. IsFraction(v.acc)
  BY WayFactors DEF Positive
<1>5. Here(e) \in X
  <2>1. PICK y : y = Here(e)
    OBVIOUS
  <2>2. y \in Ways(g, e) /\ Last(y.hops) = e /\ y.acc = One
    BY <1>0, <1>2, <2>1, WaysBegin, HereIs
  <2>3. v.acc = Times(v.acc, y.acc)
    BY <1>4, <2>2, TimesOne
  <2> QED BY <1>1, <1>3, <2>1, <2>2, <2>3
<1>6. ASSUME NEW l \in X, NEW h \in Opens(g, l) PROVE Along(l, h) \in X
  <2>1. PICK z : z = Along(l, h)
    OBVIOUS
  <2>2. l \in Ways(g, e) /\ IsWay(g, l) /\ z \in Ways(g, e)
    BY <1>0, <1>2, <1>3, <2>1, WaysTyped, WaysGoOn
  <2>3. Last(z.hops) = h.to /\ z.acc = Times(l.acc, h.f)
    BY <1>0, <2>1, <2>2, AlongIs
  <2>4. PICK r \in Ways(g, s) : Last(r.hops) = Last(l.hops) /\ r.acc = Times(v.acc, l.acc)
    BY <1>3
  <2>5. h \in g /\ h.at = Last(l.hops) /\ h.to \notin ToSet(l.hops) /\ Positive(h.f) /\ h.to \in Nodes(g)
    BY <1>0 DEF Opens, Joined, Charted
  <2>6. IsFraction(l.acc) /\ IsFraction(r.acc) /\ IsFraction(h.f) /\ IsWay(g, r)
    BY <1>0, <1>2, <2>2, <2>5, WayFactors, WaysTyped DEF Positive
  <2>7. Times(r.acc, h.f) = Times(v.acc, z.acc)
    BY <1>4, <2>3, <2>4, <2>6, TimesAssociates
  <2>8. CASE h.to \notin ToSet(r.hops)
    <3>1. h \in Opens(g, r)
      BY <2>4, <2>5, <2>8 DEF Opens
    <3>2. PICK y : y = Along(r, h)
      OBVIOUS
    <3>3. y \in Ways(g, s) /\ Last(y.hops) = h.to /\ y.acc = Times(r.acc, h.f)
      BY <1>0, <2>6, <3>1, <3>2, WaysGoOn, AlongIs
    <3>4. Met(z)
      BY <2>3, <2>7, <3>3
    <3> QED BY <1>3, <2>1, <2>2, <3>4
  <2>9. CASE h.to \in ToSet(r.hops)
    <3>1. Parts(g, s, r, h.to)
      BY <2>9, WaysPart
    <3>2. PICK p \in Ways(g, s) : \E q \in Ways(g, h.to) :
             /\ Last(p.hops) = h.to /\ Last(q.hops) = Last(r.hops) /\ ToSet(q.hops) \subseteq ToSet(r.hops)
             /\ r.acc = Times(p.acc, q.acc)
      BY <3>1 DEF Parts
    <3>3. PICK q \in Ways(g, h.to) :
             /\ Last(p.hops) = h.to /\ Last(q.hops) = Last(r.hops) /\ ToSet(q.hops) \subseteq ToSet(r.hops)
             /\ r.acc = Times(p.acc, q.acc)
      BY <3>2
    <3>4. PICK b \in g : b.at = h.to /\ b.to = h.at /\ b.f = Inv(h.f)
      BY <2>5 DEF Charted
    <3>5. PICK y : y = Here(h.to)
      OBVIOUS
    <3>6. y \in Ways(g, h.to) /\ IsWay(g, y) /\ Last(y.hops) = h.to /\ ToSet(y.hops) = {h.to} /\ y.acc = One
      BY <1>0, <2>5, <3>5, WaysBegin, HereIs
    <3>7. b.to \notin {h.to}
      <4>1. Last(l.hops) \in ToSet(l.hops)
        BY <2>2, LastIs DEF IsWay
      <4> QED BY <2>5, <3>4, <4>1
    <3>8. b \in Opens(g, y)
      BY <3>4, <3>6, <3>7 DEF Opens
    <3>9. PICK x : x = Along(y, b)
      OBVIOUS
    <3>10. x \in Ways(g, h.to) /\ Last(x.hops) = b.to /\ x.acc = Times(One, b.f)
      BY <1>0, <2>5, <3>6, <3>8, <3>9, WaysGoOn, AlongIs
    <3>11. q.acc = x.acc
      BY <2>4, <2>5, <3>3, <3>4, <3>10 DEF Agrees
    <3>12. Num(h.f) # 0 /\ Positive(Inv(h.f))
      <4>1. Num(h.f) \in Int
        BY <2>6, FractionParts
      <4> QED BY <2>5, <4>1, InvPositive DEF Positive
    <3>13. q.acc = Inv(h.f)
      BY <3>4, <3>10, <3>11, <3>12, TimesOne DEF Positive
    <3>14. Times(q.acc, h.f) = One
      BY <2>6, <3>12, <3>13, TimesInverse
    <3>15. IsFraction(p.acc) /\ IsFraction(q.acc)
      BY <3>12, <3>13, WayFactors DEF Positive
    <3>16. Times(r.acc, h.f) = Times(p.acc, One)
      BY <2>6, <3>3, <3>14, <3>15, TimesAssociates
    <3>17. p.acc = Times(v.acc, z.acc)
      BY <2>7, <3>15, <3>16, TimesOne
    <3>18. Met(z)
      BY <2>3, <3>3, <3>17
    <3> QED BY <1>3, <2>1, <2>2, <3>18
  <2> QED BY <2>8, <2>9
<1>7. Ways(g, e) \subseteq X
  BY <1>0, <1>5, <1>6, WaysInduct
<1>8. ASSUME NEW l \in Ways(g, e), NEW r \in Ways(g, s), Last(l.hops) = Last(r.hops) PROVE r.acc = Times(v.acc, l.acc)
  <2>1. PICK y \in Ways(g, s) : Last(y.hops) = Last(l.hops) /\ y.acc = Times(v.acc, l.acc)
    BY <1>3, <1>7
  <2> QED BY <1>8, <2>1 DEF Agrees
<1> QED BY <1>1, <1>2, <1>8

\* compare, in a common unit: converted there, the difference of the two values has the sign.
LEMMA ComparisonIs ==
    ASSUME NEW r, IsFraction(r.value), IsFraction(r.other), NEW a, Positive(a), NEW l, Positive(l)
    PROVE  Comparison(r, a) = Sign(Minus(Times(r.value, l), Times(r.other, Times(a, l))))
<1>1. PICK v, o : v = r.value /\ o = r.other /\ IsFraction(v) /\ IsFraction(o)
  OBVIOUS
<1>2. PICK c : c = Times(o, a)
  OBVIOUS
<1>3. IsFraction(c) /\ Times(o, Times(a, l)) = Times(c, l)
  BY <1>1, <1>2, TimesOfFractions, TimesAssociates DEF Positive
<1>4. PICK p \in Int, q \in Nat \ {0} : p = Num(v) /\ q = Den(v)
  BY <1>1, FractionParts
<1>5. PICK m \in Int, n \in Nat \ {0} : m = Num(c) /\ n = Den(c)
  BY <1>3, FractionParts
<1>6. PICK e \in Nat \ {0}, f \in Nat \ {0} : e = Num(l) /\ f = Den(l)
  BY FractionParts DEF Positive
<1>7. Represents(v, p, q) /\ Represents(c, m, n) /\ Represents(l, e, f)
  BY <1>1, <1>3, <1>4, <1>5, <1>6, Itself DEF Positive
<1>8. Represents(Times(v, l), p * e, q * f) /\ Represents(Times(c, l), m * e, n * f)
  BY <1>7, TimesIs
<1>9. Represents(Neg(Times(c, l)), -(m * e), n * f)
  BY <1>8, NegIs
<1>10. PICK x : x = Minus(Times(v, l), Times(c, l))
  OBVIOUS
<1>11. Represents(x, (p * e) * (n * f) + (-(m * e)) * (q * f), (q * f) * (n * f))
  BY <1>8, <1>9, <1>10, PlusIs DEF Minus
<1>12. PICK y \in Int, z \in Int, k \in Nat \ {0} : y = p * n /\ z = m * q /\ k = e * f
  <2>1. e * f \in Nat \ {0}
    BY ONLY <1>6
  <2> QED BY <2>1
<1>13. PICK d \in Int : d = (q * f) * (n * f) /\ d > 0
  <2>1. q * f \in Nat \ {0} /\ n * f \in Nat \ {0}
    OBVIOUS
  <2>2. PICK i \in Nat \ {0}, j \in Nat \ {0} : i = q * f /\ j = n * f
    BY <2>1
  <2>3. i * j \in Nat \ {0}
    OBVIOUS
  <2> QED BY <2>2, <2>3
<1>14. (p * e) * (n * f) = y * k
  BY <1>12
<1>15. (-(m * e)) * (q * f) = -(z * k)
  BY <1>12
<1>16. Represents(x, y * k + -(z * k), d)
  BY <1>11, <1>13, <1>14, <1>15
<1>17. Sign(x) = SignOf(y * k + -(z * k))
  BY <1>13, <1>16, SignIs
<1>18. y * k + -(z * k) = (y - z) * k
  OBVIOUS
<1>19. PICK w \in Int : w = y - z
  OBVIOUS
<1>20. SignOf(w * k) = SignOf(w)
  <2>1. CASE w > 0
    <3>1. w * k > 0
      BY <2>1
    <3> QED BY <2>1, <3>1 DEF SignOf
  <2>2. CASE w < 0
    <3>1. PICK u \in Nat \ {0} : u = -w
      BY <2>2
    <3>2. u * k > 0 /\ w * k = -(u * k)
      BY <3>1
    <3> QED BY <2>2, <3>2 DEF SignOf
  <2>3. CASE w = 0
    <3>1. w * k = 0
      BY <2>3
    <3> QED BY <2>3, <3>1 DEF SignOf
  <2> QED BY <2>1, <2>2, <2>3
<1>21. Sign(x) = SignOf(w)
  BY <1>17, <1>18, <1>19, <1>20
<1>22. v = c <=> w = 0
  <2>1. ASSUME w = 0 PROVE v = c
    <3>1. Num(v) * Den(c) = Num(c) * Den(v)
      BY <2>1, <1>4, <1>5, <1>12, <1>19
    <3> QED BY <3>1, <1>1, <1>3, OneFraction
  <2>2. ASSUME v = c PROVE w = 0
    BY <2>2, <1>4, <1>5, <1>12, <1>19
  <2> QED BY <2>1, <2>2
<1>23. Less(c, v) <=> w > 0
  BY <1>4, <1>5, <1>12, <1>19 DEF Less
<1>24. Comparison(r, a) = IF v = c THEN 0 ELSE IF Less(c, v) THEN 1 ELSE -1
  BY <1>1, <1>2 DEF Comparison
<1>25. Comparison(r, a) = SignOf(w)
  BY <1>22, <1>23, <1>24 DEF SignOf
<1> QED BY <1>1, <1>3, <1>10, <1>21, <1>25

-----------------------------------------------------------------------------
\* The two edges of an entry.
Forth(i) == [place |-> 2 * i, at |-> edges[i].a, to |-> edges[i].b, f |-> edges[i].f]
Back(i) == [place |-> 2 * i + 1, at |-> edges[i].b, to |-> edges[i].a, f |-> Inv(edges[i].f)]

\* A table's entries have factors above zero.
LEMMA TableIs == ASSUME edges \in Tables
                 PROVE  /\ Len(edges) \in Nat \ {0} /\ DOMAIN edges = 1 .. Len(edges) /\ IsFiniteSet(DOMAIN edges)
                        /\ \A i \in DOMAIN edges : Positive(edges[i].f) /\ i \in Nat
<1>1. edges \in Seq({edges[i] : i \in DOMAIN edges}) /\ edges # << >>
  BY TablesAssumption
<1>2. Len(edges) \in Nat \ {0} /\ DOMAIN edges = 1 .. Len(edges)
  BY <1>1, EmptySeq, LenProperties
<1>3. \A i \in DOMAIN edges : Positive(edges[i].f)
  BY TablesAssumption, LowestTerms DEF Positive
<1> QED BY <1>2, <1>3, FS_Interval

\* What _graph makes of some entries is a graph as above, and part of the whole.
LEMMA RebuildIs ==
    ASSUME edges \in Tables, NEW S \in SUBSET DOMAIN edges
    PROVE  /\ Rebuild(S) = {Forth(i) : i \in S} \cup {Back(i) : i \in S}
           /\ Rebuild(S) \subseteq Whole /\ Charted(Rebuild(S))
<1>0. Rebuild(S) = {Forth(i) : i \in S} \cup {Back(i) : i \in S} /\ Whole = {Forth(i) : i \in DOMAIN edges} \cup {Back(i) : i \in DOMAIN edges}
  BY DEF Rebuild, Whole, Forth, Back
<1>1. PICK g : g = Rebuild(S)
  OBVIOUS
<1>2. \A h \in g : \E i \in S : h = Forth(i) \/ h = Back(i)
  BY <1>0, <1>1
<1>3. IsFiniteSet(g)
  <2>1. IsFiniteSet(S)
    BY TableIs, FS_Subset
  <2>2. PICK a, b : a = [i \in S |-> Forth(i)] /\ b = [i \in S |-> Back(i)]
    OBVIOUS
  <2>3. a \in Surjection(S, {Forth(i) : i \in S}) /\ b \in Surjection(S, {Back(i) : i \in S})
    BY <2>2 DEF Surjection
  <2>4. IsFiniteSet({Forth(i) : i \in S}) /\ IsFiniteSet({Back(i) : i \in S})
    BY <2>1, <2>3, FS_Surjection
  <2> QED BY <1>0, <1>1, <2>4, FS_Union
<1>4. ASSUME NEW i \in S
      PROVE  /\ Forth(i).place = 2 * i /\ Forth(i).at = edges[i].a /\ Forth(i).to = edges[i].b /\ Forth(i).f = edges[i].f
             /\ Back(i).place = 2 * i + 1 /\ Back(i).at = edges[i].b /\ Back(i).to = edges[i].a /\ Back(i).f = Inv(edges[i].f)
             /\ i \in Nat /\ Positive(edges[i].f) /\ Positive(Inv(edges[i].f)) /\ Inv(Inv(edges[i].f)) = edges[i].f
  BY TableIs, InvPositive, InvTwice DEF Forth, Back
<1>5. ASSUME NEW h \in g PROVE h.place \in Nat /\ Positive(h.f) /\ \E e \in g : e.at = h.to /\ e.to = h.at /\ e.f = Inv(h.f)
  <2>1. PICK i \in S : h = Forth(i) \/ h = Back(i)
    BY <1>2
  <2>2. Forth(i) \in g /\ Back(i) \in g
    BY <1>0, <1>1
  <2>3. h.place \in Nat /\ Positive(h.f)
    BY <1>4, <2>1
  <2>4. CASE h = Forth(i)
    <3>1. Back(i).at = h.to /\ Back(i).to = h.at /\ Back(i).f = Inv(h.f)
      BY <1>4, <2>4
    <3> QED BY <2>2, <2>3, <3>1
  <2>5. CASE h = Back(i)
    <3>1. Forth(i).at = h.to /\ Forth(i).to = h.at /\ Forth(i).f = Inv(h.f)
      BY <1>4, <2>5
    <3> QED BY <2>2, <2>3, <3>1
  <2> QED BY <2>1, <2>4, <2>5
<1>6. ASSUME NEW h \in g, NEW e \in g, h.place = e.place PROVE h = e
  <2>1. PICK i \in S : h = Forth(i) \/ h = Back(i)
    BY <1>2
  <2>2. PICK j \in S : e = Forth(j) \/ e = Back(j)
    BY <1>2
  <2>3. i \in Nat /\ j \in Nat
    BY <1>4
  <2>4. CASE h = Forth(i) /\ e = Forth(j)
    <3>1. 2 * i = 2 * j
      BY <1>4, <1>6, <2>4
    <3> QED BY <2>3, <2>4, <3>1
  <2>5. CASE h = Forth(i) /\ e = Back(j)
    <3>1. 2 * i = 2 * j + 1
      BY <1>4, <1>6, <2>5
    <3> QED BY <2>3, <3>1
  <2>6. CASE h = Back(i) /\ e = Forth(j)
    <3>1. 2 * i + 1 = 2 * j
      BY <1>4, <1>6, <2>6
    <3> QED BY <2>3, <3>1
  <2>7. CASE h = Back(i) /\ e = Back(j)
    <3>1. 2 * i + 1 = 2 * j + 1
      BY <1>4, <1>6, <2>7
    <3> QED BY <2>3, <2>7, <3>1
  <2> QED BY <2>1, <2>2, <2>4, <2>5, <2>6, <2>7
<1>7. Charted(g)
  BY <1>3, <1>5, <1>6 DEF Charted
<1>8. g \subseteq Whole
  BY <1>0, <1>1
<1> QED BY <1>0, <1>1, <1>7, <1>8

-----------------------------------------------------------------------------
\* The edges a node is left by: the first to each neighbour not seen.
Fresh(node, seen) == {h \in graph : h.at = node /\ h.to \notin seen}

\* They are finitely many, one to each neighbour not seen.
LEMMA NewFromIs ==
    ASSUME Charted(graph), NEW node, NEW seen
    PROVE  /\ NewFrom(node, seen) \subseteq Fresh(node, seen) /\ IsFiniteSet(NewFrom(node, seen))
           /\ \A e, h \in NewFrom(node, seen) : e.to = h.to => e = h
           /\ \A e \in Fresh(node, seen) : \E h \in NewFrom(node, seen) : h.to = e.to
<1>1. PICK F : F = Fresh(node, seen)
  OBVIOUS
<1>2. PICK N : N = NewFrom(node, seen) /\ N = {h \in F : \A e \in F : e.to = h.to => h.place <= e.place}
  BY <1>1 DEF NewFrom, Fresh
<1>3. F \subseteq graph /\ \A h \in graph : h.place \in Nat
  BY <1>1 DEF Fresh, Charted
<1>4. IsFiniteSet(N)
  BY <1>2, <1>3, FS_Subset DEF Charted
<1>5. ASSUME NEW e \in N, NEW h \in N, e.to = h.to PROVE e = h
  <2>1. e.place = h.place
    BY <1>2, <1>3, <1>5
  <2> QED BY <1>2, <1>3, <2>1 DEF Charted
<1>6. ASSUME NEW e \in F PROVE \E h \in N : h.to = e.to
  <2>1. PICK P \in SUBSET Nat : P = {h.place : h \in {x \in F : x.to = e.to}}
    BY <1>3
  <2>2. P # {}
    BY <2>1
  <2>3. PICK p \in P : \A y \in P : p <= y
    BY <2>2, SmallestNat
  <2>4. PICK h \in F : h.to = e.to /\ h.place = p
    BY <2>1
  <2>5. \A x \in F : x.to = h.to => h.place <= x.place
    BY <2>1, <2>3, <2>4
  <2> QED BY <1>2, <2>4, <2>5
<1> QED BY <1>1, <1>2, <1>4, <1>5, <1>6

\* In the order of their places they are a list of their ends, each of them in it.
LEMMA InOrderIs ==
    ASSUME Charted(graph), NEW N \in SUBSET graph
    PROVE  InOrder(N) \in Seq({h.to : h \in N}) /\ ToSet(InOrder(N)) = {h.to : h \in N}
<1>1. IsFiniteSet(N)
  BY FS_Subset DEF Charted
<1>2. PICK n \in Nat : n = Cardinality(N)
  BY <1>1, FS_CardinalityType
<1>3. PICK L : L = {x \in N \X N : x[1].place < x[2].place}
  OBVIOUS
<1>4. StrictOrder(L, N)
  <2>1. \A h \in N : h.place \in Nat
    BY DEF Charted
  <2>2. \A x, y \in N : <<x, y>> \in L <=> x.place < y.place
    BY <1>3
  <2>3. \A x, y \in N : x # y => x.place # y.place
    BY DEF Charted
  <2> QED BY <2>1, <2>2, <2>3 DEF StrictOrder
<1>5. \A h \in N : PlaceOf(L, N, h) = Cardinality({e \in N : e.place < h.place})
  <2>1. ASSUME NEW h \in N PROVE {e \in N : <<e, h>> \in L} = {e \in N : e.place < h.place}
    BY <1>3
  <2> QED BY <2>1 DEF PlaceOf
<1>6. \A k \in 0 .. n - 1 : \E h \in N : Cardinality({e \in N : e.place < h.place}) = k
  BY <1>1, <1>2, <1>4, <1>5, PlacesAre
<1>7. \A h \in N : Cardinality({e \in N : e.place < h.place}) \in 0 .. n - 1
  BY <1>1, <1>2, <1>4, <1>5, PlacesAre
<1>8. \A h, e \in N : Cardinality({x \in N : x.place < h.place}) = Cardinality({x \in N : x.place < e.place}) => h = e
  <2>1. ASSUME NEW h \in N, NEW e \in N, Cardinality({x \in N : x.place < h.place}) = Cardinality({x \in N : x.place < e.place})
        PROVE  h = e
    <3>1. PlaceOf(L, N, h) = PlaceOf(L, N, e)
      BY <1>5, <2>1
    <3> QED BY <1>1, <1>4, <3>1, PlacesAre
  <2> QED BY <2>1
<1>9. PICK q : q = InOrder(N)
  OBVIOUS
<1>10. q = [k \in 1 .. n |-> (CHOOSE h \in N : Cardinality({e \in N : e.place < h.place}) = k - 1).to]
  BY <1>2, <1>9 DEF InOrder
<1>11. ASSUME NEW k \in 1 .. n
       PROVE  \E h \in N : Cardinality({e \in N : e.place < h.place}) = k - 1 /\ q[k] = h.to
  <2>1. k - 1 \in 0 .. n - 1
    OBVIOUS
  <2>2. \E h \in N : Cardinality({e \in N : e.place < h.place}) = k - 1
    BY <1>6, <2>1
  <2>3. PICK h : h = CHOOSE x \in N : Cardinality({e \in N : e.place < x.place}) = k - 1
    OBVIOUS
  <2>4. h \in N /\ Cardinality({e \in N : e.place < h.place}) = k - 1
    BY <2>2, <2>3, Zenon
  <2>5. q[k] = h.to
    BY <1>10, <2>3
  <2> QED BY <2>4, <2>5
<1>12. PICK T : T = {h.to : h \in N}
  OBVIOUS
<1>13. q \in Seq(T)
  <2>1. q \in [1 .. n -> T]
    BY <1>10, <1>11, <1>12
  <2> QED BY <2>1 DEF Seq
<1>14. Len(q) = n
  BY <1>10, <1>13, LenProperties
<1>15. ToSet(q) = {q[i] : i \in 1 .. n}
  BY <1>13, <1>14, Elements
<1>16. ASSUME NEW h \in N PROVE h.to \in ToSet(q)
  <2>1. PICK k \in 1 .. n : Cardinality({e \in N : e.place < h.place}) = k - 1
    <3>1. PICK c \in 0 .. n - 1 : c = Cardinality({e \in N : e.place < h.place})
      BY <1>7
    <3>2. c + 1 \in 1 .. n /\ c = (c + 1) - 1
      OBVIOUS
    <3> QED BY <3>1, <3>2
  <2>2. PICK e \in N : Cardinality({x \in N : x.place < e.place}) = k - 1 /\ q[k] = e.to
    BY <1>11
  <2>3. h = e
    BY <1>8, <2>1, <2>2
  <2> QED BY <1>15, <2>2, <2>3
<1>17. ToSet(q) = T
  <2>1. ToSet(q) \subseteq T
    BY <1>13, Elements
  <2> QED BY <1>12, <1>16, <2>1
<1> QED BY <1>9, <1>12, <1>13, <1>17

-----------------------------------------------------------------------------
(* Units: a breadth-first walk. *)

\* What a walk has found: to each node a way, over nodes it has found.
WayMap(G, s, F) ==
    /\ s \in DOMAIN F
    /\ \A n \in DOMAIN F : F[n] \in Ways(G, s) /\ Last(F[n].hops) = n /\ ToSet(F[n].hops) \subseteq DOMAIN F
Deep(F, n) == Len(F[n].hops)

\* When nothing changes under it: what left the queue leads nowhere new, each way is a
\* shortest, and the queue is in the order of their lengths, which differ by one at most.
Spent(G, F, Q) == \A n \in DOMAIN F : n \notin ToSet(Q) => \A h \in G : h.at = n => h.to \in DOMAIN F
ShortestIn(G, s, F) == \A n \in DOMAIN F : \A w \in Ways(G, s) : Last(w.hops) = n => Deep(F, n) <= Len(w.hops)
Levels(F, Q) == \A i, j \in DOMAIN Q : i <= j => Deep(F, Q[i]) <= Deep(F, Q[j]) /\ Deep(F, Q[j]) <= Deep(F, Q[i]) + 1
Bfs(G, s, F, Q) == Spent(G, F, Q) /\ ShortestIn(G, s, F) /\ Levels(F, Q)

\* The edges from a node to others, one to each.
Leaving(G, m, S) == {h \in G : h.at = m /\ h.to \notin S}
Single(N) == \A e, h \in N : e.to = h.to => e = h
EndsAt(N) == {h.to : h \in N}
Onwards(G, m, S, N) == N \subseteq Leaving(G, m, S) /\ Single(N)
Gained(F, m, N) ==
    [n \in DOMAIN F \cup EndsAt(N) |-> IF n \in DOMAIN F THEN F[n] ELSE Onward(F[m], CHOOSE h \in N : h.to = n)]

Grown(G, s, F, m, N, R) ==
    /\ DOMAIN R = DOMAIN F \cup EndsAt(N) /\ \A n \in DOMAIN F : R[n] = F[n]
    /\ \A n \in EndsAt(N) : n \notin DOMAIN F /\ Deep(R, n) = Deep(F, m) + 1
    /\ WayMap(G, s, R)

\* What a walk has found for a node is a way to it.
LEMMA DeepIs ==
    ASSUME NEW G, Joined(G), NEW s \in Nodes(G), NEW F, WayMap(G, s, F), NEW n \in DOMAIN F
    PROVE  Deep(F, n) \in Nat \ {0} /\ n \in Nodes(G) /\ IsWay(G, F[n])
<1>1. IsWay(G, F[n]) /\ Last(F[n].hops) = n
  BY WaysTyped DEF WayMap
<1>2. Len(F[n].hops) \in Nat \ {0} /\ n \in Nodes(G)
  BY <1>1, LastIs DEF IsWay
<1> QED BY <1>1, <1>2 DEF Deep

\* A node's neighbours get the node's way gone on with.
LEMMA GainedIs ==
    ASSUME NEW G, Joined(G), NEW s \in Nodes(G), NEW F, WayMap(G, s, F), NEW m \in DOMAIN F,
           NEW N, Onwards(G, m, DOMAIN F, N), NEW R, R = Gained(F, m, N)
    PROVE  Grown(G, s, F, m, N, R)
<1>1. DOMAIN R = DOMAIN F \cup EndsAt(N) /\ \A n \in DOMAIN F : R[n] = F[n]
  BY DEF Gained
<1>2. ASSUME NEW n \in EndsAt(N)
      PROVE  /\ n \notin DOMAIN F /\ Len(R[n].hops) = Len(F[m].hops) + 1 /\ R[n] \in Ways(G, s) /\ Last(R[n].hops) = n
             /\ ToSet(R[n].hops) \subseteq DOMAIN R
  <2>1. PICK h \in N : h.to = n
    BY DEF EndsAt
  <2>2. (CHOOSE e \in N : e.to = n) = h
    BY <2>1 DEF Onwards, Single
  <2>3. n \notin DOMAIN F
    BY <2>1 DEF Onwards, Leaving
  <2>4. R[n] = Onward(F[m], h)
    BY <2>2, <2>3 DEF Gained
  <2>5. PICK w : w = F[m]
    OBVIOUS
  <2>6. R[n] = Along(w, h)
    BY <2>4, <2>5 DEF Onward, Along
  <2>7. w \in Ways(G, s) /\ Last(w.hops) = m /\ ToSet(w.hops) \subseteq DOMAIN F /\ IsWay(G, w)
    BY <2>5, DeepIs DEF WayMap
  <2>8. h \in Opens(G, w)
    BY <2>1, <2>3, <2>7 DEF Opens, Onwards, Leaving
  <2>9. PICK z : z = Along(w, h)
    OBVIOUS
  <2>10. z \in Ways(G, s) /\ Len(z.hops) = Len(w.hops) + 1 /\ Last(z.hops) = h.to /\ ToSet(z.hops) = ToSet(w.hops) \cup {h.to}
    BY <2>7, <2>8, <2>9, WaysGoOn, AlongIs
  <2> QED BY <1>1, <2>1, <2>3, <2>5, <2>6, <2>7, <2>9, <2>10
<1>3. WayMap(G, s, R)
  <2>1. s \in DOMAIN R
    BY <1>1 DEF WayMap
  <2>2. ASSUME NEW n \in DOMAIN F PROVE R[n] \in Ways(G, s) /\ Last(R[n].hops) = n /\ ToSet(R[n].hops) \subseteq DOMAIN R
    BY <1>1 DEF WayMap
  <2> QED BY <1>1, <1>2, <2>1, <2>2 DEF WayMap
<1> QED BY <1>1, <1>2, <1>3 DEF Deep, Grown

\* A walk begins as a breadth-first one.
LEMMA WalkBegins ==
    ASSUME NEW G, Joined(G), NEW s \in Nodes(G), NEW F, F = [n \in {s} |-> Here(n)], NEW Q, Q = <<s>>
    PROVE  WayMap(G, s, F) /\ Bfs(G, s, F, Q) /\ Q \in Seq(DOMAIN F)
<1>1. DOMAIN F = {s} /\ F[s] = Here(s)
  OBVIOUS
<1>2. PICK z : z = Here(s)
  OBVIOUS
<1>3. z \in Ways(G, s) /\ Len(z.hops) = 1 /\ Last(z.hops) = s /\ ToSet(z.hops) = {s}
  BY <1>2, WaysBegin, HereIs
<1>4. Q \in Seq({s}) /\ Len(Q) = 1 /\ DOMAIN Q = 1 .. 1 /\ Q[1] = s
  OBVIOUS
<1>5. ToSet(Q) = {s}
  <2>0. Q \in Seq({s})
    BY <1>4
  <2>1. ToSet(Q) = {Q[i] : i \in 1 .. Len(Q)}
    BY ONLY <2>0, Elements
  <2>2. {Q[i] : i \in 1 .. 1} = {s}
    BY <1>4
  <2> QED BY <1>4, <2>1, <2>2
<1>6. WayMap(G, s, F)
  BY <1>1, <1>2, <1>3 DEF WayMap
<1>7. Spent(G, F, Q)
  BY <1>1, <1>5 DEF Spent
<1>8. ShortestIn(G, s, F)
  <2>1. ASSUME NEW w \in Ways(G, s) PROVE 1 <= Len(w.hops)
    <3>1. IsWay(G, w)
      BY WaysTyped
    <3>2. Len(w.hops) \in Nat \ {0}
      BY <3>1, LastIs DEF IsWay
    <3> QED BY <3>2
  <2> QED BY <1>1, <1>2, <1>3, <2>1 DEF ShortestIn, Deep
<1>9. Levels(F, Q)
  <2>1. Deep(F, s) = 1
    BY <1>1, <1>2, <1>3 DEF Deep
  <2> QED BY <1>4, <2>1 DEF Levels
<1> QED BY <1>1, <1>4, <1>6, <1>7, <1>8, <1>9 DEF Bfs

\* A way to what is not found goes through the queue.
LEMMA Nearest ==
    ASSUME NEW G, Joined(G), NEW s \in Nodes(G), NEW F, WayMap(G, s, F), NEW Q \in Seq(DOMAIN F), Bfs(G, s, F, Q),
           NEW w \in Ways(G, s), Last(w.hops) \notin DOMAIN F
    PROVE  Q # << >> /\ Deep(F, Head(Q)) + 1 <= Len(w.hops)
<1>1. PICK S : S = DOMAIN F /\ s \in S
  BY DEF WayMap
<1>2. Leaves(G, s, S, Len(w.hops))
  BY <1>1, WayOut
<1>3. PICK p \in Ways(G, s) : \E h \in Opens(G, p) : Last(p.hops) \in S /\ h.to \notin S /\ Len(p.hops) < Len(w.hops)
  BY <1>2 DEF Leaves
<1>4. PICK h \in Opens(G, p) : Last(p.hops) \in S /\ h.to \notin S /\ Len(p.hops) < Len(w.hops)
  BY <1>3
<1>5. PICK n \in S : n = Last(p.hops)
  BY <1>4
<1>6. h \in G /\ h.at = n
  BY <1>5 DEF Opens
<1>7. n \in ToSet(Q)
  BY <1>1, <1>4, <1>6 DEF Bfs, Spent
<1>8. Len(Q) \in Nat /\ DOMAIN Q = 1 .. Len(Q) /\ ToSet(Q) = {Q[i] : i \in 1 .. Len(Q)} /\ \A i \in 1 .. Len(Q) : Q[i] \in DOMAIN F
  BY Elements, ElementOfSeq
<1>9. PICK j \in 1 .. Len(Q) : Q[j] = n
  BY <1>7, <1>8
<1>10. 1 \in DOMAIN Q /\ j \in DOMAIN Q /\ 1 <= j /\ Q # << >>
  BY <1>8, <1>9, EmptySeq
<1>11. Deep(F, Q[1]) <= Deep(F, n)
  BY <1>9, <1>10 DEF Bfs, Levels
<1>12. Deep(F, n) <= Len(p.hops)
  BY <1>1, <1>5 DEF Bfs, ShortestIn
<1>13. PICK a, b, c, d : a = Deep(F, Q[1]) /\ b = Deep(F, n) /\ c = Len(p.hops) /\ d = Len(w.hops)
  OBVIOUS
<1>14. a \in Nat /\ b \in Nat
  BY <1>1, <1>8, <1>10, <1>13, DeepIs
<1>15. c \in Nat /\ d \in Nat
  <2>1. IsWay(G, p) /\ IsWay(G, w)
    BY WaysTyped
  <2> QED BY <1>13, <2>1, LenProperties DEF IsWay
<1>16. a + 1 <= d
  BY <1>4, <1>11, <1>12, <1>13, <1>14, <1>15
<1>17. Head(Q) = Q[1]
  BY <1>10 DEF Head
<1> QED BY <1>10, <1>13, <1>16, <1>17

\* Queues: taking the first and adding at the end.
LEMMA ConcatIs ==
    ASSUME NEW T, NEW p \in Seq(T), NEW q \in Seq(T)
    PROVE  /\ p \o q \in Seq(T) /\ Len(p \o q) = Len(p) + Len(q) /\ ToSet(p \o q) = ToSet(p) \cup ToSet(q)
           /\ \A i \in 1 .. Len(p) + Len(q) : (p \o q)[i] = IF i <= Len(p) THEN p[i] ELSE q[i - Len(p)]
<1>1. PICK r : r = p \o q
  OBVIOUS
<1>2. r \in Seq(T) /\ Len(r) = Len(p) + Len(q) /\ \A i \in 1 .. Len(p) + Len(q) : r[i] = IF i <= Len(p) THEN p[i] ELSE q[i - Len(p)]
  BY <1>1, ConcatProperties
<1>3. PICK m \in Nat, n \in Nat : m = Len(p) /\ n = Len(q)
  BY LenProperties
<1>4. ToSet(r) = {r[i] : i \in 1 .. m + n} /\ ToSet(p) = {p[i] : i \in 1 .. m} /\ ToSet(q) = {q[i] : i \in 1 .. n}
  BY <1>2, <1>3, Elements
<1>5. ASSUME NEW i \in 1 .. m + n PROVE r[i] \in ToSet(p) \cup ToSet(q)
  <2>1. CASE i <= m
    <3>1. i \in 1 .. m /\ r[i] = p[i]
      BY <1>2, <1>3, <2>1
    <3>2. p[i] \in {p[k] : k \in 1 .. m}
      BY <3>1
    <3>3. p[i] \in ToSet(p)
      BY ONLY <1>4, <3>2
    <3> QED BY ONLY <3>1, <3>3
  <2>2. CASE ~(i <= m)
    <3>0. i - m \in 1 .. n /\ i \in 1 .. Len(p) + Len(q) /\ ~(i <= Len(p)) /\ Len(p) = m
      BY ONLY <1>3, <2>2
    <3>1. i - m \in 1 .. n /\ r[i] = q[i - m]
      BY ONLY <1>2, <3>0
    <3>2. q[i - m] \in {q[k] : k \in 1 .. n}
      BY <3>1
    <3>3. q[i - m] \in ToSet(q)
      BY ONLY <1>4, <3>2
    <3> QED BY ONLY <3>1, <3>3
  <2> QED BY <2>1, <2>2
<1>6. ASSUME NEW i \in 1 .. m PROVE p[i] \in ToSet(r)
  <2>1. i \in 1 .. m + n /\ r[i] = p[i]
    BY <1>2, <1>3
  <2> QED BY <1>4, <2>1
<1>7. ASSUME NEW i \in 1 .. n PROVE q[i] \in ToSet(r)
  <2>1. m + i \in 1 .. m + n /\ ~(m + i <= m) /\ (m + i) - m = i
    OBVIOUS
  <2>2. r[m + i] = q[i]
    BY <1>2, <1>3, <2>1
  <2> QED BY <1>4, <2>1, <2>2
<1>8. ToSet(r) = ToSet(p) \cup ToSet(q)
  BY <1>4, <1>5, <1>6, <1>7
<1> QED BY <1>1, <1>2, <1>8

LEMMA RestIs ==
    ASSUME NEW T, NEW q \in Seq(T), q # << >>
    PROVE  /\ Tail(q) \in Seq(T) /\ Len(Tail(q)) = Len(q) - 1 /\ ToSet(q) = {Head(q)} \cup ToSet(Tail(q))
           /\ Head(q) = q[1] /\ Head(q) \in T /\ Len(q) \in Nat \ {0}
           /\ \A i \in 1 .. Len(q) - 1 : Tail(q)[i] = q[i + 1]
<1>1. PICK n \in Nat \ {0} : n = Len(q)
  BY LastIs
<1>2. PICK r : r = Tail(q)
  OBVIOUS
<1>3. r \in Seq(T) /\ Len(r) = n - 1 /\ \A i \in 1 .. n - 1 : r[i] = q[i + 1]
  BY <1>1, <1>2, HeadTailProperties
<1>4. Head(q) = q[1] /\ Head(q) \in T
  BY HeadTailProperties DEF Head
<1>5. ToSet(q) = {q[i] : i \in 1 .. n} /\ ToSet(r) = {r[i] : i \in 1 .. n - 1}
  BY <1>1, <1>3, Elements
<1>6. ASSUME NEW i \in 1 .. n PROVE q[i] = Head(q) \/ q[i] \in ToSet(r)
  <2>1. CASE i = 1
    BY <2>1, <1>4
  <2>2. CASE i # 1
    <3>1. i - 1 \in 1 .. n - 1 /\ (i - 1) + 1 = i
      BY <2>2
    <3>2. r[i - 1] = q[i]
      BY <1>3, <3>1
    <3> QED BY <1>5, <3>1, <3>2
  <2> QED BY <2>1, <2>2
<1>7. ASSUME NEW i \in 1 .. n - 1 PROVE r[i] \in ToSet(q)
  <2>1. i + 1 \in 1 .. n
    OBVIOUS
  <2> QED BY <1>3, <1>5, <2>1
<1>8. Head(q) \in ToSet(q)
  <2>1. 1 \in 1 .. n
    OBVIOUS
  <2> QED BY <1>4, <1>5, <2>1
<1>9. ToSet(q) = {Head(q)} \cup ToSet(r)
  BY <1>5, <1>6, <1>7, <1>8
<1> QED BY <1>1, <1>2, <1>3, <1>4, <1>9

\* The levels, one node further.
LEMMA LevelsGoOn ==
    ASSUME NEW F, NEW Q \in Seq(DOMAIN F), Q # << >>, Levels(F, Q), NEW R, DOMAIN F \subseteq DOMAIN R,
           \A n \in DOMAIN F : Deep(F, n) \in Nat /\ Deep(R, n) = Deep(F, n),
           NEW I \in Seq(DOMAIN R), \A n \in ToSet(I) : Deep(R, n) = Deep(F, Head(Q)) + 1
    PROVE  Tail(Q) \o I \in Seq(DOMAIN R) /\ Levels(R, Tail(Q) \o I)
<1>1. PICK n \in Nat \ {0} : n = Len(Q)
  BY LastIs
<1>2. PICK r : r = Tail(Q) /\ r \in Seq(DOMAIN F) /\ Len(r) = n - 1 /\ Q[1] = Head(Q) /\ \A i \in 1 .. n - 1 : r[i] = Q[i + 1]
  BY <1>1, RestIs
<1>3. r \in Seq(DOMAIN R)
  <2>1. r \in [1 .. n - 1 -> DOMAIN F]
    BY <1>2, LenProperties
  <2>2. r \in [1 .. n - 1 -> DOMAIN R]
    BY <2>1
  <2> QED BY <1>2, <2>2 DEF Seq
<1>4. PICK m \in Nat : m = Len(I)
  BY LenProperties
<1>5. PICK q : q = r \o I /\ q \in Seq(DOMAIN R) /\ Len(q) = (n - 1) + m
             /\ \A i \in 1 .. (n - 1) + m : q[i] = IF i <= n - 1 THEN r[i] ELSE I[i - (n - 1)]
  <2>1. PICK q : q = r \o I
    OBVIOUS
  <2>2. q \in Seq(DOMAIN R) /\ Len(q) = Len(r) + Len(I)
        /\ \A i \in 1 .. Len(r) + Len(I) : q[i] = IF i <= Len(r) THEN r[i] ELSE I[i - Len(r)]
    BY <1>3, <2>1, ConcatIs
  <2>3. q \in Seq(DOMAIN R) /\ Len(q) = (n - 1) + m
        /\ \A i \in 1 .. (n - 1) + m : q[i] = IF i <= n - 1 THEN r[i] ELSE I[i - (n - 1)]
    BY <1>2, <1>4, <2>2
  <2> QED BY <2>1, <2>3
<1>6. PICK d \in Nat : d = Deep(F, Head(Q))
  BY RestIs
<1>7. DOMAIN q = 1 .. (n - 1) + m /\ DOMAIN Q = 1 .. n
  BY <1>1, <1>5, LenProperties
<1>8. ASSUME NEW i \in 1 .. n - 1
      PROVE  /\ i + 1 \in 1 .. n /\ q[i] = Q[i + 1] /\ Deep(R, q[i]) = Deep(F, Q[i + 1])
             /\ Deep(F, Q[i + 1]) \in Nat /\ d <= Deep(F, Q[i + 1]) /\ Deep(F, Q[i + 1]) <= d + 1
  <2>1. i + 1 \in 1 .. n /\ i \in 1 .. (n - 1) + m /\ i <= n - 1 /\ 1 \in 1 .. n /\ 1 <= i + 1
    OBVIOUS
  <2>2. q[i] = Q[i + 1]
    BY <1>2, <1>5, <2>1
  <2>3. Q[i + 1] \in DOMAIN F
    BY <1>1, <2>1, ElementOfSeq
  <2>4. d <= Deep(F, Q[i + 1]) /\ Deep(F, Q[i + 1]) <= d + 1
    BY <1>2, <1>6, <1>7, <2>1 DEF Levels
  <2> QED BY <2>1, <2>2, <2>3, <2>4
<1>9. ASSUME NEW i \in 1 .. (n - 1) + m, ~(i <= n - 1) PROVE Deep(R, q[i]) = d + 1
  <2>1. i - (n - 1) \in 1 .. m
    BY <1>9
  <2>2. q[i] = I[i - (n - 1)]
    BY <1>5, <1>9
  <2>3. I[i - (n - 1)] \in ToSet(I)
    BY <1>4, <2>1, Elements
  <2> QED BY <1>6, <2>2, <2>3
<1>10. ASSUME NEW i \in 1 .. (n - 1) + m, NEW j \in 1 .. (n - 1) + m, i <= j
       PROVE  Deep(R, q[i]) <= Deep(R, q[j]) /\ Deep(R, q[j]) <= Deep(R, q[i]) + 1
  <2>1. CASE j <= n - 1
    <3>1. i \in 1 .. n - 1 /\ j \in 1 .. n - 1 /\ i + 1 <= j + 1
      BY <1>10, <2>1
    <3>2. Deep(F, Q[i + 1]) <= Deep(F, Q[j + 1]) /\ Deep(F, Q[j + 1]) <= Deep(F, Q[i + 1]) + 1
      BY <1>7, <1>8, <3>1 DEF Levels
    <3> QED BY <1>8, <3>1, <3>2
  <2>2. CASE ~(j <= n - 1) /\ i <= n - 1
    <3>1. i \in 1 .. n - 1
      BY <2>2
    <3>2. PICK e \in Nat : e = Deep(R, q[i]) /\ d <= e /\ e <= d + 1
      BY <1>8, <3>1
    <3>3. Deep(R, q[j]) = d + 1
      BY <1>9, <2>2
    <3> QED BY <3>2, <3>3
  <2>3. CASE ~(j <= n - 1) /\ ~(i <= n - 1)
    <3>1. Deep(R, q[j]) = d + 1 /\ Deep(R, q[i]) = d + 1
      BY <1>9, <2>3
    <3> QED BY <3>1
  <2> QED BY <1>10, <2>1, <2>2, <2>3
<1>11. Levels(R, q)
  BY <1>7, <1>10 DEF Levels
<1> QED BY <1>2, <1>5, <1>11

\* A step of the walk on a graph that stays keeps it breadth-first.
LEMMA BfsGoesOn ==
    ASSUME NEW G, Joined(G), NEW s \in Nodes(G), NEW F, WayMap(G, s, F), NEW Q \in Seq(DOMAIN F), Bfs(G, s, F, Q), Q # << >>,
           NEW N, Onwards(G, Head(Q), DOMAIN F, N),
           EndsAt(Leaving(G, Head(Q), DOMAIN F)) \subseteq EndsAt(N),
           NEW I \in Seq(EndsAt(N)), ToSet(I) = EndsAt(N), NEW R, R = Gained(F, Head(Q), N)
    PROVE  Bfs(G, s, R, Tail(Q) \o I)
<1>1. PICK m : m = Head(Q) /\ m \in DOMAIN F
  BY RestIs
<1>2. /\ DOMAIN R = DOMAIN F \cup EndsAt(N) /\ \A n \in DOMAIN F : R[n] = F[n]
      /\ \A n \in EndsAt(N) : n \notin DOMAIN F /\ Deep(R, n) = Deep(F, m) + 1
      /\ WayMap(G, s, R)
  <2>1. Onwards(G, m, DOMAIN F, N) /\ R = Gained(F, m, N)
    BY <1>1
  <2>2. Grown(G, s, F, m, N, R)
    BY <1>1, <2>1, GainedIs
  <2> QED BY <2>2 DEF Grown
<1>3. \A n \in DOMAIN F : Deep(F, n) \in Nat /\ Deep(R, n) = Deep(F, n)
  <2>1. \A n \in DOMAIN F : Deep(F, n) \in Nat
    BY DeepIs
  <2> QED BY <1>2, <2>1 DEF Deep
<1>4. I \in Seq(DOMAIN R)
  <2>1. I \in [1 .. Len(I) -> EndsAt(N)] /\ Len(I) \in Nat
    BY LenProperties
  <2>2. I \in [1 .. Len(I) -> DOMAIN R]
    BY <1>2, <2>1
  <2> QED BY <2>1, <2>2 DEF Seq
<1>5. PICK q : q = Tail(Q) \o I
  OBVIOUS
<1>6. q \in Seq(DOMAIN R) /\ Levels(R, q)
  <2>1. \A n \in ToSet(I) : Deep(R, n) = Deep(F, Head(Q)) + 1
    BY <1>1, <1>2
  <2>2. Levels(F, Q) /\ DOMAIN F \subseteq DOMAIN R
    BY <1>2 DEF Bfs
  <2> QED BY <1>3, <1>4, <1>5, <2>1, <2>2, LevelsGoOn
<1>7. ToSet(Q) = {m} \cup ToSet(Tail(Q)) /\ ToSet(q) = ToSet(Tail(Q)) \cup EndsAt(N)
  <2>1. PICK t : t = Tail(Q)
    OBVIOUS
  <2>2. ToSet(Q) = {m} \cup ToSet(t) /\ t \in Seq(DOMAIN F)
    BY <1>1, <2>1, RestIs
  <2>3. PICK k \in Nat : k = Len(t)
    BY <2>2, LenProperties
  <2>4. t \in [1 .. k -> DOMAIN F]
    BY <2>2, <2>3, LenProperties
  <2>5. t \in [1 .. k -> DOMAIN R]
    BY <1>2, <2>4
  <2>6. t \in Seq(DOMAIN R)
    BY <2>5 DEF Seq
  <2>7. ToSet(t \o I) = ToSet(t) \cup ToSet(I)
    BY <1>4, <2>6, ConcatIs
  <2> QED BY <1>5, <2>1, <2>2, <2>7
<1>8. Spent(G, R, q)
  <2>1. SUFFICES ASSUME NEW n \in DOMAIN R, n \notin ToSet(q), NEW h \in G, h.at = n PROVE h.to \in DOMAIN R
    BY DEF Spent
  <2>2. n \in DOMAIN F
    BY <1>2, <1>7, <2>1
  <2>3. CASE n = m
    <3>1. h.to \in DOMAIN F \/ h \in Leaving(G, m, DOMAIN F)
      BY <2>1, <2>3 DEF Leaving
    <3>2. h \in Leaving(G, m, DOMAIN F) => h.to \in EndsAt(N)
      BY <1>1 DEF EndsAt
    <3> QED BY <1>2, <3>1, <3>2
  <2>4. CASE n # m
    <3>1. n \notin ToSet(Q)
      BY <1>7, <2>1, <2>4
    <3>2. h.to \in DOMAIN F
      BY <2>1, <2>2, <3>1 DEF Bfs, Spent
    <3> QED BY <1>2, <3>2
  <2> QED BY <2>3, <2>4
<1>9. ShortestIn(G, s, R)
  <2>1. SUFFICES ASSUME NEW n \in DOMAIN R, NEW w \in Ways(G, s), Last(w.hops) = n PROVE Deep(R, n) <= Len(w.hops)
    BY DEF ShortestIn
  <2>2. CASE n \in DOMAIN F
    <3>1. Deep(F, n) <= Len(w.hops)
      BY <2>1, <2>2 DEF Bfs, ShortestIn
    <3> QED BY <1>3, <2>2, <3>1
  <2>3. CASE n \notin DOMAIN F
    <3>1. Deep(R, n) = Deep(F, m) + 1
      BY <1>2, <2>3
    <3>2. Deep(F, Head(Q)) + 1 <= Len(w.hops)
      BY <2>1, <2>3, Nearest
    <3> QED BY <1>1, <3>1, <3>2
  <2> QED BY <2>2, <2>3
<1> QED BY <1>5, <1>6, <1>8, <1>9 DEF Bfs

\* The walk that reaches its end has taken a shortest way there.
LEMMA ReachedIsShortest ==
    ASSUME NEW G, Joined(G), NEW s \in Nodes(G), NEW F, WayMap(G, s, F), NEW Q \in Seq(DOMAIN F), Bfs(G, s, F, Q), Q # << >>,
           NEW N, Onwards(G, Head(Q), DOMAIN F, N), NEW e \in EndsAt(N), NEW R, R = Gained(F, Head(Q), N)
    PROVE  \A w \in Ways(G, s) : Last(w.hops) = e => Len(R[e].hops) <= Len(w.hops)
<1>1. PICK m : m = Head(Q) /\ m \in DOMAIN F
  BY RestIs
<1>2. e \notin DOMAIN F /\ Deep(R, e) = Deep(F, m) + 1
  <2>1. Onwards(G, m, DOMAIN F, N) /\ R = Gained(F, m, N)
    BY <1>1
  <2>2. Grown(G, s, F, m, N, R)
    BY <1>1, <2>1, GainedIs
  <2> QED BY <2>2 DEF Grown
<1>3. ASSUME NEW w \in Ways(G, s), Last(w.hops) = e PROVE Len(R[e].hops) <= Len(w.hops)
  <2>1. Deep(F, Head(Q)) + 1 <= Len(w.hops)
    BY <1>2, <1>3, Nearest
  <2> QED BY <1>1, <1>2, <2>1 DEF Deep
<1> QED BY <1>3

-----------------------------------------------------------------------------
(* Units: a call, step by step. *)

Stages == {"idle", "resolve", "walk", "derived", "save", "swap"}
CallTyped ==
    /\ upc \in [Threads -> Stages]
    /\ DOMAIN request = Threads /\ DOMAIN ends = Threads /\ DOMAIN found = Threads
    /\ DOMAIN queue = Threads /\ DOMAIN answer = Threads

IsName(name) == name \in Seq({name[i] : i \in DOMAIN name})
Ended(t) == upc[t] = "idle" \/ upc[t] = "derived"

\* A call through edges of G: whatever becomes of the graph, what it has is in G.
ResolvedSo(G, t) == ends[t] \in Seq(Nodes(G)) /\ Len(ends[t]) = Lookups(t)
Resolving(G, t) ==
    ends[t] \in Seq(Nodes(G)) /\ Len(ends[t]) < Lookups(t) /\ IsName(request[t].from) /\ IsName(request[t].to)
Walking(G, t) ==
    ResolvedSo(G, t) /\ WayMap(G, Start(t), found[t]) /\ queue[t] \in Seq(DOMAIN found[t]) /\ Last(ends[t]) \notin DOMAIN found[t]
Answering(G, t) ==
    ResolvedSo(G, t) /\ answer[t].value \in Ways(G, Start(t)) /\ Last(answer[t].value.hops) = Last(ends[t])
Going(G, t) ==
    /\ upc[t] = "resolve" => Resolving(G, t)
    /\ upc[t] = "walk" => Walking(G, t)
    /\ Ended(t) /\ answer[t].kind = "found" => Answering(G, t)

\* A call while the graph is G: its walk is a breadth-first one, and its answer the answer.
ShortestAnswer(G, t) == \A w \in Ways(G, Start(t)) : Last(w.hops) = Last(ends[t]) => Len(answer[t].value.hops) <= Len(w.hops)
NoAnswer(G, t) ==
    \/ answer[t].value = "unknown unit" /\ \E n \in {request[t].from, request[t].to} : ~Known(n, G)
    \/ /\ answer[t].value = "different dimensions" /\ ResolvedSo(G, t)
       /\ \A w \in Ways(G, Start(t)) : Last(w.hops) # Last(ends[t])
Exact(G, t) ==
    /\ upc[t] = "walk" => Bfs(G, Start(t), found[t], queue[t])
    /\ Ended(t) /\ answer[t].kind = "found" => ShortestAnswer(G, t)
    /\ Ended(t) /\ answer[t].kind = "refused" => NoAnswer(G, t)
    /\ Ended(t) => answer[t].kind # "error"
    /\ upc[t] = "derived" => answer[t].kind \in {"found", "refused"}

\* A known name stands for a node, by one of its candidates.
LEMMA CanonicalIs ==
    ASSUME NEW name, IsName(name), NEW g, Known(name, g)
    PROVE  Canonical(name, g) \in Nodes(g) /\ \E i \in DOMAIN name : Canonical(name, g) = name[i]
<1>1. PICK P : P = {i \in DOMAIN name : name[i] \in Nodes(g)}
  OBVIOUS
<1>2. P \in SUBSET Nat /\ P # {}
  <2>1. DOMAIN name = 1 .. Len(name) /\ Len(name) \in Nat
    BY LenProperties DEF IsName
  <2> QED BY <1>1, <2>1 DEF Known
<1>3. PICK p \in P : \A j \in P : p <= j
  BY <1>2, SmallestNat
<1>4. \E i \in DOMAIN name : name[i] \in Nodes(g) /\ \A j \in DOMAIN name : name[j] \in Nodes(g) => i <= j
  BY <1>1, <1>3
<1>5. PICK c : c = CHOOSE i \in DOMAIN name : name[i] \in Nodes(g) /\ \A j \in DOMAIN name : name[j] \in Nodes(g) => i <= j
  OBVIOUS
<1>6. c \in DOMAIN name /\ name[c] \in Nodes(g)
  BY <1>4, <1>5, Zenon
<1>7. Canonical(name, g) = name[c]
  BY <1>5 DEF Canonical
<1> QED BY <1>6, <1>7

\* The two ends of a call that is resolved are nodes.
LEMMA StartIs ==
    ASSUME NEW G, NEW t \in Threads, ResolvedSo(G, t)
    PROVE  Start(t) = ends[t][Lookups(t) - 1] /\ Start(t) \in Nodes(G) /\ Last(ends[t]) \in Nodes(G)
<1>1. Lookups(t) \in {2, 4}
  BY DEF Lookups
<1>2. Lookups(t) - 1 \in 1 .. Lookups(t) /\ Lookups(t) \in Nat
  BY <1>1
<1>3. ends[t][Lookups(t) - 1] \in Nodes(G)
  BY <1>2, ElementOfSeq DEF ResolvedSo
<1>4. Last(ends[t]) \in Nodes(G)
  <2>1. ends[t] # << >>
    BY <1>1, EmptySeq DEF ResolvedSo
  <2> QED BY <2>1, LastIs DEF ResolvedSo
<1> QED BY <1>3, <1>4 DEF Start, ResolvedSo

\* A call begins well.
LEMMA BeginGoes ==
    ASSUME CallTyped, NEW t \in Threads, NEW r, Begin(t, r), IsName(r.from), IsName(r.to), NEW G
    PROVE  Going(G, t)' /\ Exact(G, t)' /\ CallTyped' /\ upc'[t] = "resolve" /\ request'[t] = r /\ ends'[t] = << >>
<1>1. upc'[t] = "resolve" /\ request'[t] = r /\ ends'[t] = << >> /\ CallTyped'
  BY DEF Begin, CallTyped, Stages
<1>2. Len(<< >>) = 0 /\ << >> \in Seq(Nodes(G))
  BY EmptySeq
<1>3. Lookups(t)' \in {2, 4}
  BY DEF Lookups
<1>4. Resolving(G, t)'
  BY <1>1, <1>2, <1>3 DEF Resolving
<1> QED BY <1>1, <1>4 DEF Going, Exact, Ended

\* What is looked up is a name, one of the request's or one that was found before.
LEMMA LookupIs ==
    ASSUME NEW G, NEW t \in Threads, Resolving(G, t)
    PROVE  /\ IsName(Lookup(t)) /\ Lookups(t) \in {2, 4} /\ Len(ends[t]) \in Nat
           /\ Lookup(t) \notin {request[t].from, request[t].to} => Known(Lookup(t), G)
<1>1. PICK k \in Nat : k = Len(ends[t]) /\ \A i \in 1 .. k : ends[t][i] \in Nodes(G)
  BY LenProperties, ElementOfSeq DEF Resolving
<1>2. Lookups(t) \in {2, 4} /\ (request[t].op = "compare" => Lookups(t) = 4) /\ k < Lookups(t)
  BY <1>1 DEF Lookups, Resolving
<1>3. CASE request[t].op # "compare" \/ k < 2
  <2>1. Lookup(t) \in {request[t].from, request[t].to}
    BY <1>1, <1>3 DEF Lookup
  <2> QED BY <1>1, <1>2, <2>1 DEF Resolving
<1>4. CASE request[t].op = "compare" /\ ~(k < 2)
  <2>1. PICK j \in 1 .. k : j = 4 - k
    BY <1>2, <1>4
  <2>2. PICK n \in Nodes(G) : n = ends[t][j]
    BY <1>1
  <2>3. Lookup(t) = <<n>>
    BY <1>1, <1>4, <2>1, <2>2 DEF Lookup
  <2>4. DOMAIN <<n>> = 1 .. 1 /\ <<n>>[1] = n /\ <<n>> \in Seq({n})
    OBVIOUS
  <2>5. {<<n>>[i] : i \in 1 .. 1} = {n}
    BY <2>4
  <2>6. IsName(<<n>>) /\ Known(<<n>>, G)
    BY <2>4, <2>5 DEF IsName, Known
  <2> QED BY <1>1, <1>2, <2>3, <2>6
<1> QED BY <1>3, <1>4

\* What is known in a part is known in the whole.
LEMMA KnownWithin == ASSUME NEW g, NEW G, g \subseteq G, NEW name, Known(name, g) PROVE Known(name, G) /\ Nodes(g) \subseteq Nodes(G)
BY DEF Known, Nodes

\* A call that returns, and with what.
LEMMA ReturnIs ==
    ASSUME CallTyped, NEW t \in Threads, NEW a, Return(t, a)
    PROVE  answer'[t] = a /\ Ended(t)' /\ upc'[t] \notin {"resolve", "walk"} /\ upc' \in [Threads -> Stages] /\ DOMAIN answer' = Threads
BY DEF Return, CallTyped, Ended, Stages

LEMMA RefusedIs == ASSUME NEW why PROVE Refused(why).kind = "refused" /\ Refused(why).value = why
BY DEF Refused

\* Each step of a call, on whatever part of G the graph then is, keeps the call in G; and on G
\* itself it keeps the call exact.
LEMMA ResolveGoes ==
    ASSUME CallTyped, NEW t \in Threads, NEW G, Joined(G), graph \subseteq G, Going(G, t), Resolve(t)
    PROVE  Going(G, t)' /\ CallTyped' /\ (graph = G /\ Exact(G, t) => Exact(G, t)')
<1>1. upc[t] = "resolve" /\ Resolving(G, t) /\ request' = request
  BY DEF Resolve, Going, call
<1>2. IsName(Lookup(t)) /\ Lookups(t) \in {2, 4} /\ Lookups(t)' = Lookups(t) /\ Len(ends[t]) \in Nat
  BY <1>1, LookupIs DEF Lookups
<1>3. PICK q : q = Append(ends[t], Canonical(Lookup(t), graph))
  OBVIOUS
<1>4. PICK k \in Nat : k = Len(ends[t]) /\ k < Lookups(t)
  BY <1>1, <1>2 DEF Resolving
<1>5. Known(Lookup(t), graph) => q \in Seq(Nodes(G)) /\ Len(q) = k + 1
  <2>1. SUFFICES ASSUME Known(Lookup(t), graph) PROVE q \in Seq(Nodes(G)) /\ Len(q) = k + 1
    OBVIOUS
  <2>2. Canonical(Lookup(t), graph) \in Nodes(G)
    BY <1>2, <2>1, CanonicalIs, KnownWithin
  <2> QED BY <1>1, <1>3, <1>4, <2>2, AppendIs DEF Resolving
<1>6. CASE /\ ~Known(Lookup(t), graph)
           /\ Return(t, Refused("unknown unit"))
           /\ UNCHANGED <<ends, found, queue>>
  <2>1. answer'[t] = Refused("unknown unit") /\ Ended(t)' /\ upc'[t] \notin {"resolve", "walk"} /\ CallTyped'
    BY <1>1, <1>6, ReturnIs DEF CallTyped
  <2>2. answer'[t].kind = "refused" /\ answer'[t].value = "unknown unit"
    BY <2>1, RefusedIs, Zenon
  <2>3. Going(G, t)'
    BY <2>1, <2>2 DEF Going
  <2>4. ASSUME graph = G PROVE Exact(G, t)'
    <3>1. Lookup(t) \in {request[t].from, request[t].to}
      BY <1>1, <1>6, <2>4, LookupIs
    <3>2. NoAnswer(G, t)'
      BY <1>1, <1>6, <2>2, <2>4, <3>1 DEF NoAnswer
    <3> QED BY <2>1, <2>2, <3>2 DEF Exact
  <2> QED BY <2>1, <2>3, <2>4
<1>7. CASE /\ Known(Lookup(t), graph) /\ ~(Len(q) = Lookups(t))
           /\ ends' = [ends EXCEPT ![t] = q]
           /\ UNCHANGED <<found, queue, answer, upc>>
  <2>1. CallTyped' /\ ends'[t] = q /\ upc'[t] = "resolve"
    BY <1>1, <1>7 DEF CallTyped
  <2>2. Len(q) < Lookups(t)
    BY <1>2, <1>4, <1>5, <1>7
  <2>3. Resolving(G, t)'
    BY <1>1, <1>2, <1>5, <1>7, <2>1, <2>2 DEF Resolving
  <2> QED BY <2>1, <2>3 DEF Going, Exact, Ended
<1>8. ASSUME Known(Lookup(t), graph), Len(q) = Lookups(t), ends' = [ends EXCEPT ![t] = q]
      PROVE  /\ ends'[t] = q /\ ResolvedSo(G, t)' /\ Start(t)' = ends[t][Lookups(t) - 1] /\ Start(t)' \in Nodes(G) /\ DOMAIN ends' = Threads
             /\ Last(ends'[t]) = Last(q) /\ Last(q) \in Nodes(G)
  <2>1. ends'[t] = q /\ DOMAIN ends' = Threads
    BY <1>8 DEF CallTyped
  <2>2. ResolvedSo(G, t)'
    BY <1>2, <1>5, <1>8, <2>1 DEF ResolvedSo
  <2>3. k \in 1 .. k /\ Lookups(t) - 1 = k /\ ends[t][k] \in Nodes(G)
    <3>1. k \in 1 .. k /\ Lookups(t) - 1 = k
      BY <1>2, <1>4, <1>5, <1>8
    <3> QED BY <1>1, <1>4, <3>1, ElementOfSeq DEF Resolving
  <2>4. q[k] = ends[t][k]
    <3>1. ends[t] \in Seq(Nodes(G)) /\ Canonical(Lookup(t), graph) \in Nodes(G)
      BY <1>1, <1>2, <1>8, CanonicalIs, KnownWithin DEF Resolving
    <3> QED BY <1>3, <1>4, <2>3, <3>1, AppendProperties
  <2>5. Start(t)' = q[k]
    BY <1>4, <1>5, <1>8, <2>1 DEF Start
  <2>6. Last(q) \in Nodes(G)
    <3>1. q # << >>
      BY <1>3, <1>4, <1>5, <1>8, EmptySeq
    <3> QED BY <1>5, <1>8, <3>1, LastIs
  <2> QED BY <2>1, <2>2, <2>3, <2>4, <2>5, <2>6
<1>9. PICK s : s = ends[t][Lookups(t) - 1]
  OBVIOUS
<1>10. CASE /\ Known(Lookup(t), graph) /\ Len(q) = Lookups(t) /\ s # Last(q)
            /\ ends' = [ends EXCEPT ![t] = q]
            /\ found' = [found EXCEPT ![t] = [n \in {s} |-> Here(n)]]
            /\ queue' = [queue EXCEPT ![t] = <<s>>]
            /\ upc' = [upc EXCEPT ![t] = "walk"]
            /\ UNCHANGED answer
  <2>1. CallTyped' /\ upc'[t] = "walk" /\ found'[t] = [n \in {s} |-> Here(n)] /\ queue'[t] = <<s>>
    BY <1>1, <1>10 DEF CallTyped, Stages
  <2>2. ends'[t] = q /\ ResolvedSo(G, t)' /\ Start(t)' = s /\ s \in Nodes(G) /\ Last(ends'[t]) = Last(q)
    BY <1>8, <1>9, <1>10
  <2>3. PICK F, Q : F = [n \in {s} |-> Here(n)] /\ Q = <<s>>
    OBVIOUS
  <2>4. WayMap(G, s, F) /\ Bfs(G, s, F, Q) /\ Q \in Seq(DOMAIN F)
    BY <2>2, <2>3, WalkBegins
  <2>5. Last(q) \notin DOMAIN F
    BY <1>10, <2>3
  <2>6. Walking(G, t)'
    BY <2>1, <2>2, <2>3, <2>4, <2>5 DEF Walking
  <2>7. Bfs(G, Start(t), found[t], queue[t])'
    BY <2>1, <2>2, <2>3, <2>4
  <2> QED BY <2>1, <2>6, <2>7 DEF Going, Exact, Ended
<1>11. CASE /\ Known(Lookup(t), graph) /\ Len(q) = Lookups(t) /\ s = Last(q)
            /\ ends' = [ends EXCEPT ![t] = q]
            /\ Return(t, Found(Here(s)))
            /\ UNCHANGED <<found, queue>>
  <2>1. ends'[t] = q /\ ResolvedSo(G, t)' /\ Start(t)' = s /\ s \in Nodes(G) /\ Last(ends'[t]) = s /\ DOMAIN ends' = Threads
    BY <1>8, <1>9, <1>11
  <2>2. answer'[t] = Found(Here(s)) /\ Ended(t)' /\ upc'[t] \notin {"resolve", "walk"} /\ CallTyped'
    BY <1>1, <1>11, <2>1, ReturnIs DEF CallTyped
  <2>3. PICK y : y = Here(s)
    OBVIOUS
  <2>4. answer'[t].kind = "found" /\ answer'[t].value = y
    BY <2>2, <2>3 DEF Found
  <2>5. y \in Ways(G, s) /\ Last(y.hops) = s /\ Len(y.hops) = 1
    BY <2>1, <2>3, WaysBegin, HereIs
  <2>6. Answering(G, t)'
    BY <2>1, <2>4, <2>5 DEF Answering
  <2>7. ShortestAnswer(G, t)'
    <3>1. ASSUME NEW w \in Ways(G, s) PROVE 1 <= Len(w.hops)
      <4>1. IsWay(G, w)
        BY <2>1, WaysTyped
      <4>2. Len(w.hops) \in Nat \ {0}
        BY <4>1, LastIs DEF IsWay
      <4> QED BY <4>2
    <3> QED BY <2>1, <2>4, <2>5, <3>1 DEF ShortestAnswer
  <2> QED BY <2>2, <2>4, <2>6, <2>7 DEF Going, Exact
<1>12. \/ /\ ~Known(Lookup(t), graph)
          /\ Return(t, Refused("unknown unit"))
          /\ UNCHANGED <<ends, found, queue>>
       \/ /\ Known(Lookup(t), graph) /\ ~(Len(q) = Lookups(t))
          /\ ends' = [ends EXCEPT ![t] = q]
          /\ UNCHANGED <<found, queue, answer, upc>>
       \/ /\ Known(Lookup(t), graph) /\ Len(q) = Lookups(t) /\ s # Last(q)
          /\ ends' = [ends EXCEPT ![t] = q]
          /\ found' = [found EXCEPT ![t] = [n \in {s} |-> Here(n)]]
          /\ queue' = [queue EXCEPT ![t] = <<s>>]
          /\ upc' = [upc EXCEPT ![t] = "walk"]
          /\ UNCHANGED answer
       \/ /\ Known(Lookup(t), graph) /\ Len(q) = Lookups(t) /\ s = Last(q)
          /\ ends' = [ends EXCEPT ![t] = q]
          /\ Return(t, Found(Here(s)))
          /\ UNCHANGED <<found, queue>>
  BY <1>3, <1>9, Zenon DEF Resolve
<1> QED BY <1>6, <1>7, <1>10, <1>11, <1>12

\* The error is no refusal.
LEMMA KeyErrorIs == KeyError.kind = "error" /\ KeyError.value = "KeyError"
BY DEF KeyError

LEMMA WalkGoes ==
    ASSUME CallTyped, NEW t \in Threads, NEW G, Joined(G), Charted(graph), graph \subseteq G, Going(G, t), Walk(t)
    PROVE  Going(G, t)' /\ CallTyped' /\ (graph = G /\ Exact(G, t) => Exact(G, t)')
<1>1. upc[t] = "walk" /\ Walking(G, t) /\ request' = request /\ ends' = ends /\ queue[t] # << >>
  BY DEF Walk, Going
<1>2. Lookups(t)' = Lookups(t) /\ Start(t)' = Start(t) /\ ends'[t] = ends[t] /\ (ResolvedSo(G, t) => ResolvedSo(G, t)')
  BY <1>1 DEF Lookups, Start, ResolvedSo
<1>3. PICK s \in Nodes(G) : s = Start(t)
  BY <1>1, StartIs DEF Walking
<1>4. PICK F, Q : F = found[t] /\ Q = queue[t]
  OBVIOUS
<1>5. WayMap(G, s, F) /\ Q \in Seq(DOMAIN F) /\ Q # << >> /\ Last(ends[t]) \notin DOMAIN F
  BY <1>1, <1>3, <1>4 DEF Walking
<1>6. PICK m \in DOMAIN F : m = Head(Q)
  BY <1>5, RestIs
<1>7. PICK N : N = NewFrom(m, DOMAIN F)
  OBVIOUS
<1>8. Onwards(G, m, DOMAIN F, N) /\ N \subseteq graph
  <2>1. N \subseteq Fresh(m, DOMAIN F) /\ \A e, h \in N : e.to = h.to => e = h
    BY <1>7, NewFromIs
  <2> QED BY <2>1 DEF Onwards, Leaving, Single, Fresh
<1>9. graph = G => EndsAt(Leaving(G, m, DOMAIN F)) \subseteq EndsAt(N)
  <2>1. ASSUME graph = G, NEW e \in Leaving(G, m, DOMAIN F) PROVE e.to \in EndsAt(N)
    <3>1. e \in Fresh(m, DOMAIN F)
      BY <2>1 DEF Leaving, Fresh
    <3>2. PICK h \in NewFrom(m, DOMAIN F) : h.to = e.to
      BY <3>1, NewFromIs
    <3> QED BY <1>7, <3>2 DEF EndsAt
  <2> QED BY <2>1 DEF EndsAt
<1>10. PICK R : R = Gained(F, m, N)
  OBVIOUS
<1>11. /\ DOMAIN R = DOMAIN F \cup EndsAt(N) /\ \A n \in DOMAIN F : R[n] = F[n]
       /\ \A n \in EndsAt(N) : n \notin DOMAIN F
       /\ WayMap(G, s, R)
  <2>1. Grown(G, s, F, m, N, R)
    BY <1>5, <1>8, <1>10, GainedIs
  <2> QED BY <2>1 DEF Grown
<1>12. PICK e \in Nodes(G) : e = Last(ends[t])
  BY <1>1, StartIs DEF Walking
<1>13. CASE /\ m \notin Nodes(graph)
            /\ Return(t, KeyError)
            /\ UNCHANGED <<found, queue>>
  <2>1. answer'[t] = KeyError /\ Ended(t)' /\ upc'[t] \notin {"resolve", "walk"} /\ CallTyped'
    BY <1>1, <1>13, ReturnIs DEF CallTyped
  <2>2. answer'[t].kind = "error"
    BY <2>1, KeyErrorIs
  <2>3. Going(G, t)'
    BY <2>1, <2>2 DEF Going
  <2>4. graph # G
    BY <1>5, <1>13, DeepIs
  <2> QED BY <2>1, <2>3, <2>4
<1>14. CASE /\ m \in Nodes(graph) /\ e \in EndsAt(N)
            /\ Return(t, Found(R[e]))
            /\ UNCHANGED <<found, queue>>
  <2>1. answer'[t] = Found(R[e]) /\ Ended(t)' /\ upc'[t] \notin {"resolve", "walk"} /\ CallTyped'
    BY <1>1, <1>14, ReturnIs DEF CallTyped
  <2>2. answer'[t].kind = "found" /\ answer'[t].value = R[e]
    BY <2>1 DEF Found
  <2>3. R[e] \in Ways(G, s) /\ Last(R[e].hops) = e
    BY <1>11, <1>14 DEF WayMap
  <2>4. Answering(G, t)'
    BY <1>1, <1>2, <1>3, <1>12, <2>2, <2>3 DEF Answering, Walking
  <2>5. ASSUME graph = G, Exact(G, t) PROVE ShortestAnswer(G, t)'
    <3>1. Bfs(G, s, F, Q)
      BY <1>1, <1>3, <1>4, <2>5 DEF Exact
    <3>2. Onwards(G, Head(Q), DOMAIN F, N) /\ R = Gained(F, Head(Q), N)
      BY <1>6, <1>8, <1>10
    <3>3. \A w \in Ways(G, s) : Last(w.hops) = e => Len(R[e].hops) <= Len(w.hops)
      BY <1>5, <1>14, <3>1, <3>2, ReachedIsShortest
    <3> QED BY <1>2, <1>3, <1>12, <2>2, <3>3 DEF ShortestAnswer
  <2> QED BY <2>1, <2>2, <2>4, <2>5 DEF Going, Exact
<1>15. CASE /\ m \in Nodes(graph) /\ e \notin EndsAt(N)
            /\ found' = [found EXCEPT ![t] = R]
            /\ queue' = [queue EXCEPT ![t] = Tail(@) \o InOrder(N)]
            /\ UNCHANGED <<answer, upc>>
  <2>1. CallTyped' /\ found'[t] = R /\ queue'[t] = Tail(Q) \o InOrder(N) /\ upc'[t] = "walk"
    BY <1>1, <1>4, <1>15 DEF CallTyped
  <2>2. PICK I : I = InOrder(N)
    OBVIOUS
  <2>3. I \in Seq(EndsAt(N)) /\ ToSet(I) = EndsAt(N)
    BY <1>8, <2>2, InOrderIs DEF EndsAt
  <2>4. Tail(Q) \o I \in Seq(DOMAIN R)
    <3>1. PICK r : r = Tail(Q) /\ r \in Seq(DOMAIN F)
      BY <1>5, RestIs
    <3>2. PICK a \in Nat, b \in Nat : a = Len(r) /\ b = Len(I)
      BY <2>3, <3>1, LenProperties
    <3>3. r \in [1 .. a -> DOMAIN F] /\ I \in [1 .. b -> EndsAt(N)]
      BY <2>3, <3>1, <3>2, LenProperties
    <3>4. r \in [1 .. a -> DOMAIN R] /\ I \in [1 .. b -> DOMAIN R]
      BY <1>11, <3>3
    <3>5. r \in Seq(DOMAIN R) /\ I \in Seq(DOMAIN R)
      BY <3>4 DEF Seq
    <3> QED BY <3>1, <3>5, ConcatProperties
  <2>5. Walking(G, t)'
    BY <1>1, <1>2, <1>3, <1>5, <1>11, <1>12, <1>15, <2>1, <2>2, <2>4 DEF Walking
  <2>6. ASSUME graph = G, Exact(G, t) PROVE Bfs(G, Start(t), found[t], queue[t])'
    <3>1. Bfs(G, s, F, Q)
      BY <1>1, <1>3, <1>4, <2>6 DEF Exact
    <3>2. Onwards(G, Head(Q), DOMAIN F, N) /\ R = Gained(F, Head(Q), N) /\ EndsAt(Leaving(G, Head(Q), DOMAIN F)) \subseteq EndsAt(N)
      BY <1>6, <1>8, <1>9, <1>10, <2>6
    <3>3. Bfs(G, s, R, Tail(Q) \o I)
      BY <1>5, <2>3, <3>1, <3>2, BfsGoesOn DEF Onwards
    <3> QED BY <1>2, <1>3, <2>1, <2>2, <3>3
  <2> QED BY <2>1, <2>5, <2>6 DEF Going, Exact, Ended
<1>16. \/ /\ m \notin Nodes(graph)
          /\ Return(t, KeyError)
          /\ UNCHANGED <<found, queue>>
       \/ /\ m \in Nodes(graph) /\ e \in EndsAt(N)
          /\ Return(t, Found(R[e]))
          /\ UNCHANGED <<found, queue>>
       \/ /\ m \in Nodes(graph) /\ e \notin EndsAt(N)
          /\ found' = [found EXCEPT ![t] = R]
          /\ queue' = [queue EXCEPT ![t] = Tail(@) \o InOrder(N)]
          /\ UNCHANGED <<answer, upc>>
  <2> DEFINE new == NewFrom(Head(queue[t]), DOMAIN found[t])
             reached == [n \in DOMAIN found[t] \cup {h.to : h \in new} |->
                           IF n \in DOMAIN found[t] THEN found[t][n]
                           ELSE Onward(found[t][Head(queue[t])], CHOOSE h \in new : h.to = n)]
  <2>3. \/ /\ Head(queue[t]) \notin Nodes(graph)
           /\ Return(t, KeyError)
           /\ UNCHANGED <<found, queue>>
        \/ /\ Head(queue[t]) \in Nodes(graph) /\ Last(ends[t]) \in {h.to : h \in new}
           /\ Return(t, Found(reached[Last(ends[t])]))
           /\ UNCHANGED <<found, queue>>
        \/ /\ Head(queue[t]) \in Nodes(graph) /\ Last(ends[t]) \notin {h.to : h \in new}
           /\ found' = [found EXCEPT ![t] = reached]
           /\ queue' = [queue EXCEPT ![t] = Tail(@) \o InOrder(new)]
           /\ UNCHANGED <<answer, upc>>
    BY Zenon DEF Walk
  <2>4. new = N /\ Head(queue[t]) = m /\ found[t] = F /\ {h.to : h \in new} = EndsAt(N)
    BY <1>4, <1>6, <1>7 DEF EndsAt
  <2>5. reached = R
    <3> HIDE DEF new
    <3> QED BY <1>10, <2>4 DEF Gained
  <2> HIDE DEF new, reached
  <2> QED BY <1>12, <2>3, <2>4, <2>5
<1> QED BY <1>13, <1>14, <1>15, <1>16

LEMMA UnconnectedGoes ==
    ASSUME CallTyped, NEW t \in Threads, NEW G, Joined(G), Going(G, t), Unconnected(t)
    PROVE  Going(G, t)' /\ CallTyped' /\ (Exact(G, t) => Exact(G, t)')
<1>1. upc[t] = "walk" /\ queue[t] = << >> /\ request' = request /\ ends' = ends /\ found' = found /\ queue' = queue
      /\ Return(t, Refused("different dimensions")) /\ Walking(G, t)
  BY DEF Unconnected, Going
<1>2. answer'[t] = Refused("different dimensions") /\ Ended(t)' /\ upc'[t] \notin {"resolve", "walk"} /\ CallTyped'
  BY <1>1, ReturnIs DEF CallTyped
<1>3. answer'[t].kind = "refused" /\ answer'[t].value = "different dimensions"
  BY <1>2, RefusedIs, Zenon
<1>4. Going(G, t)'
  BY <1>2, <1>3 DEF Going
<1>5. ASSUME Exact(G, t) PROVE Exact(G, t)'
  <2>1. PICK s \in Nodes(G) : s = Start(t)
    BY <1>1, StartIs DEF Walking
  <2>2. PICK F, Q : F = found[t] /\ Q = queue[t]
    OBVIOUS
  <2>3. WayMap(G, s, F) /\ Q \in Seq(DOMAIN F) /\ Q = << >> /\ Last(ends[t]) \notin DOMAIN F /\ Bfs(G, s, F, Q)
    BY <1>1, <1>5, <2>1, <2>2 DEF Walking, Exact
  <2>4. \A w \in Ways(G, s) : Last(w.hops) # Last(ends[t])
    BY <2>3, Nearest
  <2>5. Start(t)' = s /\ ends'[t] = ends[t] /\ ResolvedSo(G, t)'
    BY <1>1, <2>1 DEF Start, ResolvedSo, Lookups, Walking
  <2>6. NoAnswer(G, t)'
    <3>1. \A w \in Ways(G, Start(t)') : Last(w.hops) # Last(ends'[t])
      BY <2>4, <2>5
    <3> QED BY <1>3, <2>5, <3>1, Zenon DEF NoAnswer
  <2> QED BY <1>2, <1>3, <2>6 DEF Exact
<1> QED BY <1>2, <1>4, <1>5

\* Who does not step has the call it had.
SameCall(t) ==
    /\ upc'[t] = upc[t] /\ request'[t] = request[t] /\ ends'[t] = ends[t] /\ found'[t] = found[t]
    /\ queue'[t] = queue[t] /\ answer'[t] = answer[t]

LEMMA OthersStay ==
    ASSUME NEW t, SameCall(t), NEW G
    PROVE  (Going(G, t) => Going(G, t)') /\ (Exact(G, t) => Exact(G, t)')
<1>1. Lookups(t)' = Lookups(t) /\ Start(t)' = Start(t) /\ Ended(t)' = Ended(t) /\ ResolvedSo(G, t)' = ResolvedSo(G, t)
  BY DEF SameCall, Lookups, Start, Ended, ResolvedSo
<1>2. Resolving(G, t)' = Resolving(G, t) /\ Walking(G, t)' = Walking(G, t) /\ Answering(G, t)' = Answering(G, t)
  BY <1>1 DEF SameCall, Resolving, Walking, Answering
<1>3. ShortestAnswer(G, t)' = ShortestAnswer(G, t) /\ NoAnswer(G, t)' = NoAnswer(G, t)
  BY <1>1, Zenon DEF SameCall, ShortestAnswer, NoAnswer
<1>4. Going(G, t) => Going(G, t)'
  BY <1>1, <1>2 DEF SameCall, Going
<1>5. Exact(G, t) => Exact(G, t)'
  BY <1>1, <1>3, Zenon DEF SameCall, Exact
<1> QED BY <1>4, <1>5

\* The graphs of parts of the table, and the types of the state.
Graphs == {Rebuild(S) : S \in SUBSET DOMAIN edges}

UnitsBase ==
    /\ edges \in Tables /\ graph \in Graphs /\ saved \in [Auditors -> Graphs]
    /\ DOMAIN at = Auditors /\ DOMAIN complaints = Auditors /\ DOMAIN disturbed = Threads
    /\ calls \in [Threads -> Nat] /\ CallTyped

\* A caller's call, whatever the audits do: it goes through edges of the table.
Asking(c) ==
    /\ Going(Whole, c) /\ upc[c] \in {"idle", "resolve", "walk"}
    /\ request[c] \in Requests \/ (upc[c] = "idle" /\ answer[c] = Nothing)
CallersAsk == \A c \in Callers : Asking(c)

CallStep(t) == Resolve(t) \/ Walk(t) \/ Unconnected(t)
AuditStep(t) == Audit(t) \/ (t \in Auditors /\ (Save(t) \/ Swap(t) \/ Restore(t)))

\* The graphs an audit puts in the global's place.
LEMMA GraphIs ==
    ASSUME edges \in Tables, NEW g \in Graphs
    PROVE  Charted(g) /\ Joined(g) /\ g \subseteq Whole /\ Charted(Whole) /\ Joined(Whole)
<1>1. PICK S \in SUBSET DOMAIN edges : g = Rebuild(S)
  BY DEF Graphs
<1>2. Charted(g) /\ g \subseteq Whole
  BY <1>1, RebuildIs
<1>3. Charted(Whole)
  BY RebuildIs DEF Whole
<1> QED BY <1>2, <1>3, ChartedJoined

LEMMA GraphsAre == Whole \in Graphs /\ \A i : Rebuild(Without(i)) \in Graphs
BY DEF Graphs, Whole, Without

LEMMA SameTable == ASSUME edges' = edges PROVE Whole' = Whole /\ Graphs' = Graphs
BY DEF Whole, Graphs, Rebuild

\* What a step of a call leaves alone.
LEMMA CallStepIs ==
    ASSUME CallTyped, NEW t \in Threads, CallStep(t)
    PROVE  /\ UNCHANGED <<edges, graph, at, saved, complaints, calls, disturbed>> /\ request'[t] = request[t]
           /\ upc[t] \in {"resolve", "walk"} /\ upc'[t] \in {"resolve", "walk", IF t \in Auditors THEN "derived" ELSE "idle"}
           /\ CallTyped' /\ \A u \in Threads : u # t => SameCall(u)
<1>1. ASSUME NEW a, Return(t, a)
      PROVE  /\ upc'[t] = (IF t \in Auditors THEN "derived" ELSE "idle")
             /\ upc' \in [Threads -> Stages] /\ DOMAIN answer' = Threads
             /\ \A u \in Threads : u # t => upc'[u] = upc[u] /\ answer'[u] = answer[u]
  BY <1>1 DEF Return, CallTyped, Stages
<1>2. CASE Resolve(t)
  <2>1. UNCHANGED <<edges, graph, request, at, saved, complaints, calls, disturbed>> /\ upc[t] = "resolve"
    BY <1>2 DEF Resolve
  <2>2. PICK q, s, e :
          \/ Return(t, e) /\ UNCHANGED <<ends, found, queue>>
          \/ ends' = [ends EXCEPT ![t] = q] /\ UNCHANGED <<found, queue, answer, upc>>
          \/ /\ ends' = [ends EXCEPT ![t] = q]
             /\ found' = [found EXCEPT ![t] = [n \in {s} |-> Here(n)]]
             /\ queue' = [queue EXCEPT ![t] = <<s>>]
             /\ upc' = [upc EXCEPT ![t] = "walk"]
             /\ UNCHANGED answer
          \/ /\ ends' = [ends EXCEPT ![t] = q]
             /\ Return(t, e)
             /\ UNCHANGED <<found, queue>>
    BY <1>2, Zenon DEF Resolve
  <2> QED BY <1>1, <2>1, <2>2 DEF SameCall, CallTyped, Stages
<1>3. CASE Walk(t)
  <2>1. UNCHANGED <<edges, graph, request, ends, at, saved, complaints, calls, disturbed>> /\ upc[t] = "walk"
    BY <1>3 DEF Walk
  <2>2. PICK r, q, e :
          \/ Return(t, e) /\ UNCHANGED <<found, queue>>
          \/ /\ found' = [found EXCEPT ![t] = r]
             /\ queue' = [queue EXCEPT ![t] = Tail(@) \o q]
             /\ UNCHANGED <<answer, upc>>
    BY <1>3, Zenon DEF Walk
  <2> QED BY <1>1, <2>1, <2>2 DEF SameCall, CallTyped, Stages
<1>4. CASE Unconnected(t)
  <2>1. UNCHANGED <<edges, graph, request, ends, found, queue, at, saved, complaints, calls, disturbed>> /\ upc[t] = "walk"
    BY <1>4 DEF Unconnected
  <2>2. PICK e : Return(t, e)
    BY <1>4 DEF Unconnected
  <2> QED BY <1>1, <2>1, <2>2 DEF SameCall, CallTyped, Stages
<1> QED BY <1>2, <1>3, <1>4 DEF CallStep

\* The three steps together.
LEMMA CallGoes ==
    ASSUME CallTyped, NEW t \in Threads, NEW G, Joined(G), Charted(graph), graph \subseteq G, Going(G, t), CallStep(t)
    PROVE  Going(G, t)' /\ CallTyped' /\ (graph = G /\ Exact(G, t) => Exact(G, t)')
BY ResolveGoes, WalkGoes, UnconnectedGoes DEF CallStep

\* Beginning a call touches no other.
LEMMA BeginIs ==
    ASSUME CallTyped, NEW t \in Threads, NEW r, Begin(t, r)
    PROVE  CallTyped' /\ \A u \in Threads : u # t => SameCall(u)
BY DEF Begin, CallTyped, SameCall, Stages

\* What an audit's own steps leave alone.
LEMMA AuditStepIs ==
    ASSUME UnitsBase, NEW t \in Threads, AuditStep(t)
    PROVE  UnitsBase' /\ t \in Auditors /\ edges' = edges /\ \A u \in Threads : u # t => SameCall(u)
<1>0. t \in Auditors
  BY DEF AuditStep, Audit
<1>1. CASE Audit(t)
  BY <1>0, <1>1, SameTable DEF Audit, call, SameCall, UnitsBase, CallTyped, Stages
<1>2. CASE Save(t)
  <2>1. edges' = edges /\ graph' = graph /\ UNCHANGED <<request, ends, found, queue, answer, at, complaints, calls, disturbed>>
        /\ saved' = [saved EXCEPT ![t] = graph] /\ upc' = [upc EXCEPT ![t] = "swap"]
    BY <1>2 DEF Save, call
  <2>2. CallTyped' /\ \A u \in Threads : u # t => SameCall(u)
    BY <2>1 DEF UnitsBase, CallTyped, Stages, SameCall
  <2> QED BY <1>0, <2>1, <2>2, SameTable DEF UnitsBase
<1>3. CASE Swap(t)
  <2>1. PICK r : Begin(t, r)
    BY <1>3 DEF Swap
  <2>2. graph' \in Graphs /\ UNCHANGED <<edges, at, saved, complaints, calls, disturbed>>
    BY <1>3, GraphsAre DEF Swap
  <2>3. CallTyped' /\ \A u \in Threads : u # t => SameCall(u)
    BY <2>1, BeginIs DEF UnitsBase
  <2> QED BY <1>0, <2>2, <2>3, SameTable DEF UnitsBase
<1>4. CASE Restore(t)
  <2>1. PICK b, c, d : /\ graph' = saved[t] /\ complaints' = [complaints EXCEPT ![t] = b]
                       /\ at' = [at EXCEPT ![t] = c] /\ upc' = [upc EXCEPT ![t] = d] /\ d \in Stages
                       /\ UNCHANGED <<edges, call, saved, calls, disturbed>>
    BY <1>4, Zenon DEF Restore, PutBack, Stages
  <2>2. CallTyped' /\ \A u \in Threads : u # t => SameCall(u)
    BY <2>1 DEF UnitsBase, CallTyped, SameCall, call
  <2>3. graph' \in Graphs
    BY <1>0, <2>1 DEF UnitsBase
  <2> QED BY <1>0, <2>1, <2>2, <2>3, SameTable DEF UnitsBase
<1> QED BY <1>1, <1>2, <1>3, <1>4 DEF AuditStep

\* What a caller's asking leaves alone.
LEMMA AskIs ==
    ASSUME UnitsBase, NEW t \in Threads, NEW r \in Requests, Ask(t, r)
    PROVE  /\ UnitsBase' /\ t \in Callers /\ edges' = edges /\ \A u \in Threads : u # t => SameCall(u)
           /\ IsName(r.from) /\ IsName(r.to) /\ Begin(t, r)
<1>1. IsName(r.from) /\ IsName(r.to)
  BY RequestsAssumption DEF IsName
<1>2. Begin(t, r) /\ t \in Callers /\ UNCHANGED <<edges, graph, at, saved, complaints>>
      /\ calls' = [calls EXCEPT ![t] = @ + 1] /\ disturbed' = [disturbed EXCEPT ![t] = Auditing # {}]
  BY DEF Ask
<1>3. CallTyped' /\ \A u \in Threads : u # t => SameCall(u)
  BY <1>2, BeginIs DEF UnitsBase
<1> QED BY <1>1, <1>2, <1>3, SameTable DEF UnitsBase

\* A step is a caller's asking, an audit's own step or a step of a call.
LEMMA UnitsNextIs ==
    ASSUME UnitsNext
    PROVE  \E t \in Threads : (\E r \in Requests : Ask(t, r)) \/ AuditStep(t) \/ CallStep(t)
BY Zenon DEF UnitsNext, UnitsStep, CallStep, AuditStep

\* The types are kept.
LEMMA BaseKept == ASSUME UnitsBase, UnitsNext PROVE UnitsBase' /\ edges' = edges
<1>1. PICK t \in Threads : (\E r \in Requests : Ask(t, r)) \/ AuditStep(t) \/ CallStep(t)
  BY UnitsNextIs
<1>2. CASE \E r \in Requests : Ask(t, r)
  BY <1>2, AskIs
<1>3. CASE AuditStep(t)
  BY <1>3, AuditStepIs
<1>4. CASE CallStep(t)
  <2>1. UNCHANGED <<edges, graph, at, saved, complaints, calls, disturbed>> /\ CallTyped'
    BY <1>4, CallStepIs DEF UnitsBase
  <2> QED BY <2>1, SameTable DEF UnitsBase
<1> QED BY <1>1, <1>2, <1>3, <1>4

\* What the callers have is in the table, step by step.
LEMMA CallersKept == ASSUME UnitsBase, CallersAsk, UnitsNext PROVE CallersAsk'
<1>0. PICK W : W = Whole
  OBVIOUS
<1>1. PICK t \in Threads : (\E r \in Requests : Ask(t, r)) \/ AuditStep(t) \/ CallStep(t)
  BY UnitsNextIs
<1>2. edges' = edges /\ Whole' = W
  BY <1>0, BaseKept, SameTable
<1>3. Joined(W) /\ Charted(graph) /\ graph \subseteq W
  BY <1>0, GraphIs DEF UnitsBase
<1>4. SUFFICES ASSUME NEW c \in Callers PROVE Asking(c)'
  BY DEF CallersAsk
<1>5. Going(W, c) /\ upc[c] \in {"idle", "resolve", "walk"} /\ (request[c] \in Requests \/ (upc[c] = "idle" /\ answer[c] = Nothing))
      /\ c \in Threads /\ c \notin Auditors
  BY <1>0, ThreadsAssumption DEF CallersAsk, Asking, Threads
<1>6. ASSUME SameCall(c) PROVE Asking(c)'
  <2>1. Going(W, c)'
    BY <1>5, <1>6, OthersStay
  <2> QED BY <1>2, <1>5, <1>6, <2>1 DEF Asking, SameCall
<1>7. CASE c # t
  <2>1. SameCall(c)
    BY <1>1, <1>5, <1>7, AskIs, AuditStepIs, CallStepIs DEF UnitsBase
  <2> QED BY <1>6, <2>1
<1>8. CASE c = t /\ \E r \in Requests : Ask(t, r)
  <2>1. PICK r \in Requests : Ask(t, r)
    BY <1>8
  <2>2. IsName(r.from) /\ IsName(r.to) /\ Begin(t, r)
    BY <2>1, AskIs
  <2>3. Going(W, t)' /\ upc'[t] = "resolve" /\ request'[t] = r
    BY <2>2, BeginGoes DEF UnitsBase
  <2> QED BY <1>2, <1>8, <2>3 DEF Asking
<1>9. CASE c = t /\ AuditStep(t)
  BY <1>5, <1>9, AuditStepIs
<1>10. CASE c = t /\ CallStep(t)
  <2>1. Going(W, t)'
    BY <1>3, <1>5, <1>10, CallGoes DEF UnitsBase
  <2>2. request'[t] = request[t] /\ upc[t] \in {"resolve", "walk"} /\ upc'[t] \in {"resolve", "walk", IF t \in Auditors THEN "derived" ELSE "idle"}
    BY <1>10, CallStepIs DEF UnitsBase
  <2> QED BY <1>2, <1>5, <1>10, <2>1, <2>2 DEF Asking
<1> QED BY <1>1, <1>7, <1>8, <1>9, <1>10

\* Nor does it change when nothing does.
LEMMA UnitsStutters == ASSUME UnitsBase, CallersAsk, UNCHANGED unitsVars PROVE UnitsBase' /\ CallersAsk'
<1>0. PICK W : W = Whole
  OBVIOUS
<1>1. UNCHANGED <<edges, graph, upc, at, saved, complaints, calls, disturbed>>
      /\ UNCHANGED <<request, ends, found, queue, answer>>
  BY DEF unitsVars, call
<1>2. Whole' = W /\ Graphs' = Graphs
  BY <1>0, <1>1, SameTable
<1>3. UnitsBase'
  BY <1>1, <1>2 DEF UnitsBase, CallTyped
<1>4. ASSUME NEW c \in Callers PROVE Asking(c)'
  <2>1. SameCall(c)
    BY <1>1 DEF SameCall
  <2>2. Going(W, c)'
    BY <1>0, <2>1, OthersStay DEF CallersAsk, Asking
  <2> QED BY <1>1, <1>2, <2>2 DEF CallersAsk, Asking
<1> QED BY <1>3, <1>4 DEF CallersAsk

\* It holds at the start.
LEMMA UnitsBegin == ASSUME UnitsInit PROVE UnitsBase /\ CallersAsk /\ \A t \in Threads : \A G : Going(G, t) /\ Exact(G, t)
<1>1. \A t \in Threads : upc[t] = "idle" /\ answer[t] = Nothing /\ answer[t].kind = "nothing"
  BY DEF UnitsInit, Nothing
<1>2. \A t \in Threads : \A G : Going(G, t) /\ Exact(G, t)
  BY <1>1 DEF Going, Exact, Ended
<1>3. {} \in Graphs
  <2>1. Rebuild({}) = {}
    BY DEF Rebuild
  <2> QED BY <2>1 DEF Graphs
<1>4. UnitsBase
  BY <1>3, GraphsAre DEF UnitsInit, UnitsBase, CallTyped, Stages, Threads
<1>5. CallersAsk
  BY <1>1, <1>2 DEF CallersAsk, Asking, Threads
<1> QED BY <1>2, <1>4, <1>5

\* An answer is then derived from the table, and a comparison is right in any unit.
LEMMA AnswersAre == ASSUME UnitsBase, CallersAsk PROVE AnswersDerived
<1>1. SUFFICES ASSUME NEW c \in Callers, Answered(c) PROVE answer[c].value \in WaysTo(Whole, Start(c), Last(ends[c]))
  BY DEF AnswersDerived
<1>2. Answering(Whole, c)
  BY <1>1 DEF CallersAsk, Asking, Going, Ended, Answered
<1>3. Start(c) \in Nodes(Whole)
  BY <1>2, StartIs DEF Answering, Threads
<1> QED BY <1>2, <1>3 DEF Answering, WaysTo

\* With the factors of a table that agrees with itself as a potential.
LEMMA ComparisonsAre == ASSUME UnitsBase, CallersAsk PROVE ComparesInAnyUnit
<1>1. SUFFICES ASSUME NEW c \in Callers, Answered(c), request[c].op = "compare", Agreeing,
                      NEW l \in Ways(Whole, Last(ends[c])), NEW r \in Ways(Whole, Start(c)), Last(l.hops) = Last(r.hops)
               PROVE  Comparison(request[c], answer[c].value.acc)
                        = Sign(Minus(Times(request[c].value, l.acc), Times(request[c].other, r.acc)))
  BY DEF ComparesInAnyUnit
<1>2. Answering(Whole, c) /\ Asking(c)
  BY <1>1 DEF CallersAsk, Asking, Going, Ended, Answered
<1>3. PICK W, s, v : W = Whole /\ s = Start(c) /\ v = answer[c].value
  OBVIOUS
<1>4. Charted(W) /\ Agrees(W)
  BY <1>1, <1>3, GraphIs DEF UnitsBase, Agreeing, Agrees
<1>5. s \in Nodes(W) /\ v \in Ways(W, s) /\ Last(v.hops) = Last(ends[c]) /\ Last(ends[c]) \in Nodes(W)
  BY <1>2, <1>3, StartIs DEF Answering, Threads
<1>6. r.acc = Times(v.acc, l.acc)
  BY <1>1, <1>3, <1>4, <1>5, Potential
<1>7. Positive(v.acc) /\ Positive(l.acc)
  BY <1>3, <1>4, <1>5, WayFactors
<1>8. request[c] \in Requests
  <2>1. answer[c] # Nothing
    BY <1>1 DEF Answered, Nothing
  <2> QED BY <1>2, <2>1 DEF Asking
<1>9. IsFraction(request[c].value) /\ IsFraction(request[c].other)
  BY <1>1, <1>8, RequestsAssumption, LowestTerms
<1> QED BY <1>3, <1>6, <1>7, <1>9, ComparisonIs

\* What a conversion returns is the product along a path of the table, and a comparison is right
\* in any unit, whatever other threads convert and audit, however many and however they interleave.
THEOREM AnswersDerivedTheorem == UnitsSpec => [](AnswersDerived /\ ComparesInAnyUnit)
<1>1. UnitsInit => UnitsBase /\ CallersAsk
  BY UnitsBegin
<1>2. (UnitsBase /\ CallersAsk) /\ [UnitsNext]_unitsVars => (UnitsBase /\ CallersAsk)'
  BY BaseKept, CallersKept, UnitsStutters
<1>3. UnitsBase /\ CallersAsk => AnswersDerived /\ ComparesInAnyUnit
  BY AnswersAre, ComparisonsAre
<1> QED BY <1>1, <1>2, <1>3, PTL DEF UnitsSpec

-----------------------------------------------------------------------------
(* Units: conversions and audits, with one auditor. *)

\* One thread at most audits.
OneAuditor == \A a, b \in Auditors : a = b

\* What an audit asks for, the ends it resolves it to, and the derivation on the graph without it.
Entry(i) == [op |-> "factor", from |-> <<edges[i].a>>, to |-> <<edges[i].b>>]
Named(a) ==
    /\ Len(ends[a]) >= 1 => ends[a][1] = edges[at[a]].a
    /\ Len(ends[a]) >= 2 => ends[a][2] = edges[at[a]].b
Deriving(a) ==
    /\ graph = Rebuild(Without(at[a])) /\ saved[a] = Whole /\ request[a] = Entry(at[a])
    /\ Going(graph, a) /\ Exact(graph, a) /\ Named(a)

\* The complaints are right about an entry.
RightOf(a, i) ==
    /\ i \in complaints[a] => \E w \in OtherWays(i) : w.acc # edges[i].f
    /\ OtherWays(i) # {} /\ (\A w \in OtherWays(i) : w.acc # edges[i].f) => i \in complaints[a]

\* An audit knows where it is: the graph is whole while it rests, and lacks the entry it
\* derives while it does; the entries it is done with have their complaints.
AuditorAt(a) ==
    /\ at[a] \in 0 .. Len(edges) /\ (at[a] = 0 <=> upc[a] = "idle")
    /\ upc[a] \in {"idle", "save", "swap"} => graph = Whole
    /\ upc[a] = "swap" => saved[a] = Whole
    /\ upc[a] \in {"resolve", "walk", "derived"} => Deriving(a)
    /\ at[a] > 0 => \A i \in complaints[a] : i \in Nat /\ i < at[a]
    /\ \A i \in 1 .. Len(edges) : i < at[a] \/ (at[a] = 0 /\ calls[a] > 0) => RightOf(a, i)
AuditorsAt == \A a \in Auditors : AuditorAt(a)

\* A call no audit was under way of runs on the whole graph.
Undisturbed(c) == ~disturbed[c] => Exact(Whole, c) /\ (upc[c] # "idle" => Auditing = {})
UnitsIInv == UnitsBase /\ CallersAsk /\ AuditorsAt /\ GraphRestored /\ \A c \in Callers : Undisturbed(c)

\* Who audits is not idle.
LEMMA AuditingIs == ASSUME AuditorsAt PROVE \A a \in Auditors : (a \in Auditing <=> at[a] # 0) /\ (upc[a] # "idle" => Auditing # {})
<1>1. \A a \in Auditors : at[a] \in Nat /\ (at[a] = 0 <=> upc[a] = "idle")
  <2>1. ASSUME NEW a \in Auditors PROVE at[a] \in Nat /\ (at[a] = 0 <=> upc[a] = "idle")
    <3>1. AuditorAt(a)
      BY DEF AuditorsAt
    <3> QED BY <3>1 DEF AuditorAt
  <2> QED BY <2>1
<1> QED BY <1>1 DEF Auditing

LEMMA WithoutIs == ASSUME NEW i PROVE Without(i) \in SUBSET DOMAIN edges
BY DEF Without

\* An audit asks for the entry by its own names.
LEMMA NamedGoes ==
    ASSUME NEW a \in Auditors, CallTyped, NEW G, graph \subseteq G, Going(G, a), Named(a), request[a] = Entry(at[a]), Resolve(a)
    PROVE  Named(a)'
<1>1. Resolving(G, a) /\ edges' = edges /\ at' = at
  BY DEF Resolve, Going
<1>2. request[a].op = "factor" /\ request[a].from = <<edges[at[a]].a>> /\ request[a].to = <<edges[at[a]].b>>
  BY DEF Entry
<1>3. PICK k \in Nat : k = Len(ends[a]) /\ k < 2
  BY <1>1, <1>2, LenProperties DEF Resolving, Lookups
<1>4. PICK n : n = IF k = 0 THEN edges[at[a]].a ELSE edges[at[a]].b
  OBVIOUS
<1>5. Lookup(a) = <<n>>
  BY <1>2, <1>3, <1>4 DEF Lookup
<1>6. IsName(<<n>>) /\ Known(<<n>>, graph) => Canonical(<<n>>, graph) = n
  <2>1. \A i \in DOMAIN <<n>> : <<n>>[i] = n
    OBVIOUS
  <2> QED BY <2>1, CanonicalIs
<1>7. IsName(<<n>>)
  BY <1>1, <1>5, LookupIs DEF Threads
<1>8. PICK q : q = Append(ends[a], Canonical(Lookup(a), graph))
  OBVIOUS
<1>9. ends' = ends \/ (ends' = [ends EXCEPT ![a] = q] /\ Known(Lookup(a), graph))
  BY <1>8, Zenon DEF Resolve
<1>10. CASE ends' = ends
  BY <1>1, <1>10 DEF Named
<1>11. CASE ends' = [ends EXCEPT ![a] = q] /\ Known(Lookup(a), graph)
  <2>1. ends'[a] = q
    BY <1>11 DEF CallTyped, Threads
  <2>2. ends[a] \in Seq(Nodes(G)) /\ n \in Nodes(G) /\ q = Append(ends[a], n)
    <3>1. Canonical(Lookup(a), graph) = n /\ n \in Nodes(graph)
      BY <1>5, <1>6, <1>7, <1>11, CanonicalIs
    <3>2. n \in Nodes(G)
      BY <3>1 DEF Nodes
    <3>3. ends[a] \in Seq(Nodes(G))
      BY <1>1 DEF Resolving
    <3>4. q = Append(ends[a], n)
      BY <1>8, <3>1, Zenon
    <3> QED BY <3>2, <3>3, <3>4
  <2>3. Len(q) = k + 1 /\ q[k + 1] = n /\ \A i \in 1 .. k : q[i] = ends[a][i]
    BY <1>3, <2>2, AppendProperties
  <2>4. CASE k = 0
    <3>1. Len(q) = 1 /\ q[1] = edges[at[a]].a
      BY <1>4, <2>3, <2>4
    <3> QED BY <1>1, <2>1, <3>1 DEF Named
  <2>5. CASE k = 1
    <3>1. Len(q) = 2 /\ q[2] = edges[at[a]].b /\ q[1] = ends[a][1] /\ Len(ends[a]) >= 1
      BY <1>3, <1>4, <2>3, <2>5
    <3> QED BY <1>1, <2>1, <3>1 DEF Named
  <2>6. \A j \in Nat : j < 2 => j = 0 \/ j = 1
    OBVIOUS
  <2> QED BY <1>3, <2>4, <2>5, <2>6, Zenon
<1> QED BY <1>9, <1>10, <1>11

\* What an entry's derivation answers is what the other ways are.
LEMMA DerivedIs ==
    ASSUME edges \in Tables, NEW a \in Auditors, upc[a] = "derived", Deriving(a)
    PROVE  /\ answer[a].kind \in {"found", "refused"}
           /\ answer[a].kind = "found" => answer[a].value \in OtherWays(at[a])
           /\ answer[a].kind = "refused" => OtherWays(at[a]) = {}
<1>1. PICK G, i : G = graph /\ i = at[a] /\ G = Rebuild(Without(i)) /\ Going(G, a) /\ Exact(G, a) /\ Named(a) /\ request[a] = Entry(i)
  BY DEF Deriving
<1>2. Joined(G)
  BY <1>1, WithoutIs, RebuildIs, ChartedJoined
<1>3. Ended(a) /\ answer[a].kind \in {"found", "refused"}
  BY <1>1 DEF Ended, Exact
<1>4. PICK s, e : s = edges[i].a /\ e = edges[i].b
  OBVIOUS
<1>5. OtherWays(i) = IF s \in Nodes(G) THEN {w \in Ways(G, s) : Last(w.hops) = e} ELSE {}
  BY <1>1, <1>4 DEF OtherWays, WaysTo
<1>6. Lookups(a) = 2 /\ request[a].from = <<s>> /\ request[a].to = <<e>>
  BY <1>1, <1>4 DEF Lookups, Entry
<1>7. ASSUME ResolvedSo(G, a) PROVE Start(a) = s /\ Last(ends[a]) = e /\ s \in Nodes(G)
  <2>1. Len(ends[a]) = 2 /\ ends[a] \in Seq(Nodes(G))
    BY <1>6, <1>7 DEF ResolvedSo
  <2>2. ends[a][1] = s /\ ends[a][2] = e
    BY <1>1, <1>4, <2>1 DEF Named
  <2>3. Last(ends[a]) = ends[a][2] /\ Start(a) = ends[a][1]
    BY <2>1 DEF Last, Start
  <2>4. ends[a][1] \in Nodes(G)
    BY <2>1, ElementOfSeq
  <2> QED BY <2>2, <2>3, <2>4
<1>8. ASSUME answer[a].kind = "found" PROVE answer[a].value \in OtherWays(i)
  <2>1. Answering(G, a)
    BY <1>1, <1>3, <1>8 DEF Going
  <2> QED BY <1>5, <1>7, <2>1 DEF Answering
<1>9. ASSUME answer[a].kind = "refused" PROVE OtherWays(i) = {}
  <2>1. NoAnswer(G, a)
    BY <1>1, <1>3, <1>9 DEF Exact
  <2>2. CASE \E n \in {request[a].from, request[a].to} : ~Known(n, G)
    <3>1. \A n : n \in Nodes(G) => Known(<<n>>, G)
      <4>1. ASSUME NEW n \in Nodes(G) PROVE Known(<<n>>, G)
        <5>1. 1 \in DOMAIN <<n>> /\ <<n>>[1] = n
          OBVIOUS
        <5> QED BY <5>1 DEF Known
      <4> QED BY <4>1
    <3>2. s \notin Nodes(G) \/ e \notin Nodes(G)
      BY <1>6, <2>2, <3>1
    <3>3. ASSUME s \in Nodes(G), NEW w \in Ways(G, s) PROVE Last(w.hops) \in Nodes(G)
      <4>1. IsWay(G, w)
        BY <1>2, <3>3, WaysTyped
      <4> QED BY <4>1, LastIs DEF IsWay
    <3> QED BY <1>5, <3>2, <3>3
  <2>3. CASE ResolvedSo(G, a) /\ \A w \in Ways(G, Start(a)) : Last(w.hops) # Last(ends[a])
    BY <1>5, <1>7, <2>3
  <2> QED BY <2>1, <2>2, <2>3, Zenon DEF NoAnswer
<1> QED BY <1>1, <1>3, <1>8, <1>9

\* A step of a call: the auditor derives on, a caller alone converts exactly.
LEMMA CallKeeps == ASSUME OneAuditor, UnitsIInv, NEW t \in Threads, CallStep(t) PROVE UnitsIInv'
<1>0. PICK W : W = Whole
  OBVIOUS
<1>1. UnitsBase' /\ CallersAsk'
  BY BaseKept, CallersKept DEF UnitsIInv, UnitsNext, UnitsStep, CallStep
<1>2. UNCHANGED <<edges, graph, at, saved, complaints, calls, disturbed>> /\ request'[t] = request[t]
      /\ upc[t] \in {"resolve", "walk"} /\ upc'[t] \in {"resolve", "walk", IF t \in Auditors THEN "derived" ELSE "idle"}
      /\ \A u \in Threads : u # t => SameCall(u)
  BY CallStepIs DEF UnitsIInv, UnitsBase
<1>3. Whole' = W /\ Auditing' = Auditing /\ \A i : Rebuild(Without(i))' = Rebuild(Without(i)) /\ OtherWays(i)' = OtherWays(i)
  BY <1>0, <1>2, SameTable DEF Auditing, Rebuild, Without, OtherWays
<1>4. GraphRestored'
  BY <1>0, <1>2, <1>3 DEF UnitsIInv, GraphRestored
<1>5. ASSUME NEW c \in Callers PROVE Undisturbed(c)'
  <2>1. SUFFICES ASSUME ~disturbed[c] PROVE Exact(W, c)' /\ (upc'[c] # "idle" => Auditing = {})
    BY <1>2, <1>3 DEF Undisturbed
  <2>2. Exact(W, c) /\ (upc[c] # "idle" => Auditing = {}) /\ c \in Threads
    BY <1>0, <2>1 DEF UnitsIInv, Undisturbed, Threads
  <2>3. CASE c # t
    <3>1. SameCall(c)
      BY <1>2, <2>2, <2>3
    <3> QED BY <2>2, <3>1, OthersStay DEF SameCall
  <2>4. CASE c = t
    <3>1. graph = W /\ Auditing = {}
      BY <1>0, <1>2, <2>2, <2>4 DEF UnitsIInv, GraphRestored
    <3>2. Joined(W) /\ Charted(graph) /\ graph \subseteq W /\ Going(W, t)
      BY <1>0, <2>4, GraphIs DEF UnitsIInv, UnitsBase, CallersAsk, Asking
    <3>3. Exact(W, t)'
      BY <2>2, <2>4, <3>1, <3>2, CallGoes DEF UnitsIInv, UnitsBase
    <3> QED BY <2>4, <3>1, <3>3
  <2> QED BY <2>3, <2>4
<1>6. ASSUME NEW a \in Auditors PROVE AuditorAt(a)'
  <2>1. AuditorAt(a) /\ a \in Threads
    BY DEF UnitsIInv, AuditorsAt, Threads
  <2>2. \A i : RightOf(a, i)' = RightOf(a, i)
    BY <1>2, <1>3 DEF RightOf
  <2>3. CASE a # t
    <3>1. SameCall(a)
      BY <1>2, <2>1, <2>3
    <3>2. Deriving(a) => Deriving(a)'
      <4>1. SUFFICES ASSUME Deriving(a) PROVE Deriving(a)'
        OBVIOUS
      <4>2. PICK G : G = graph /\ Going(G, a) /\ Exact(G, a)
        BY <4>1 DEF Deriving
      <4>3. Going(G, a)' /\ Exact(G, a)'
        BY <3>1, <4>2, OthersStay
      <4>4. Named(a)' /\ Entry(at[a])' = Entry(at[a])
        BY <1>2, <3>1, <4>1 DEF Named, SameCall, Deriving, Entry
      <4> QED BY <1>0, <1>2, <1>3, <3>1, <4>1, <4>2, <4>3, <4>4 DEF Deriving, SameCall
    <3>3. upc'[a] = upc[a]
      BY <3>1 DEF SameCall
    <3> QED BY <1>0, <1>2, <1>3, <2>1, <2>2, <3>2, <3>3 DEF AuditorAt
  <2>4. CASE a = t
    <3>1. Deriving(a) /\ at[a] # 0 /\ upc'[a] \in {"resolve", "walk", "derived"}
      BY <1>2, <2>1, <2>4 DEF AuditorAt
    <3>2. PICK G : G = graph /\ Going(G, a) /\ Exact(G, a)
      BY <3>1 DEF Deriving
    <3>3. Charted(graph) /\ Joined(G)
      BY <3>2, GraphIs DEF UnitsIInv, UnitsBase
    <3>4. Going(G, a)' /\ Exact(G, a)'
      BY <2>1, <2>4, <3>2, <3>3, CallGoes DEF UnitsIInv, UnitsBase
    <3>5. Named(a)'
      <4>1. Named(a) /\ request[a] = Entry(at[a])
        BY <3>1 DEF Deriving
      <4>2. CASE Resolve(a)
        BY <3>2, <4>1, <4>2, NamedGoes DEF UnitsIInv, UnitsBase
      <4>3. CASE Walk(a) \/ Unconnected(a)
        <5>1. ends' = ends
          BY <4>3 DEF Walk, Unconnected
        <5> QED BY <1>2, <4>1, <5>1 DEF Named
      <4> QED BY <2>4, <4>2, <4>3 DEF CallStep
    <3>6. Entry(at[a])' = Entry(at[a])
      BY <1>2 DEF Entry
    <3>7. Deriving(a)'
      BY <1>0, <1>2, <1>3, <2>4, <3>1, <3>2, <3>4, <3>5, <3>6 DEF Deriving
    <3> QED BY <1>2, <1>3, <2>1, <2>2, <3>1, <3>7 DEF AuditorAt
  <2> QED BY <2>3, <2>4
<1> QED BY <1>1, <1>4, <1>5, <1>6 DEF UnitsIInv, AuditorsAt

\* A caller's asking: it is undisturbed if the graph is whole then.
LEMMA AskKeeps == ASSUME OneAuditor, UnitsIInv, NEW t \in Threads, NEW r \in Requests, Ask(t, r) PROVE UnitsIInv'
<1>0. PICK W : W = Whole
  OBVIOUS
<1>1. UnitsNext
  BY Zenon DEF UnitsNext
<1>2. UnitsBase' /\ CallersAsk'
  BY <1>1, BaseKept, CallersKept DEF UnitsIInv
<1>3. t \in Callers /\ t \notin Auditors /\ IsName(r.from) /\ IsName(r.to) /\ Begin(t, r) /\ \A u \in Threads : u # t => SameCall(u)
  BY AskIs, ThreadsAssumption DEF UnitsIInv
<1>4. UNCHANGED <<edges, graph, at, saved, complaints>> /\ calls' = [calls EXCEPT ![t] = @ + 1]
      /\ disturbed' = [disturbed EXCEPT ![t] = Auditing # {}]
  BY DEF Ask
<1>5. /\ Whole' = W /\ Auditing' = Auditing
      /\ \A i : Rebuild(Without(i))' = Rebuild(Without(i)) /\ OtherWays(i)' = OtherWays(i) /\ Entry(i)' = Entry(i)
  BY <1>0, <1>4, SameTable DEF Auditing, Rebuild, Without, OtherWays, Entry
<1>6. GraphRestored'
  BY <1>0, <1>4, <1>5 DEF UnitsIInv, GraphRestored
<1>7. ASSUME NEW c \in Callers PROVE Undisturbed(c)'
  <2>1. c \in Threads /\ Undisturbed(c)
    BY DEF Threads, UnitsIInv
  <2>2. CASE c # t
    <3>1. SameCall(c) /\ disturbed'[c] = disturbed[c]
      BY <1>3, <1>4, <2>1, <2>2 DEF UnitsIInv, UnitsBase
    <3>2. Exact(W, c) => Exact(W, c)'
      BY <3>1, OthersStay
    <3> QED BY <1>0, <1>5, <2>1, <3>1, <3>2 DEF Undisturbed, SameCall
  <2>3. CASE c = t
    <3>1. Exact(W, c)'
      BY <1>3, <2>1, <2>3, BeginGoes DEF UnitsIInv, UnitsBase
    <3>2. disturbed'[c] = (Auditing # {})
      BY <1>4, <2>1, <2>3 DEF UnitsIInv, UnitsBase
    <3> QED BY <1>5, <3>1, <3>2 DEF Undisturbed
  <2> QED BY <2>2, <2>3
<1>8. ASSUME NEW a \in Auditors PROVE AuditorAt(a)'
  <2>1. AuditorAt(a) /\ a \in Threads /\ a # t
    BY <1>3 DEF UnitsIInv, AuditorsAt, Threads
  <2>2. SameCall(a) /\ calls'[a] = calls[a]
    BY <1>3, <1>4, <2>1 DEF UnitsIInv, UnitsBase
  <2>3. Deriving(a) => Deriving(a)'
    <3>1. SUFFICES ASSUME Deriving(a) PROVE Deriving(a)'
      OBVIOUS
    <3>2. PICK G : G = graph /\ Going(G, a) /\ Exact(G, a)
      BY <3>1 DEF Deriving
    <3>3. Going(G, a)' /\ Exact(G, a)'
      BY <2>2, <3>2, OthersStay
    <3>4. Named(a)'
      BY <1>4, <2>2, <3>1 DEF Named, SameCall, Deriving
    <3> QED BY <1>0, <1>4, <1>5, <2>2, <3>1, <3>2, <3>3, <3>4 DEF Deriving, SameCall
  <2>4. \A i : RightOf(a, i)' = RightOf(a, i)
    BY <1>4, <1>5 DEF RightOf
  <2>5. upc'[a] = upc[a]
    BY <2>2 DEF SameCall
  <2> QED BY <1>0, <1>4, <1>5, <2>1, <2>2, <2>3, <2>4, <2>5 DEF AuditorAt
<1> QED BY <1>2, <1>6, <1>7, <1>8 DEF UnitsIInv, AuditorsAt

\* The steps of the only audit: the whole graph is saved, and put back.
LEMMA AuditKeeps == ASSUME OneAuditor, UnitsIInv, NEW t \in Threads, AuditStep(t) PROVE UnitsIInv'
<1>0. PICK W : W = Whole
  OBVIOUS
<1>1. UnitsNext
  BY Zenon DEF UnitsNext, UnitsStep, AuditStep
<1>2. UnitsBase' /\ CallersAsk' /\ edges' = edges
  BY <1>1, BaseKept, CallersKept DEF UnitsIInv
<1>3. t \in Auditors /\ \A u \in Threads : u # t => SameCall(u)
  BY AuditStepIs DEF UnitsIInv
<1>4. /\ Whole' = W
      /\ \A i : Rebuild(Without(i))' = Rebuild(Without(i)) /\ OtherWays(i)' = OtherWays(i) /\ Entry(i)' = Entry(i)
  BY <1>0, <1>2, SameTable DEF Rebuild, Without, OtherWays, Entry
<1>5. AuditorAt(t) /\ at[t] \in Nat /\ \A a \in Auditors : a = t
  BY <1>3 DEF UnitsIInv, AuditorsAt, AuditorAt, OneAuditor
<1>6. PICK n \in Nat \ {0} : n = Len(edges) /\ n = Len(edges')
  BY <1>2, TableIs DEF UnitsIInv, UnitsBase
<1>7. /\ DOMAIN upc = Threads /\ DOMAIN at = Auditors /\ DOMAIN complaints = Auditors /\ saved \in [Auditors -> Graphs]
      /\ calls \in [Threads -> Nat] /\ CallTyped /\ DOMAIN disturbed = Threads
  BY DEF UnitsIInv, UnitsBase, CallTyped
<1>8. AuditorAt(t)' /\ GraphRestored' /\ (\A c \in Callers : Undisturbed(c)')
  <2>1. ASSUME Auditing # {} PROVE \A c \in Callers : ~disturbed[c] => upc[c] = "idle"
    BY <2>1 DEF UnitsIInv, Undisturbed
  <2>2. ASSUME disturbed' = disturbed, upc[t] # "idle" PROVE \A c \in Callers : Undisturbed(c)'
    <3>1. SUFFICES ASSUME NEW c \in Callers, ~disturbed[c] PROVE Exact(W, c)' /\ upc'[c] = "idle"
      BY <1>4, <2>2 DEF Undisturbed
    <3>2. SameCall(c) /\ Exact(W, c)
      BY <1>0, <1>3, <3>1, ThreadsAssumption DEF UnitsIInv, Undisturbed, Threads
    <3>3. Auditing # {}
      BY <1>3, <2>2, AuditingIs DEF UnitsIInv
    <3> QED BY <2>1, <3>1, <3>2, <3>3, OthersStay DEF SameCall
  <2>3. CASE Audit(t)
    <3>1. /\ at' = [at EXCEPT ![t] = 1] /\ complaints' = [complaints EXCEPT ![t] = {}] /\ upc' = [upc EXCEPT ![t] = "save"]
          /\ upc[t] = "idle" /\ graph' = graph /\ saved' = saved
          /\ disturbed' = [u \in Threads |-> u # t \/ Auditing # {}]
      BY <2>3 DEF Audit
    <3>2. at'[t] = 1 /\ complaints'[t] = {} /\ upc'[t] = "save" /\ graph = Whole
      BY <1>3, <1>5, <1>7, <3>1 DEF AuditorAt, Threads
    <3>3. AuditorAt(t)'
      BY <1>0, <1>4, <1>6, <3>1, <3>2 DEF AuditorAt
    <3>4. GraphRestored'
      BY <1>0, <1>4, <3>1, <3>2 DEF GraphRestored
    <3>5. ASSUME NEW c \in Callers PROVE disturbed'[c]
      BY <1>3, <3>1, ThreadsAssumption DEF Threads
    <3> QED BY <3>3, <3>4, <3>5 DEF Undisturbed
  <2>4. CASE Save(t)
    <3>1. /\ upc[t] = "save" /\ upc' = [upc EXCEPT ![t] = "swap"] /\ saved' = [saved EXCEPT ![t] = graph]
          /\ UNCHANGED <<graph, at, complaints, calls, disturbed>>
      BY <2>4 DEF Save
    <3>2. upc'[t] = "swap" /\ saved'[t] = graph /\ graph = Whole
      BY <1>3, <1>5, <1>7, <3>1 DEF AuditorAt, Threads
    <3>3. AuditorAt(t)'
      <4>1. \A i : RightOf(t, i)' = RightOf(t, i)
        BY <1>2, <1>4, <3>1 DEF RightOf
      <4> QED BY <1>0, <1>4, <1>5, <1>6, <3>1, <3>2, <4>1 DEF AuditorAt
    <3>4. GraphRestored'
      BY <1>0, <1>4, <3>1, <3>2 DEF GraphRestored
    <3> QED BY <2>2, <3>1, <3>3, <3>4
  <2>5. CASE Swap(t)
    <3>1. /\ upc[t] = "swap" /\ graph' = Rebuild(Without(at[t])) /\ Begin(t, Entry(at[t]))
          /\ UNCHANGED <<at, saved, complaints, calls, disturbed>>
      BY <2>5 DEF Swap, Entry
    <3>2. saved[t] = Whole /\ at[t] # 0
      BY <1>5, <3>1 DEF AuditorAt
    <3>3. PICK r, G : r = Entry(at[t]) /\ G = Rebuild(Without(at[t]))
      OBVIOUS
    <3>4. IsName(r.from) /\ IsName(r.to)
      <4>1. \A x : IsName(<<x>>)
        <5>1. ASSUME NEW x PROVE IsName(<<x>>)
          <6>1. DOMAIN <<x>> = 1 .. 1 /\ <<x>>[1] = x /\ <<x>> \in Seq({x})
            OBVIOUS
          <6>2. {<<x>>[i] : i \in 1 .. 1} = {x}
            BY <6>1
          <6> QED BY <6>1, <6>2 DEF IsName
        <5> QED BY <5>1
      <4> QED BY <3>3, <4>1 DEF Entry
    <3>5. Going(G, t)' /\ Exact(G, t)' /\ upc'[t] = "resolve" /\ request'[t] = r /\ ends'[t] = << >>
      BY <1>3, <1>7, <3>1, <3>3, <3>4, BeginGoes DEF Threads
    <3>6. Named(t)'
      <4>1. Len(ends'[t]) = 0
        BY <3>5, EmptySeq
      <4> QED BY <4>1 DEF Named
    <3>7. graph' = G /\ G = Rebuild(Without(at[t]))' /\ r = Entry(at[t])'
      BY <1>4, <3>1, <3>3
    <3>8. Deriving(t)'
      BY <1>0, <1>4, <3>1, <3>2, <3>5, <3>6, <3>7 DEF Deriving
    <3>9. AuditorAt(t)'
      <4>1. \A i : RightOf(t, i)' = RightOf(t, i)
        BY <1>2, <1>4, <3>1 DEF RightOf
      <4> QED BY <1>4, <1>5, <1>6, <3>1, <3>2, <3>5, <3>8, <4>1 DEF AuditorAt
    <3>10. Auditing' # {}
      <4>1. at'[t] > 0
        BY <1>5, <3>1, <3>2
      <4> QED BY <1>3, <4>1 DEF Auditing
    <3>11. GraphRestored'
      BY <3>10 DEF GraphRestored
    <3> QED BY <2>2, <3>1, <3>9, <3>11
  <2>6. CASE Restore(t)
    <3>1. PICK more \in BOOLEAN : more = (at[t] < Len(edges) /\ answer[t].kind # "error")
      OBVIOUS
    <3>2. /\ upc[t] = "derived" /\ graph' = saved[t]
          /\ complaints' = [complaints EXCEPT ![t] = @ \cup (IF Disagrees(t) THEN {at[t]} ELSE {})]
          /\ at' = [at EXCEPT ![t] = IF more THEN @ + 1 ELSE 0]
          /\ upc' = [upc EXCEPT ![t] = IF more THEN "save" ELSE "idle"]
          /\ UNCHANGED <<saved, calls, disturbed>>
      BY <2>6, <3>1 DEF Restore, PutBack
    <3>3. Deriving(t) /\ at[t] # 0 /\ saved[t] = W
      BY <1>0, <1>5, <3>2 DEF AuditorAt, Deriving
    <3>4. PICK i \in 1 .. n : i = at[t]
      BY <1>5, <1>6, <3>3 DEF AuditorAt
    <3>5. /\ answer[t].kind \in {"found", "refused"}
          /\ answer[t].kind = "found" => answer[t].value \in OtherWays(i)
          /\ answer[t].kind = "refused" => OtherWays(i) = {}
      BY <1>3, <3>2, <3>3, <3>4, DerivedIs DEF UnitsIInv, UnitsBase
    <3>6. PICK C : C = complaints[t]
      OBVIOUS
    <3>7. PICK D : D = C \cup (IF Disagrees(t) THEN {i} ELSE {}) /\ complaints'[t] = D
      BY <1>3, <1>7, <3>2, <3>4, <3>6
    <3>8. at'[t] = (IF more THEN i + 1 ELSE 0) /\ upc'[t] = (IF more THEN "save" ELSE "idle") /\ graph' = W /\ calls' = calls
          /\ saved' = saved
      <4>1. t \in DOMAIN at /\ t \in DOMAIN upc
        BY <1>3, <1>7 DEF Threads
      <4>2. at'[t] = IF more THEN at[t] + 1 ELSE 0
        BY <3>2, <4>1
      <4>3. upc'[t] = IF more THEN "save" ELSE "idle"
        BY <3>2, <4>1
      <4>4. graph' = W /\ calls' = calls /\ saved' = saved
        BY <3>2, <3>3
      <4>5. at'[t] = IF more THEN i + 1 ELSE 0
        BY ONLY <3>4, <4>2
      <4> QED BY <4>3, <4>4, <4>5, Zenon
    <3>9. (more => i < n) /\ (~more => i = n)
      <4>1. answer[t].kind # "error"
        BY <3>5
      <4>2. at[t] < Len(edges) <=> i < n
        BY <1>6, <3>4
      <4>3. ~(i < n) => i = n
        OBVIOUS
      <4> QED BY <3>1, <4>1, <4>2, <4>3, Zenon
    <3>10. \A j \in C : j \in Nat /\ j < i
      BY <1>5, <3>4, <3>6 DEF AuditorAt
    <3>11. RightOf(t, i)'
      <4>1. i \in D <=> Disagrees(t)
        BY <3>7, <3>10
      <4>2. Disagrees(t) <=> answer[t].kind = "found" /\ answer[t].value.acc # edges[i].f
        BY <3>4 DEF Disagrees
      <4>3. i \in D => \E w \in OtherWays(i) : w.acc # edges[i].f
        BY <3>5, <4>1, <4>2
      <4>4. OtherWays(i) # {} /\ (\A w \in OtherWays(i) : w.acc # edges[i].f) => i \in D
        BY <3>5, <4>1, <4>2
      <4> QED BY <1>2, <1>4, <3>7, <4>3, <4>4 DEF RightOf
    <3>12. ASSUME NEW j \in 1 .. n, j < i PROVE RightOf(t, j)'
      <4>1. RightOf(t, j)
        BY <1>5, <1>6, <3>4, <3>12 DEF AuditorAt
      <4>2. j \in D <=> j \in C
        BY <3>7, <3>12
      <4> QED BY <1>2, <1>4, <3>6, <3>7, <4>1, <4>2 DEF RightOf
    <3>13. \A j \in 1 .. n : j <= i => RightOf(t, j)'
      BY <3>11, <3>12
    <3>14. AuditorAt(t)'
      <4>1. CASE more
        <5>1. at'[t] = i + 1 /\ upc'[t] = "save" /\ i + 1 \in 0 .. n /\ i + 1 > 0
          BY <3>8, <3>9, <4>1
        <5>2. \A j \in D : j \in Nat /\ j < i + 1
          BY <3>7, <3>10
        <5>3. \A j \in 1 .. n : j < i + 1 => RightOf(t, j)'
          BY <3>13
        <5> QED BY <1>4, <1>6, <3>7, <3>8, <5>1, <5>2, <5>3 DEF AuditorAt
      <4>2. CASE ~more
        <5>1. at'[t] = 0 /\ upc'[t] = "idle" /\ i = n
          BY <3>8, <3>9, <4>2
        <5>2. \A j \in 1 .. n : RightOf(t, j)'
          BY <3>13, <5>1
        <5> QED BY <1>4, <1>6, <3>7, <3>8, <5>1, <5>2 DEF AuditorAt
      <4> QED BY <4>1, <4>2
    <3>15. GraphRestored'
      BY <1>4, <3>8 DEF GraphRestored
    <3>16. \A c \in Callers : Undisturbed(c)'
      BY <2>2, <3>2
    <3> QED BY <3>14, <3>15, <3>16
  <2> QED BY <2>3, <2>4, <2>5, <2>6 DEF AuditStep
<1>9. AuditorsAt'
  BY <1>5, <1>8 DEF AuditorsAt
<1> QED BY <1>2, <1>8, <1>9 DEF UnitsIInv

\* The invariant at the start, and when nothing changes.
LEMMA UnitsStart == ASSUME UnitsInit PROVE UnitsIInv
<1>1. UnitsBase /\ CallersAsk /\ \A t \in Threads : \A G : Going(G, t) /\ Exact(G, t)
  BY UnitsBegin
<1>2. graph = Whole /\ \A t \in Threads : upc[t] = "idle" /\ calls[t] = 0
  BY DEF UnitsInit
<1>3. \A a \in Auditors : at[a] = 0
  BY DEF UnitsInit
<1>4. Len(edges) \in Nat
  BY <1>1, TableIs DEF UnitsBase
<1>5. ASSUME NEW a \in Auditors PROVE AuditorAt(a)
  BY <1>2, <1>3, <1>4 DEF AuditorAt, Threads
<1>6. ASSUME NEW c \in Callers PROVE Undisturbed(c)
  BY <1>1, <1>2 DEF Undisturbed, Threads
<1>7. GraphRestored
  BY <1>2 DEF GraphRestored
<1> QED BY <1>1, <1>5, <1>6, <1>7 DEF UnitsIInv, AuditorsAt

LEMMA UnitsRest == ASSUME UnitsIInv, UNCHANGED unitsVars PROVE UnitsIInv'
<1>0. PICK W : W = Whole
  OBVIOUS
<1>1. UNCHANGED <<edges, graph, upc, at, saved, complaints, calls, disturbed>>
      /\ UNCHANGED <<request, ends, found, queue, answer>>
  BY DEF unitsVars, call
<1>2. UnitsBase' /\ CallersAsk'
  BY UnitsStutters DEF UnitsIInv
<1>3. /\ Whole' = W /\ Auditing' = Auditing
      /\ \A i : Rebuild(Without(i))' = Rebuild(Without(i)) /\ OtherWays(i)' = OtherWays(i) /\ Entry(i)' = Entry(i)
  BY <1>0, <1>1, SameTable DEF Auditing, Rebuild, Without, OtherWays, Entry
<1>4. \A t : SameCall(t)
  BY <1>1 DEF SameCall
<1>5. ASSUME NEW c \in Callers PROVE Undisturbed(c)'
  <2>1. Exact(W, c) => Exact(W, c)'
    BY <1>4, OthersStay
  <2> QED BY <1>0, <1>1, <1>3, <2>1 DEF UnitsIInv, Undisturbed
<1>6. ASSUME NEW a \in Auditors PROVE AuditorAt(a)'
  <2>1. AuditorAt(a)
    BY DEF UnitsIInv, AuditorsAt
  <2>2. Deriving(a) => Deriving(a)'
    <3>1. SUFFICES ASSUME Deriving(a) PROVE Deriving(a)'
      OBVIOUS
    <3>2. PICK G : G = graph /\ Going(G, a) /\ Exact(G, a)
      BY <3>1 DEF Deriving
    <3>3. Going(G, a)' /\ Exact(G, a)'
      BY <1>4, <3>2, OthersStay
    <3>4. Named(a)'
      BY <1>1, <3>1 DEF Named, Deriving
    <3> QED BY <1>0, <1>1, <1>3, <3>1, <3>2, <3>3, <3>4 DEF Deriving
  <2>3. \A i : RightOf(a, i)' = RightOf(a, i)
    BY <1>1, <1>3 DEF RightOf
  <2> QED BY <1>0, <1>1, <1>3, <2>1, <2>2, <2>3 DEF AuditorAt
<1>7. GraphRestored'
  BY <1>0, <1>1, <1>3 DEF UnitsIInv, GraphRestored
<1> QED BY <1>2, <1>5, <1>6, <1>7 DEF UnitsIInv, AuditorsAt

\* Every step keeps it.
LEMMA UnitsKept == ASSUME OneAuditor, UnitsIInv, [UnitsNext]_unitsVars PROVE UnitsIInv'
<1>1. CASE UNCHANGED unitsVars
  BY <1>1, UnitsRest
<1>2. CASE UnitsNext
  <2>1. PICK t \in Threads : (\E r \in Requests : Ask(t, r)) \/ AuditStep(t) \/ CallStep(t)
    BY <1>2, UnitsNextIs
  <2> QED BY <2>1, AskKeeps, AuditKeeps, CallKeeps
<1> QED BY <1>1, <1>2

-----------------------------------------------------------------------------
\* Alone, a refusal is the truth, and an answer a shortest way.
LEMMA RefusalsAre == ASSUME UnitsIInv PROVE RefusedOnlyBesideAudit
<1>1. SUFFICES ASSUME NEW c \in Callers, upc[c] = "idle", answer[c].kind \in {"refused", "error"}, ~disturbed[c]
               PROVE  \/ answer[c].value = "unknown unit" /\ \E n \in {request[c].from, request[c].to} : ~Known(n, Whole)
                      \/ answer[c].value = "different dimensions" /\ WaysTo(Whole, Start(c), Last(ends[c])) = {}
  BY Zenon DEF RefusedOnlyBesideAudit
<1>2. Exact(Whole, c) /\ Ended(c)
  BY <1>1 DEF UnitsIInv, Undisturbed, Ended
<1>3. NoAnswer(Whole, c)
  BY <1>1, <1>2, Zenon DEF Exact
<1>4. ASSUME ResolvedSo(Whole, c), \A w \in Ways(Whole, Start(c)) : Last(w.hops) # Last(ends[c])
      PROVE  WaysTo(Whole, Start(c), Last(ends[c])) = {}
  BY <1>4 DEF WaysTo
<1> QED BY <1>3, <1>4, Zenon DEF NoAnswer

LEMMA HopsAre == ASSUME UnitsIInv PROVE FewestHops
<1>1. SUFFICES ASSUME NEW c \in Callers, Answered(c), ~disturbed[c], NEW w \in WaysTo(Whole, Start(c), Last(ends[c]))
               PROVE  Len(answer[c].value.hops) <= Len(w.hops)
  BY DEF FewestHops
<1>2. ShortestAnswer(Whole, c)
  BY <1>1 DEF UnitsIInv, Undisturbed, Exact, Ended, Answered
<1>3. w \in Ways(Whole, Start(c)) /\ Last(w.hops) = Last(ends[c])
  BY <1>1 DEF WaysTo
<1> QED BY <1>2, <1>3 DEF ShortestAnswer

\* A complaint is what the invariant says of the entries done with.
LEMMA ComplaintsAre == ASSUME UnitsIInv PROVE ComplaintsExact
<1>1. SUFFICES ASSUME NEW a \in Auditors, calls[a] > 0, at[a] = 0, NEW i \in 1 .. Len(edges) PROVE RightOf(a, i)
  BY DEF ComplaintsExact, RightOf
<1>2. AuditorAt(a)
  BY DEF UnitsIInv, AuditorsAt
<1> QED BY <1>1, <1>2 DEF AuditorAt

\* The inductive invariant, with one auditor.
THEOREM UnitsInvariant == OneAuditor => (UnitsSpec => []UnitsIInv)
<1>1. SUFFICES ASSUME OneAuditor PROVE UnitsSpec => []UnitsIInv
  OBVIOUS
<1>2. UnitsInit => UnitsIInv
  BY UnitsStart
<1>3. UnitsIInv /\ [UnitsNext]_unitsVars => UnitsIInv'
  BY <1>1, UnitsKept
<1> QED BY <1>2, <1>3, PTL DEF UnitsSpec

\* A conversion beside an audit may be refused, but is never answered wrongly; alone it is
\* answered, by a shortest way, if and only if there is one.
THEOREM ConversionsTheorem == OneAuditor => (UnitsSpec => []ConversionsDerived)
<1>1. SUFFICES ASSUME OneAuditor PROVE UnitsSpec => []ConversionsDerived
  OBVIOUS
<1>2. UnitsSpec => []UnitsIInv
  BY <1>1, UnitsInvariant
<1>3. UnitsIInv => ConversionsDerived
  BY AnswersAre, RefusalsAre, HopsAre, ComparisonsAre DEF UnitsIInv, ConversionsDerived
<1> QED BY <1>2, <1>3, PTL

\* The audit complains of what the rest of the table contradicts, and of nothing else, and
\* GRAPH is whole again when it has ended.
THEOREM AuditTheorem == OneAuditor => (UnitsSpec => []AuditExact)
<1>1. SUFFICES ASSUME OneAuditor PROVE UnitsSpec => []AuditExact
  OBVIOUS
<1>2. UnitsSpec => []UnitsIInv
  BY <1>1, UnitsInvariant
<1>3. UnitsIInv => AuditExact
  BY ComplaintsAre DEF UnitsIInv, AuditExact
<1> QED BY <1>2, <1>3, PTL

-----------------------------------------------------------------------------
(* BrickLedger *)

\* Two fractions compare as any two pairs that stand for them do.
LEMMA LessIs ==
    ASSUME NEW x, NEW y, NEW a, NEW b, NEW c, NEW d, Represents(x, a, b), Represents(y, c, d), b > 0, d > 0
    PROVE  Less(x, y) <=> a * d < c * b
<1>1. PICK p \in Int, q \in Nat \ {0}, r \in Int, s \in Nat \ {0} : p = Num(x) /\ q = Den(x) /\ r = Num(y) /\ s = Den(y)
  BY FractionParts DEF Represents
<1>2. a \in Int /\ b \in Nat \ {0} /\ c \in Int /\ d \in Nat \ {0} /\ p * b = a * q /\ r * d = c * s
  BY <1>1 DEF Represents
<1>3. PICK g \in Int, h \in Int, k \in Int, m \in Int : g = a * d - c * b /\ h = p * s - r * q /\ k = b * d /\ m = q * s
  BY <1>1, <1>2
<1>4. k > 0 /\ m > 0
  BY <1>1, <1>2, <1>3
<1>5. h * k = (p * b) * (s * d) - (r * d) * (q * b)
  <2>1. (p * s) * (b * d) = (p * b) * (s * d)
    BY ONLY <1>1, <1>2
  <2>2. (r * q) * (b * d) = (r * d) * (q * b)
    BY ONLY <1>1, <1>2
  <2>3. h * k = (p * s) * (b * d) - (r * q) * (b * d)
    BY <1>1, <1>2, <1>3
  <2> QED BY ONLY <2>1, <2>2, <2>3
<1>6. g * m = (a * q) * (s * d) - (c * s) * (q * b)
  BY <1>1, <1>2, <1>3
<1>7. h * k = g * m
  BY <1>2, <1>5, <1>6
<1>8. h < 0 <=> g < 0
  <2>1. CASE h < 0
    <3>1. h * k < 0
      BY <1>4, <2>1
    <3>2. g * m < 0
      BY <1>7, <3>1
    <3> QED BY <1>4, <2>1, <3>2
  <2>2. CASE h >= 0
    <3>1. h * k >= 0
      BY <1>4, <2>2
    <3>2. g * m >= 0
      BY <1>7, <3>1
    <3>3. ~(g < 0)
      BY <1>4, <3>2
    <3> QED BY <2>2, <3>3
  <2> QED BY <2>1, <2>2
<1>9. Less(x, y) <=> p * s < r * q
  BY <1>1 DEF Less
<1>10. (p * s < r * q <=> h < 0) /\ (a * d < c * b <=> g < 0)
  BY <1>1, <1>2, <1>3
<1> QED BY <1>8, <1>9, <1>10

\* The order of fractions.
AtMost(x, y) == ~Less(y, x)

\* It is reflexive and total, and two fractions each at most the other are one.
LEMMA AtMostIs ==
    ASSUME NEW x, NEW y, IsFraction(x), IsFraction(y)
    PROVE  /\ AtMost(x, x) /\ (AtMost(x, y) \/ AtMost(y, x))
           /\ AtMost(x, y) /\ AtMost(y, x) => x = y
<1>1. PICK p \in Int, q \in Nat \ {0}, r \in Int, s \in Nat \ {0} : p = Num(x) /\ q = Den(x) /\ r = Num(y) /\ s = Den(y)
  BY FractionParts
<1>2. PICK m \in Int, n \in Int : m = p * s /\ n = r * q
  OBVIOUS
<1>3. (AtMost(x, y) <=> m <= n) /\ (AtMost(y, x) <=> n <= m) /\ AtMost(x, x)
  BY <1>1, <1>2 DEF AtMost, Less
<1>4. m = n => x = y
  BY <1>1, <1>2, OneFraction
<1> QED BY <1>2, <1>3, <1>4

\* It is transitive.
LEMMA AtMostTransitive ==
    ASSUME NEW x, NEW y, NEW z, IsFraction(x), IsFraction(y), IsFraction(z), AtMost(x, y), AtMost(y, z)
    PROVE  AtMost(x, z)
<1>1. PICK p \in Int, q \in Nat \ {0}, r \in Int, s \in Nat \ {0}, t \in Int, u \in Nat \ {0} :
        p = Num(x) /\ q = Den(x) /\ r = Num(y) /\ s = Den(y) /\ t = Num(z) /\ u = Den(z)
  BY FractionParts
<1>2. p * s <= r * q /\ r * u <= t * s
  BY <1>1 DEF AtMost, Less
<1>3. PICK e \in Nat, f \in Nat : e = r * q - p * s /\ f = t * s - r * u
  BY <1>2
<1>4. e * u + f * q >= 0
  OBVIOUS
<1>5. e * u + f * q = (t * q - p * u) * s
  BY <1>1, <1>3
<1>6. PICK g \in Int : g = t * q - p * u
  OBVIOUS
<1>7. g * s >= 0
  BY <1>4, <1>5, <1>6
<1>8. g >= 0
  BY <1>7
<1>9. p * u <= t * q
  BY <1>6, <1>8
<1> QED BY <1>1, <1>9 DEF AtMost, Less

\* A positive factor keeps the order.
LEMMA TimesKeepsOrder ==
    ASSUME NEW x, NEW y, NEW s, IsFraction(x), IsFraction(y), Positive(s), AtMost(x, y)
    PROVE  AtMost(Times(x, s), Times(y, s)) /\ IsFraction(Times(x, s))
<1>1. PICK a \in Int, b \in Nat \ {0}, c \in Int, d \in Nat \ {0}, m \in Nat \ {0}, n \in Nat \ {0} :
        a = Num(x) /\ b = Den(x) /\ c = Num(y) /\ d = Den(y) /\ m = Num(s) /\ n = Den(s)
  BY FractionParts DEF Positive
<1>2. Represents(x, a, b) /\ Represents(y, c, d) /\ Represents(s, m, n)
  BY <1>1, Itself DEF Positive
<1>3. Represents(Times(x, s), a * m, b * n) /\ Represents(Times(y, s), c * m, d * n)
  BY <1>2, TimesIs
<1>4. b * n > 0 /\ d * n > 0
  BY <1>1
<1>5. Less(Times(y, s), Times(x, s)) <=> (c * m) * (b * n) < (a * m) * (d * n)
  BY <1>3, <1>4, LessIs
<1>6. a * d <= c * b
  BY <1>1 DEF AtMost, Less
<1>7. PICK e \in Nat, k \in Nat : e = c * b - a * d /\ k = m * n
  BY <1>1, <1>6
<1>8. e * k >= 0 /\ e * k = (c * m) * (b * n) - (a * m) * (d * n)
  BY <1>1, <1>7
<1>9. ~((c * m) * (b * n) < (a * m) * (d * n))
  BY <1>1, <1>8
<1> QED BY <1>3, <1>5, <1>9 DEF AtMost, Represents

\* What is added keeps the order.
LEMMA PlusKeepsOrder ==
    ASSUME NEW x, NEW y, NEW s, IsFraction(x), IsFraction(y), IsFraction(s), AtMost(x, y)
    PROVE  AtMost(Plus(x, s), Plus(y, s)) /\ IsFraction(Plus(x, s))
<1>1. PICK a \in Int, b \in Nat \ {0}, c \in Int, d \in Nat \ {0}, m \in Int, n \in Nat \ {0} :
        a = Num(x) /\ b = Den(x) /\ c = Num(y) /\ d = Den(y) /\ m = Num(s) /\ n = Den(s)
  BY FractionParts
<1>2. Represents(x, a, b) /\ Represents(y, c, d) /\ Represents(s, m, n)
  BY <1>1, Itself
<1>3. Represents(Plus(x, s), a * n + m * b, b * n) /\ Represents(Plus(y, s), c * n + m * d, d * n)
  BY <1>2, PlusIs
<1>4. b * n > 0 /\ d * n > 0
  BY <1>1
<1>5. Less(Plus(y, s), Plus(x, s)) <=> (c * n + m * d) * (b * n) < (a * n + m * b) * (d * n)
  BY <1>3, <1>4, LessIs
<1>6. a * d <= c * b
  BY <1>1 DEF AtMost, Less
<1>7. PICK e \in Nat, k \in Nat : e = c * b - a * d /\ k = n * n
  BY <1>1, <1>6
<1>8. e * k >= 0 /\ e * k = (c * n + m * d) * (b * n) - (a * n + m * b) * (d * n)
  BY <1>1, <1>7
<1>9. ~((c * n + m * d) * (b * n) < (a * n + m * b) * (d * n))
  BY <1>1, <1>8
<1> QED BY <1>3, <1>5, <1>9 DEF AtMost, Represents

\* Both sides of a quote give fractions, and keep their order.
Quoted(n) == n \in DOMAIN Rate /\ Positive(Rate[n][1]) /\ IsFraction(Rate[n][2])
\* Every brick of the registry is quoted so, and has two different ends.
LEMMA QuotesAre == ASSUME NEW n \in DOMAIN Rate PROVE Quoted(n) /\ n # Reversed(n)
<1>1. n[1] # n[2] /\ Num(Rate[n][1]) > 0 /\ InLowestTerms(Rate[n][1]) /\ InLowestTerms(Rate[n][2])
  BY QuotesAssumption
<1>2. Reversed(n)[1] = n[2]
  BY DEF Reversed
<1> QED BY <1>1, <1>2, LowestTerms DEF Quoted, Positive

\* The side asked for: a fraction, in the order of the amounts.
LEMMA ThisSideIs ==
    ASSUME NEW n, Quoted(n), NEW v, NEW w, IsFraction(v), IsFraction(w), AtMost(v, w)
    PROVE  IsFraction(ThisSide(n, v)) /\ AtMost(ThisSide(n, v), ThisSide(n, w))
<1>1. IsFraction(Times(v, Rate[n][1])) /\ AtMost(Times(v, Rate[n][1]), Times(w, Rate[n][1])) /\ IsFraction(Times(w, Rate[n][1]))
  BY TimesKeepsOrder, AtMostIs DEF Quoted
<1> QED BY <1>1, PlusKeepsOrder DEF ThisSide, Quoted

\* The other side, worked backwards: the same.
LEMMA OtherSideIs ==
    ASSUME NEW n, Quoted(Reversed(n)), NEW v, NEW w, IsFraction(v), IsFraction(w), AtMost(v, w)
    PROVE  IsFraction(OtherSide(n, v)) /\ AtMost(OtherSide(n, v), OtherSide(n, w))
<1>1. PICK s, o : s = Rate[Reversed(n)][1] /\ o = Rate[Reversed(n)][2] /\ Positive(s) /\ IsFraction(o)
  BY DEF Quoted
<1>2. IsFraction(Neg(o))
  BY <1>1, Itself, NegIs DEF Represents
<1>3. IsFraction(Plus(v, Neg(o))) /\ IsFraction(Plus(w, Neg(o))) /\ AtMost(Plus(v, Neg(o)), Plus(w, Neg(o)))
  BY <1>2, PlusKeepsOrder, AtMostIs
<1>4. Positive(Inv(s))
  BY <1>1, InvPositive
<1>5. IsFraction(Times(Plus(v, Neg(o)), Inv(s))) /\ AtMost(Times(Plus(v, Neg(o)), Inv(s)), Times(Plus(w, Neg(o)), Inv(s)))
  BY <1>3, <1>4, TimesKeepsOrder
<1> QED BY <1>1, <1>5 DEF OtherSide, Over, Minus

\* The lower and the higher of two are one of them, and below and above both.
LEMMA ChosenIs ==
    ASSUME NEW a, NEW b, IsFraction(a), IsFraction(b)
    PROVE  /\ Lower(a, b) \in {a, b} /\ AtMost(Lower(a, b), a) /\ AtMost(Lower(a, b), b)
           /\ Higher(a, b) \in {a, b} /\ AtMost(a, Higher(a, b)) /\ AtMost(b, Higher(a, b))
BY AtMostIs DEF Lower, Higher, AtMost

\* The answers of r are answers of a.
Agree(r, a) == \A e \in DOMAIN r : e \in DOMAIN a /\ a[e] = r[e]

\* Crossing an edge at the lower side, or at the side answered, gives the least.
LEMMA CrossedIs ==
    ASSUME NEW n \in DOMAIN Rate, NEW v, IsFraction(v), NEW w, IsFraction(w), AtMost(v, w),
           NEW r, NEW a, Agree(r, a), Asks(n) => Edge(n) \in DOMAIN a
    PROVE  IsFraction(Crossed(n, v, r)) /\ AtMost(Crossed(n, v, r), Crossed(n, w, a))
<1>1. PICK tv, tw, ov, ow : tv = ThisSide(n, v) /\ tw = ThisSide(n, w) /\ ov = OtherSide(n, v) /\ ow = OtherSide(n, w)
  OBVIOUS
<1>2. IsFraction(tv) /\ IsFraction(tw) /\ AtMost(tv, tw)
  BY <1>1, QuotesAre, ThisSideIs, AtMostIs
<1>3. CASE ~Asks(n)
  BY <1>1, <1>2, <1>3 DEF Crossed
<1>4. CASE Asks(n)
  <2>1. Quoted(Reversed(n))
    BY <1>4, QuotesAre DEF Asks
  <2>2. IsFraction(ov) /\ IsFraction(ow) /\ AtMost(ov, ow)
    BY <1>1, <2>1, OtherSideIs, AtMostIs
  <2>3. Crossed(n, w, a) = IF a[Edge(n)] = n THEN tw ELSE ow
    BY <1>1, <1>4 DEF Crossed
  <2>4. CASE Edge(n) \in DOMAIN r
    <3>1. Crossed(n, v, r) = IF a[Edge(n)] = n THEN tv ELSE ov
      BY <1>1, <1>4, <2>4 DEF Crossed, Agree
    <3> QED BY <1>2, <2>2, <2>3, <3>1
  <2>5. CASE Edge(n) \notin DOMAIN r
    <3>1. Crossed(n, v, r) = Lower(tv, ov)
      BY <1>1, <1>4, <2>5 DEF Crossed, Assumed
    <3>2. PICK l : l = Lower(tv, ov)
      OBVIOUS
    <3>3. IsFraction(l) /\ AtMost(l, tv) /\ AtMost(l, ov)
      BY <1>2, <2>2, <3>2, ChosenIs
    <3>4. AtMost(l, tw) /\ AtMost(l, ow)
      BY <1>2, <2>2, <3>3, AtMostTransitive
    <3> QED BY <2>3, <3>1, <3>2, <3>3, <3>4
  <2> QED BY <2>4, <2>5
<1> QED BY <1>3, <1>4

\* What a crossing gives is a fraction.
LEMMA CrossedTyped ==
    ASSUME NEW n \in DOMAIN Rate, NEW v, IsFraction(v), NEW r
    PROVE  IsFraction(Crossed(n, v, r)) /\ IsFraction(ThisSide(n, v)) /\ (Asks(n) => IsFraction(OtherSide(n, v)))
<1>1. IsFraction(ThisSide(n, v))
  BY QuotesAre, ThisSideIs, AtMostIs
<1>2. ASSUME Asks(n) PROVE IsFraction(OtherSide(n, v))
  <2>1. Quoted(Reversed(n))
    BY <1>2, QuotesAre DEF Asks
  <2> QED BY <2>1, OtherSideIs, AtMostIs
<1>3. ASSUME Asks(n) PROVE IsFraction(Assumed(n, v))
  BY <1>1, <1>2, <1>3, ChosenIs DEF Assumed
<1> QED BY <1>1, <1>2, <1>3 DEF Crossed

\* The values along a path.
Carrying(w, p, r, n) == w = [j \in 0 .. n |-> IF j = 0 THEN Input ELSE Crossed(p[j], w[j - 1], r)]

\* They are a function: the recursion along the path has a value.
LEMMA CarriesExists == ASSUME NEW p, NEW r, NEW n \in Nat PROVE \E w : Carrying(w, p, r, n)
<1> DEFINE Bad == {k \in Nat : ~ \E w : Carrying(w, p, r, k)}
<1>1. SUFFICES ASSUME Bad # {} PROVE FALSE
  OBVIOUS
<1>2. \E k \in Bad : \A l \in Bad : k <= l
  <2> HIDE DEF Bad
  <2>1. Bad \in SUBSET Nat
    BY DEF Bad
  <2> QED BY <1>1, <2>1, SmallestNat
<1>3. PICK k \in Bad : \A l \in Bad : k <= l
  BY <1>2
<1>4. CASE k = 0
  <2>1. PICK w : w = [j \in 0 .. 0 |-> Input]
    OBVIOUS
  <2>2. w = [j \in 0 .. 0 |-> IF j = 0 THEN Input ELSE Crossed(p[j], w[j - 1], r)]
    BY <2>1
  <2> QED BY <1>4, <2>2 DEF Carrying
<1>5. CASE k # 0
  <2>1. k - 1 \in Nat /\ k - 1 \notin Bad
    BY <1>3, <1>5
  <2>2. PICK w : Carrying(w, p, r, k - 1)
    BY <2>1
  <2>3. PICK u : u = [j \in 0 .. k |-> IF j < k THEN w[j] ELSE Crossed(p[k], w[k - 1], r)]
    OBVIOUS
  <2>4. \A j \in 0 .. k - 1 : w[j] = IF j = 0 THEN Input ELSE Crossed(p[j], w[j - 1], r)
    BY <2>2 DEF Carrying
  <2>5. ASSUME NEW j \in 0 .. k PROVE u[j] = IF j = 0 THEN Input ELSE Crossed(p[j], u[j - 1], r)
    <3>1. CASE j = k
      <4>1. u[j] = Crossed(p[k], w[k - 1], r) /\ u[k - 1] = w[k - 1]
        BY <3>1, <2>1, <2>3
      <4> QED BY <3>1, <1>5, <4>1
    <3>2. CASE j # k
      <4>1. j \in 0 .. k - 1 /\ u[j] = w[j] /\ (j # 0 => u[j - 1] = w[j - 1])
        BY <3>2, <2>3
      <4> QED BY <4>1, <2>4
    <3> QED BY <3>1, <3>2
  <2>6. Carrying(u, p, r, k)
    BY <2>3, <2>5 DEF Carrying
  <2> QED BY <2>6
<1> QED BY <1>4, <1>5

\* What CarriedAlong is: the input, and then crossing after crossing.
LEMMA CarriedIs ==
    ASSUME NEW p \in Seq(DOMAIN Rate), NEW r, NEW w, w = CarriedAlong(p, r)
    PROVE  /\ Len(p) \in Nat /\ DOMAIN w = 0 .. Len(p) /\ w[0] = Input /\ Converted(p, r) = w[Len(p)]
           /\ \A j \in 1 .. Len(p) : w[j] = Crossed(p[j], w[j - 1], r) /\ p[j] \in DOMAIN Rate
<1>1. Len(p) \in Nat
  BY LenProperties
<1>2. PICK f : f = CHOOSE e : Carrying(e, p, r, Len(p))
  OBVIOUS
<1>3. Carrying(f, p, r, Len(p))
  BY <1>1, <1>2, CarriesExists
<1>4. w = f
  BY <1>2, Zenon DEF CarriedAlong, Carrying
<1>5. DOMAIN w = 0 .. Len(p) /\ \A j \in 0 .. Len(p) : w[j] = IF j = 0 THEN Input ELSE Crossed(p[j], w[j - 1], r)
  BY <1>3, <1>4 DEF Carrying
<1>6. 0 \in 0 .. Len(p) /\ \A j \in 1 .. Len(p) : j \in 0 .. Len(p) /\ j # 0
  BY <1>1
<1>7. \A j \in 1 .. Len(p) : p[j] \in DOMAIN Rate
  BY ElementOfSeq
<1> QED BY <1>1, <1>5, <1>6, <1>7 DEF Converted

\* The rest of a path as it is quoted.
Follows(w, p, i, v, n) == w = [j \in i .. n |-> IF j = i THEN v ELSE ThisSide(p[j], w[j - 1])]

\* It has a value too.
LEMMA FollowsExists == ASSUME NEW p, NEW v, NEW i \in Nat, NEW n \in Nat, i <= n PROVE \E w : Follows(w, p, i, v, n)
<1> DEFINE Bad == {k \in Nat : i <= k /\ ~ \E w : Follows(w, p, i, v, k)}
<1>1. SUFFICES ASSUME Bad # {} PROVE FALSE
  OBVIOUS
<1>2. \E k \in Bad : \A l \in Bad : k <= l
  <2> HIDE DEF Bad
  <2>1. Bad \in SUBSET Nat
    BY DEF Bad
  <2> QED BY <1>1, <2>1, SmallestNat
<1>3. PICK k \in Bad : \A l \in Bad : k <= l
  BY <1>2
<1>4. CASE k = i
  <2>1. PICK w : w = [j \in i .. i |-> v]
    OBVIOUS
  <2>2. w = [j \in i .. i |-> IF j = i THEN v ELSE ThisSide(p[j], w[j - 1])]
    BY <2>1
  <2> QED BY <1>4, <2>2 DEF Follows
<1>5. CASE k # i
  <2>1. k - 1 \in Nat /\ i <= k - 1 /\ k - 1 \notin Bad /\ k \in Nat
    BY <1>3, <1>5
  <2>2. PICK w : Follows(w, p, i, v, k - 1)
    BY <2>1
  <2>3. PICK u : u = [j \in i .. k |-> IF j < k THEN w[j] ELSE ThisSide(p[k], w[k - 1])]
    OBVIOUS
  <2>4. \A j \in i .. k - 1 : w[j] = IF j = i THEN v ELSE ThisSide(p[j], w[j - 1])
    BY <2>2 DEF Follows
  <2>5. ASSUME NEW j \in i .. k PROVE u[j] = IF j = i THEN v ELSE ThisSide(p[j], u[j - 1])
    <3>1. CASE j = k
      <4>1. u[j] = ThisSide(p[k], w[k - 1]) /\ u[k - 1] = w[k - 1]
        BY <3>1, <2>1, <2>3
      <4> QED BY <3>1, <1>5, <4>1
    <3>2. CASE j # k
      <4>1. j \in i .. k - 1 /\ u[j] = w[j] /\ (j # i => u[j - 1] = w[j - 1])
        BY <2>1, <3>2, <2>3
      <4> QED BY <4>1, <2>4
    <3> QED BY <3>1, <3>2
  <2>6. Follows(u, p, i, v, k)
    BY <2>3, <2>5 DEF Follows
  <2> QED BY <1>3, <2>1, <2>6
<1> QED BY <1>4, <1>5

\* What AsQuoted is.
LEMMA AsQuotedIs ==
    ASSUME NEW p \in Seq(DOMAIN Rate), NEW i \in 1 .. Len(p), NEW v
    PROVE  \E w : /\ AsQuoted(p, i, v) = w[Len(p)] /\ w[i] = v
                  /\ \A j \in i + 1 .. Len(p) : w[j] = ThisSide(p[j], w[j - 1]) /\ p[j] \in DOMAIN Rate
<1>1. Len(p) \in Nat /\ i \in Nat /\ i <= Len(p)
  BY LenProperties
<1>2. PICK f : f = CHOOSE e : Follows(e, p, i, v, Len(p))
  OBVIOUS
<1>3. Follows(f, p, i, v, Len(p))
  BY <1>1, <1>2, FollowsExists
<1>4. AsQuoted(p, i, v) = f[Len(p)]
  BY <1>2, Zenon DEF AsQuoted, Follows
<1>5. \A j \in i .. Len(p) : f[j] = IF j = i THEN v ELSE ThisSide(p[j], f[j - 1])
  BY <1>3 DEF Follows
<1>6. i \in i .. Len(p) /\ \A j \in i + 1 .. Len(p) : j \in i .. Len(p) /\ j # i /\ j \in 1 .. Len(p)
  BY <1>1
<1>7. \A j \in 1 .. Len(p) : p[j] \in DOMAIN Rate
  BY ElementOfSeq
<1> QED BY <1>4, <1>5, <1>6, <1>7

\* What the assumption says of the input and of the paths.
LEMMA InputIs == IsFraction(Input) /\ \A p \in Paths : p \in Seq(DOMAIN Rate)
BY QuotesAssumption, LowestTerms

\* Every value along a path is a fraction, and so is the last.
LEMMA CarriedTyped ==
    ASSUME NEW p \in Seq(DOMAIN Rate), NEW r, NEW w, w = CarriedAlong(p, r)
    PROVE  /\ \A j \in 0 .. Len(p) : IsFraction(w[j])
           /\ IsFraction(Converted(p, r))
<1> DEFINE Bad == {j \in 0 .. Len(p) : ~IsFraction(w[j])}
<1>0. Len(p) \in Nat /\ w[0] = Input /\ \A j \in 1 .. Len(p) : w[j] = Crossed(p[j], w[j - 1], r) /\ p[j] \in DOMAIN Rate
  BY CarriedIs
<1>1. ASSUME Bad # {} PROVE FALSE
  <2>2. \E k \in Bad : \A l \in Bad : k <= l
    <3> HIDE DEF Bad
    <3>1. Bad \in SUBSET Nat
      BY <1>0 DEF Bad
    <3> QED BY <1>1, <3>1, SmallestNat
  <2>3. PICK k \in Bad : \A l \in Bad : k <= l
    BY <2>2
  <2>4. CASE k = 0
    BY <1>0, <2>3, <2>4, InputIs
  <2>5. CASE k # 0
    <3>1. k - 1 \in 0 .. Len(p) /\ k - 1 \notin Bad /\ k \in 1 .. Len(p)
      BY <1>0, <2>3, <2>5
    <3> QED BY <1>0, <2>3, <3>1, CrossedTyped
  <2> QED BY <2>4, <2>5
<1>2. \A j \in 0 .. Len(p) : IsFraction(w[j])
  BY <1>1
<1>3. Len(p) \in 0 .. Len(p) /\ Converted(p, r) = w[Len(p)]
  BY <1>0, CarriedIs
<1> QED BY <1>2, <1>3

\* No answers give less than what is assumed without them, or with some of them.
LEMMA ConvertedLowest ==
    ASSUME NEW p \in Seq(DOMAIN Rate), NEW r, NEW a, Agree(r, a), \A n \in DOMAIN Rate : Asks(n) => Edge(n) \in DOMAIN a
    PROVE  AtMost(Converted(p, r), Converted(p, a))
<1>1. PICK v, w : v = CarriedAlong(p, r) /\ w = CarriedAlong(p, a)
  OBVIOUS
<1>2. /\ Len(p) \in Nat /\ v[0] = Input /\ w[0] = Input /\ Converted(p, r) = v[Len(p)] /\ Converted(p, a) = w[Len(p)]
      /\ \A j \in 1 .. Len(p) : v[j] = Crossed(p[j], v[j - 1], r) /\ w[j] = Crossed(p[j], w[j - 1], a) /\ p[j] \in DOMAIN Rate
  BY <1>1, CarriedIs
<1>3. \A j \in 0 .. Len(p) : IsFraction(v[j]) /\ IsFraction(w[j])
  BY <1>1, CarriedTyped
<1> DEFINE Bad == {j \in 0 .. Len(p) : ~AtMost(v[j], w[j])}
<1>4. ASSUME Bad # {} PROVE FALSE
  <2>2. \E k \in Bad : \A l \in Bad : k <= l
    <3> HIDE DEF Bad
    <3>1. Bad \in SUBSET Nat
      BY <1>2 DEF Bad
    <3> QED BY <1>4, <3>1, SmallestNat
  <2>3. PICK k \in Bad : \A l \in Bad : k <= l
    BY <2>2
  <2>4. CASE k = 0
    BY <1>2, <2>3, <2>4, InputIs, AtMostIs
  <2>5. CASE k # 0
    <3>1. k - 1 \in 0 .. Len(p) /\ k - 1 \notin Bad /\ k \in 1 .. Len(p)
      BY <1>2, <2>3, <2>5
    <3>2. AtMost(v[k - 1], w[k - 1]) /\ IsFraction(v[k - 1]) /\ IsFraction(w[k - 1])
      BY <1>3, <3>1
    <3>3. AtMost(Crossed(p[k], v[k - 1], r), Crossed(p[k], w[k - 1], a))
      BY <1>2, <3>1, <3>2, CrossedIs
    <3> QED BY <1>2, <2>3, <3>1, <3>3
  <2> QED BY <2>4, <2>5
<1>5. Len(p) \in 0 .. Len(p)
  BY <1>2
<1> QED BY <1>2, <1>4, <1>5

\* Answers that agree on the questions of a path carry the same along it.
SameAnswer(e, r, s) == (e \in DOMAIN r <=> e \in DOMAIN s) /\ (e \in DOMAIN r => r[e] = s[e])

\* Up to m, when they agree on the questions up to m.
LEMMA SameCarried ==
    ASSUME NEW p \in Seq(DOMAIN Rate), NEW r, NEW s, NEW m \in 0 .. Len(p),
           \A j \in 1 .. m : Asks(p[j]) => SameAnswer(Edge(p[j]), r, s),
           NEW v, v = CarriedAlong(p, r), NEW w, w = CarriedAlong(p, s)
    PROVE  \A j \in 0 .. m : v[j] = w[j]
<1>2. /\ Len(p) \in Nat /\ v[0] = Input /\ w[0] = Input
      /\ \A j \in 1 .. Len(p) : v[j] = Crossed(p[j], v[j - 1], r) /\ w[j] = Crossed(p[j], w[j - 1], s) /\ p[j] \in DOMAIN Rate
  BY CarriedIs
<1> DEFINE Bad == {j \in 0 .. m : v[j] # w[j]}
<1>4. ASSUME Bad # {} PROVE FALSE
  <2>2. \E k \in Bad : \A l \in Bad : k <= l
    <3> HIDE DEF Bad
    <3>1. Bad \in SUBSET Nat
      BY <1>2 DEF Bad
    <3> QED BY <1>4, <3>1, SmallestNat
  <2>3. PICK k \in Bad : \A l \in Bad : k <= l
    BY <2>2
  <2>4. CASE k = 0
    BY <1>2, <2>3, <2>4
  <2>5. CASE k # 0
    <3>1. k - 1 \in 0 .. m /\ k - 1 \notin Bad /\ k \in 1 .. m /\ k \in 1 .. Len(p)
      BY <1>2, <2>3, <2>5
    <3>2. PICK n, x : n = p[k] /\ x = v[k - 1] /\ x = w[k - 1]
      BY <3>1
    <3>3. Asks(n) => SameAnswer(Edge(n), r, s)
      BY <3>1, <3>2
    <3>4. Crossed(n, x, r) = Crossed(n, x, s)
      BY <3>3 DEF Crossed, SameAnswer
    <3> QED BY <1>2, <2>3, <3>1, <3>2, <3>4
  <2> QED BY <2>4, <2>5
<1> QED BY <1>4

\* To the end.
LEMMA SameConverted ==
    ASSUME NEW p \in Seq(DOMAIN Rate), NEW r, NEW s,
           \A j \in 1 .. Len(p) : Asks(p[j]) => SameAnswer(Edge(p[j]), r, s)
    PROVE  Converted(p, r) = Converted(p, s)
<1>1. Len(p) \in Nat /\ Len(p) \in 0 .. Len(p)
  BY LenProperties
<1>2. PICK v, w : v = CarriedAlong(p, r) /\ w = CarriedAlong(p, s)
  OBVIOUS
<1>3. v[Len(p)] = w[Len(p)]
  BY <1>1, <1>2, SameCarried
<1> QED BY <1>2, <1>3, CarriedIs

\* The rest of a path as quoted keeps the order.
LEMMA AsQuotedKeepsOrder ==
    ASSUME NEW p \in Seq(DOMAIN Rate), NEW i \in 1 .. Len(p), NEW x, NEW y, IsFraction(x), IsFraction(y), AtMost(x, y)
    PROVE  IsFraction(AsQuoted(p, i, x)) /\ AtMost(AsQuoted(p, i, x), AsQuoted(p, i, y))
<1>1. Len(p) \in Nat /\ i \in Nat /\ i <= Len(p)
  BY LenProperties
<1>2. PICK v : /\ AsQuoted(p, i, x) = v[Len(p)] /\ v[i] = x
               /\ \A j \in i + 1 .. Len(p) : v[j] = ThisSide(p[j], v[j - 1]) /\ p[j] \in DOMAIN Rate
  BY AsQuotedIs
<1>3. PICK w : /\ AsQuoted(p, i, y) = w[Len(p)] /\ w[i] = y
               /\ \A j \in i + 1 .. Len(p) : w[j] = ThisSide(p[j], w[j - 1]) /\ p[j] \in DOMAIN Rate
  BY AsQuotedIs
<1> DEFINE Bad == {j \in i .. Len(p) : ~(IsFraction(v[j]) /\ IsFraction(w[j]) /\ AtMost(v[j], w[j]))}
<1>4. ASSUME Bad # {} PROVE FALSE
  <2>2. \E k \in Bad : \A l \in Bad : k <= l
    <3> HIDE DEF Bad
    <3>1. Bad \in SUBSET Nat
      BY <1>1 DEF Bad
    <3> QED BY <1>4, <3>1, SmallestNat
  <2>3. PICK k \in Bad : \A l \in Bad : k <= l
    BY <2>2
  <2>4. CASE k = i
    BY <1>2, <1>3, <2>3, <2>4
  <2>5. CASE k # i
    <3>1. k - 1 \in i .. Len(p) /\ k - 1 \notin Bad /\ k \in i + 1 .. Len(p)
      BY <1>1, <2>3, <2>5
    <3>2. PICK n, c, d : n \in DOMAIN Rate /\ n = p[k] /\ c = v[k - 1] /\ d = w[k - 1] /\ v[k] = ThisSide(n, c) /\ w[k] = ThisSide(n, d)
      BY <1>2, <1>3, <3>1
    <3>3. IsFraction(c) /\ IsFraction(d) /\ AtMost(c, d)
      BY <3>1, <3>2
    <3>4. IsFraction(ThisSide(n, c)) /\ IsFraction(ThisSide(n, d)) /\ AtMost(ThisSide(n, c), ThisSide(n, d))
      BY <3>2, <3>3, QuotesAre, ThisSideIs, AtMostIs
    <3> QED BY <2>3, <3>2, <3>4
  <2> QED BY <2>4, <2>5
<1>5. Len(p) \in i .. Len(p)
  BY <1>1
<1> QED BY <1>2, <1>3, <1>4, <1>5

\* A path that asks one question, the answer to it, and what the rerun under it gives.
SoleQuestion(p, i) == i \in 1 .. Len(p) /\ Crossings(p) = {i}
SoleAnswer(r, e, side) == r = [x \in {e} |-> side]
Rerun(p, i, c, r, side) ==
    /\ side = p[i] => Converted(p, r) = AsQuoted(p, i, ThisSide(p[i], c))
    /\ side # p[i] => Converted(p, r) = AsQuoted(p, i, OtherSide(p[i], c))

\* The one question of a path answered: the side that applies, and the rest as quoted.
LEMMA RerunIs ==
    ASSUME NEW p \in Seq(DOMAIN Rate), NEW i, SoleQuestion(p, i), NEW v, v = CarriedAlong(p, Unanswered),
           NEW side, NEW r, SoleAnswer(r, Edge(p[i]), side)
    PROVE  Rerun(p, i, v[i - 1], r, side)
<1>0. i \in 1 .. Len(p) /\ Crossings(p) = {i} /\ r = [x \in {Edge(p[i])} |-> side]
  BY DEF SoleQuestion, SoleAnswer
<1>1. PICK w : w = CarriedAlong(p, r)
  OBVIOUS
<1>2. /\ Len(p) \in Nat /\ i \in Nat /\ i <= Len(p) /\ Converted(p, r) = w[Len(p)]
      /\ \A j \in 1 .. Len(p) : w[j] = Crossed(p[j], w[j - 1], r)
  <2>1. Len(p) \in Nat /\ i \in Nat /\ i <= Len(p)
    BY <1>0, LenProperties
  <2>2. /\ Len(p) \in Nat /\ DOMAIN w = 0 .. Len(p) /\ w[0] = Input /\ Converted(p, r) = w[Len(p)]
        /\ \A j \in 1 .. Len(p) : w[j] = Crossed(p[j], w[j - 1], r) /\ p[j] \in DOMAIN Rate
    BY ONLY <1>1, CarriedIs, p \in Seq(DOMAIN Rate)
  <2> QED BY <2>1, <2>2
<1>3. \A j \in 1 .. Len(p) : Asks(p[j]) <=> j = i
  BY <1>0 DEF Crossings
<1>4. w[i - 1] = v[i - 1]
  <2>1. i - 1 \in 0 .. Len(p) /\ i - 1 \in 0 .. i - 1 /\ \A j \in 1 .. i - 1 : j \in 1 .. Len(p) /\ j # i
    BY <1>0, <1>2
  <2>2. \A j \in 1 .. i - 1 : Asks(p[j]) => SameAnswer(Edge(p[j]), r, Unanswered)
    BY <1>0, <1>3, <2>1
  <2> QED BY <1>1, <2>1, <2>2, SameCarried
<1>5. PICK c : c = IF side = p[i] THEN ThisSide(p[i], v[i - 1]) ELSE OtherSide(p[i], v[i - 1])
  OBVIOUS
<1>6. w[i] = c
  <2>1. Edge(p[i]) \in DOMAIN r /\ r[Edge(p[i])] = side /\ Asks(p[i])
    BY <1>0, <1>1, <1>3
  <2>2. w[i] = Crossed(p[i], v[i - 1], r)
    BY <1>0, <1>2, <1>4
  <2> QED BY <1>5, <2>1, <2>2 DEF Crossed
<1>7. PICK f : /\ AsQuoted(p, i, c) = f[Len(p)] /\ f[i] = c
               /\ \A j \in i + 1 .. Len(p) : f[j] = ThisSide(p[j], f[j - 1]) /\ p[j] \in DOMAIN Rate
  BY <1>0, AsQuotedIs
<1> DEFINE Bad == {j \in i .. Len(p) : f[j] # w[j]}
<1>8. ASSUME Bad # {} PROVE FALSE
  <2>2. \E k \in Bad : \A l \in Bad : k <= l
    <3> HIDE DEF Bad
    <3>1. Bad \in SUBSET Nat
      BY <1>2 DEF Bad
    <3> QED BY <1>8, <3>1, SmallestNat
  <2>3. PICK k \in Bad : \A l \in Bad : k <= l
    BY <2>2
  <2>4. CASE k = i
    BY <1>6, <1>7, <2>3, <2>4
  <2>5. CASE k # i
    <3>1. k - 1 \in i .. Len(p) /\ k - 1 \notin Bad /\ k \in i + 1 .. Len(p) /\ k \in 1 .. Len(p)
      <4>1. k \in i .. Len(p) /\ i \in Nat /\ Len(p) \in Nat /\ k # i
        BY <1>2, <2>3, <2>5
      <4>2. k - 1 \in i .. Len(p) /\ k \in i + 1 .. Len(p) /\ k \in 1 .. Len(p) /\ ~(k <= k - 1)
        BY ONLY <4>1
      <4> QED BY <2>3, <4>2
    <3>2. w[k] = ThisSide(p[k], w[k - 1])
      BY <1>2, <1>3, <2>5, <3>1 DEF Crossed
    <3> QED BY <1>7, <2>3, <3>1, <3>2
  <2> QED BY <2>4, <2>5
<1>9. Len(p) \in i .. Len(p)
  BY <1>2
<1>10. Converted(p, r) = AsQuoted(p, i, c)
  BY <1>2, <1>7, <1>8, <1>9
<1> QED BY <1>5, <1>10 DEF Rerun

\* The greater of two reruns, from the higher side.
LEMMA ReproducedIs ==
    ASSUME NEW j, NEW p \in Seq(DOMAIN Rate), p = path[j], NEW e \in Assumptions(j, p, Unanswered),
           Cardinality(Crossings(p)) = 1
    PROVE  Reproduced(e)
<1>1. PICK v : v = CarriedAlong(p, Unanswered)
  OBVIOUS
<1>2. PICK i \in 1 .. Len(p) : Asks(p[i]) /\ e = [comp |-> j, edge |-> Edge(p[i]), at |-> i, taken |-> v[i], other |-> Otherwise(p, i, v[i - 1])]
  BY <1>1 DEF Assumptions
<1>3. Crossings(p) = {i}
  <2>1. Len(p) \in Nat
    BY LenProperties
  <2>2. IsFiniteSet(1 .. Len(p))
    BY <2>1, FS_Interval
  <2>3. IsFiniteSet(Crossings(p))
    BY <2>2, FS_Subset DEF Crossings
  <2>4. PICK x : Crossings(p) = {x}
    BY <2>3, FS_Singleton
  <2>5. i \in Crossings(p)
    BY <1>2 DEF Crossings
  <2> QED BY <2>4, <2>5
<1>4. PICK n, c : n \in DOMAIN Rate /\ n = p[i] /\ c = v[i - 1] /\ IsFraction(c)
  <2>1. i - 1 \in 0 .. Len(p) /\ p[i] \in DOMAIN Rate
    BY LenProperties, ElementOfSeq
  <2> QED BY <1>1, <2>1, CarriedTyped
<1>5. PICK a, b, h : a = ThisSide(n, c) /\ b = OtherSide(n, c) /\ h = Higher(a, b)
  OBVIOUS
<1>6. IsFraction(a) /\ IsFraction(b) /\ h \in {a, b} /\ AtMost(a, h) /\ AtMost(b, h)
  BY <1>2, <1>4, <1>5, CrossedTyped, ChosenIs
<1>7. PICK x, y, z : x = AsQuoted(p, i, a) /\ y = AsQuoted(p, i, b) /\ z = AsQuoted(p, i, h)
  OBVIOUS
<1>8. IsFraction(x) /\ IsFraction(y) /\ z \in {x, y} /\ AtMost(x, z) /\ AtMost(y, z)
  BY <1>6, <1>7, AsQuotedKeepsOrder
<1>9. e.other = z /\ e.edge = {n, Reversed(n)} /\ e.comp = j
  BY <1>2, <1>4, <1>5, <1>7 DEF Otherwise, Edge
<1>10. \A side : Converted(p, [u \in {e.edge} |-> side]) = IF side = n THEN x ELSE y
  <2>1. ASSUME NEW side PROVE Converted(p, [u \in {e.edge} |-> side]) = IF side = n THEN x ELSE y
    <3>1. PICK r : r = [u \in {e.edge} |-> side]
      OBVIOUS
    <3>2. SoleQuestion(p, i) /\ SoleAnswer(r, Edge(p[i]), side)
      BY <1>2, <1>3, <3>1 DEF SoleQuestion, SoleAnswer
    <3>3. Rerun(p, i, v[i - 1], r, side)
      BY <1>1, <3>2, RerunIs
    <3>4. Converted(p, r) = IF side = n THEN x ELSE y
      BY <1>4, <1>5, <1>7, <3>3 DEF Rerun
    <3> QED BY <3>1, <3>4
  <2> QED BY <2>1
<1>11. Reruns(e) = {x, y}
  <2>1. n # Reversed(n)
    BY <1>4, QuotesAre
  <2>2. Reruns(e) = {Converted(p, [u \in {e.edge} |-> side]) : side \in {n, Reversed(n)}}
    BY <1>9 DEF Reruns
  <2> QED BY <1>10, <2>1, <2>2
<1>12. z \in Reruns(e) /\ \A w \in Reruns(e) : ~Less(z, w)
  BY <1>8, <1>11 DEF AtMost
<1>13. ASSUME NEW u \in Reruns(e), \A w \in Reruns(e) : ~Less(u, w) PROVE u = z
  <2>1. IsFraction(u) /\ IsFraction(z) /\ AtMost(u, z) /\ AtMost(z, u)
    BY <1>8, <1>11, <1>12, <1>13 DEF AtMost
  <2> QED BY <2>1, AtMostIs
<1> QED BY <1>9, <1>12, <1>13 DEF Reproduced

\* The crossings whose question is open, and what is known of a computation that is done: its result
\* under the answer there is, pending on what is open, each question it met in the ledger.
OpenAt(p, s) == {i \in 1 .. Len(p) : Asks(p[i]) /\ Edge(p[i]) \notin DOMAIN s}
Accounted(j) ==
    results[j] # NotYet =>
        /\ results[j] = Converted(path[j], settled)
        /\ pending[j] = {Edge(path[j][i]) : i \in OpenAt(path[j], settled)}
        /\ Assumptions(j, path[j], Unanswered) \subseteq ledger
LedgerIInv ==
    /\ path \in [Computations -> Paths] /\ DOMAIN results = Computations /\ DOMAIN pending = Computations
    /\ \A j \in Computations : Accounted(j)
    /\ \A e \in ledger : e.comp \in Computations /\ e \in Assumptions(e.comp, path[e.comp], Unanswered)
    /\ DOMAIN settled \subseteq Edges
    /\ settled = Unanswered \/ \A j \in Computations : results[j] # NotYet

\* A computation's path is one of bricks.
LEMMA PathIs == ASSUME LedgerIInv, NEW j \in Computations PROVE path[j] \in Seq(DOMAIN Rate)
BY InputIs DEF LedgerIInv

\* Unanswered answers no question.
LEMMA UnansweredIs == DOMAIN Unanswered = {}
BY DEF Unanswered

\* A conversion notes its own assumptions, one for each open question it crosses.
LEMMA AssumptionsAre ==
    ASSUME NEW j, NEW p \in Seq(DOMAIN Rate)
    PROVE  /\ \A e \in Assumptions(j, p, Unanswered) : e.comp = j /\ e.edge \in Edges
           /\ {e.edge : e \in Assumptions(j, p, Unanswered)} = {Edge(p[i]) : i \in OpenAt(p, Unanswered)}
<1>1. PICK v : v = CarriedAlong(p, Unanswered)
  OBVIOUS
<1>2. PICK f : f = [i \in 1 .. Len(p) |-> [comp |-> j, edge |-> Edge(p[i]), at |-> i, taken |-> v[i], other |-> Otherwise(p, i, v[i - 1])]]
  OBVIOUS
<1>3. Assumptions(j, p, Unanswered) = {f[i] : i \in OpenAt(p, Unanswered)}
  BY <1>1, <1>2 DEF Assumptions, OpenAt
<1>4. ASSUME NEW i \in OpenAt(p, Unanswered) PROVE f[i].comp = j /\ f[i].edge = Edge(p[i]) /\ Edge(p[i]) \in Edges
  <2>1. p[i] \in DOMAIN Rate /\ i \in 1 .. Len(p) /\ Asks(p[i])
    BY ElementOfSeq DEF OpenAt
  <2>2. Edge(p[i]) \in Edges
    BY <2>1 DEF Edges
  <2> QED BY <1>2, <2>1, <2>2
<1> QED BY <1>3, <1>4

\* At the start nothing is done.
LEMMA LedgerStart == ASSUME LedgerInit PROVE LedgerIInv
BY UnansweredIs DEF LedgerInit, LedgerIInv, Accounted

\* A result is not NotYet.
LEMMA ResultIs == ASSUME NEW x, IsFraction(x) PROVE x # NotYet
<1>1. PICK a \in Int, b \in Nat \ {0} : x = <<a, b>>
  BY FractionParts
<1>2. 1 \in DOMAIN x
  BY <1>1
<1>3. DOMAIN NotYet = {}
  BY DEF NotYet
<1> QED BY <1>2, <1>3

\* A conversion keeps the invariant: what it notes is what it crossed.
LEMMA ConvertKeeps == ASSUME LedgerIInv, NEW j \in Computations, Convert(j) PROVE LedgerIInv'
<1>1. PICK c, made : c = Converted(path[j], Unanswered) /\ made = Assumptions(j, path[j], Unanswered)
  OBVIOUS
<1>2. /\ results[j] = NotYet /\ results' = [results EXCEPT ![j] = c]
      /\ pending' = [pending EXCEPT ![j] = {e.edge : e \in made}] /\ ledger' = ledger \cup made
      /\ path' = path /\ settled' = settled
  BY <1>1 DEF Convert
<1>3. settled = Unanswered /\ path[j] \in Seq(DOMAIN Rate)
  BY <1>2, PathIs DEF LedgerIInv
<1>4. {e.edge : e \in made} = {Edge(path[j][i]) : i \in OpenAt(path[j], Unanswered)} /\ \A e \in made : e.comp = j
  BY <1>1, <1>3, AssumptionsAre
<1>5. ASSUME NEW k \in Computations PROVE Accounted(k)'
  <2>1. CASE k = j
    <3>1. results'[k] = c /\ pending'[k] = {Edge(path[k][i]) : i \in OpenAt(path[k], settled)} /\ made \subseteq ledger'
      BY <1>2, <1>3, <1>4, <2>1 DEF LedgerIInv
    <3> QED BY <1>1, <1>2, <1>3, <2>1, <3>1 DEF Accounted, OpenAt
  <2>2. CASE k # j
    <3>1. results'[k] = results[k] /\ pending'[k] = pending[k] /\ ledger \subseteq ledger'
      BY <1>2, <2>2 DEF LedgerIInv
    <3>2. Accounted(k)
      BY DEF LedgerIInv
    <3> QED BY <1>2, <3>1, <3>2 DEF Accounted, OpenAt
  <2> QED BY <2>1, <2>2
<1>6. ASSUME NEW e \in ledger' PROVE e.comp \in Computations /\ e \in Assumptions(e.comp, path[e.comp], Unanswered)
  BY <1>1, <1>2, <1>4 DEF LedgerIInv
<1>7. DOMAIN results' = Computations /\ DOMAIN pending' = Computations /\ Edges' = Edges
  BY <1>2 DEF LedgerIInv, Edges
<1> QED BY <1>2, <1>3, <1>5, <1>6, <1>7 DEF LedgerIInv

\* So does an answer: what was not rerun does not cross the edge, and would give the same.
LEMMA SettleKeeps ==
    ASSUME LedgerIInv, NEW edge \in {e.edge : e \in ledger}, NEW side, Settle(edge, side)
    PROVE  LedgerIInv'
<1>1. PICK s : s = [e \in {edge} |-> side]
  OBVIOUS
<1>2. /\ settled = Unanswered /\ settled' = s /\ path' = path /\ ledger' = ledger /\ \A k \in Computations : results[k] # NotYet
      /\ results' = [k \in Computations |-> IF k \in Dependents(edge) THEN Converted(path[k], s) ELSE results[k]]
      /\ pending' = [k \in Computations |-> IF k \in Dependents(edge) THEN pending[k] \ {edge} ELSE pending[k]]
  BY <1>1 DEF Settle
<1>3. DOMAIN s = {edge} /\ DOMAIN settled = {}
  BY <1>1, <1>2, UnansweredIs
<1>4. ASSUME NEW k \in Computations PROVE Accounted(k)' /\ results'[k] # NotYet
  <2>1. PICK p : p = path[k] /\ p \in Seq(DOMAIN Rate)
    BY PathIs
  <2>2. /\ results[k] = Converted(p, Unanswered) /\ pending[k] = {Edge(p[i]) : i \in OpenAt(p, Unanswered)}
        /\ Assumptions(k, p, Unanswered) \subseteq ledger
    BY <1>2, <2>1 DEF LedgerIInv, Accounted
  <2>3. ASSUME k \notin Dependents(edge), NEW i \in 1 .. Len(p), Asks(p[i]) PROVE Edge(p[i]) # edge
    <3>1. i \in OpenAt(p, Unanswered)
      BY <2>3, UnansweredIs DEF OpenAt
    <3>4. /\ {e.edge : e \in Assumptions(k, p, Unanswered)} = {Edge(p[l]) : l \in OpenAt(p, Unanswered)}
          /\ \A e \in Assumptions(k, p, Unanswered) : e.comp = k
      BY <2>1, AssumptionsAre
    <3>5. Edge(p[i]) \in {Edge(p[l]) : l \in OpenAt(p, Unanswered)}
      BY <3>1
    <3>2. PICK e \in Assumptions(k, p, Unanswered) : e.edge = Edge(p[i])
      BY ONLY <3>4, <3>5
    <3>3. e.comp = k /\ e \in ledger
      BY <2>2, <3>2, <3>4
    <3> QED BY <2>3, <3>2, <3>3 DEF Dependents
  <2>4. results'[k] = Converted(p, s)
    <3>1. CASE k \in Dependents(edge)
      BY <1>2, <2>1, <3>1
    <3>2. CASE k \notin Dependents(edge)
      <4>1. \A i \in 1 .. Len(p) : Asks(p[i]) => SameAnswer(Edge(p[i]), Unanswered, s)
        BY <1>3, <2>3, <3>2, UnansweredIs DEF SameAnswer
      <4>2. Converted(p, Unanswered) = Converted(p, s)
        BY <2>1, <4>1, SameConverted
      <4> QED BY <1>2, <2>2, <3>2, <4>2
    <3> QED BY <3>1, <3>2
  <2>5. pending'[k] = {Edge(p[i]) : i \in OpenAt(p, s)}
    <3>1. \A i \in 1 .. Len(p) : i \in OpenAt(p, s) <=> i \in OpenAt(p, Unanswered) /\ Edge(p[i]) # edge
      BY <1>3, UnansweredIs DEF OpenAt
    <3>2. OpenAt(p, s) = {i \in OpenAt(p, Unanswered) : Edge(p[i]) # edge}
      BY <3>1 DEF OpenAt
    <3>3. CASE k \in Dependents(edge)
      <4>1. pending'[k] = pending[k] \ {edge}
        BY <1>2, <3>3
      <4> QED BY <2>2, <3>2, <4>1
    <3>4. CASE k \notin Dependents(edge)
      <4>1. pending'[k] = pending[k]
        BY <1>2, <3>4
      <4>2. \A i \in OpenAt(p, Unanswered) : Edge(p[i]) # edge
        BY <2>3, <3>4 DEF OpenAt
      <4> QED BY <2>2, <3>2, <4>1, <4>2
    <3> QED BY <3>3, <3>4
  <2>6. results'[k] # NotYet
    <3>1. IsFraction(Converted(p, s))
      BY <2>1, CarriedTyped
    <3> QED BY <2>4, <3>1, ResultIs
  <2> QED BY <1>2, <2>1, <2>2, <2>4, <2>5, <2>6 DEF Accounted, OpenAt
<1>5. edge \in Edges
  <2>1. PICK e \in ledger : e.edge = edge
    OBVIOUS
  <2>2. e \in Assumptions(e.comp, path[e.comp], Unanswered) /\ path[e.comp] \in Seq(DOMAIN Rate)
    BY PathIs DEF LedgerIInv
  <2> QED BY <2>1, <2>2, AssumptionsAre
<1>6. DOMAIN results' = Computations /\ DOMAIN pending' = Computations /\ DOMAIN settled' \subseteq Edges
  BY <1>2, <1>3, <1>5
<1>7. \A e \in ledger' : e.comp \in Computations /\ e \in Assumptions(e.comp, path'[e.comp], Unanswered)
  BY <1>2 DEF LedgerIInv
<1> QED BY <1>2, <1>4, <1>6, <1>7 DEF LedgerIInv

\* Every step keeps the invariant.
LEMMA LedgerKept == ASSUME LedgerIInv, [LedgerNext]_ledgerVars PROVE LedgerIInv'
<1>1. CASE UNCHANGED ledgerVars
  BY <1>1 DEF ledgerVars, LedgerIInv, Accounted, OpenAt
<1>2. CASE LedgerNext
  BY <1>2, ConvertKeeps, SettleKeeps DEF LedgerNext
<1> QED BY <1>1, <1>2

\* A possible answer answers every question, and agrees with the answer there is.
LEMMA AnswerIs ==
    ASSUME NEW a \in PossibleAnswers
    PROVE  DOMAIN a = Edges /\ \A e \in DOMAIN settled : a[e] = settled[e]
BY DEF PossibleAnswers, AllAnswers

\* brickassume.py:19: no possible answer gives less than the result.
LEMMA LowestHolds == ASSUME LedgerIInv PROVE DefaultLowest
<1>1. SUFFICES ASSUME NEW j \in Done, NEW a \in PossibleAnswers PROVE ~Less(Converted(path[j], a), results[j])
  BY DEF DefaultLowest
<1>2. PICK p : p = path[j] /\ p \in Seq(DOMAIN Rate) /\ j \in Computations
  BY PathIs DEF Done
<1>3. results[j] = Converted(p, settled)
  BY <1>2 DEF LedgerIInv, Accounted, Done
<1>4. Agree(settled, a)
  BY AnswerIs DEF Agree, LedgerIInv
<1>5. \A n \in DOMAIN Rate : Asks(n) => Edge(n) \in DOMAIN a
  BY AnswerIs DEF Edges
<1>6. AtMost(Converted(p, settled), Converted(p, a))
  BY <1>2, <1>4, <1>5, ConvertedLowest
<1> QED BY <1>2, <1>3, <1>6 DEF AtMost

\* brickassume.py:21: nothing settled is pending, and a result without pending flags is final.
LEMMA FinalHolds == ASSUME LedgerIInv PROVE SettledIsFinal
<1>1. SUFFICES ASSUME NEW j \in Done
               PROVE  /\ pending[j] \cap DOMAIN settled = {}
                      /\ pending[j] = {} => \A a \in PossibleAnswers : Converted(path[j], a) = results[j]
  BY DEF SettledIsFinal
<1>2. PICK p : p = path[j] /\ p \in Seq(DOMAIN Rate) /\ j \in Computations
  BY PathIs DEF Done
<1>3. results[j] = Converted(p, settled) /\ pending[j] = {Edge(p[i]) : i \in OpenAt(p, settled)}
  BY <1>2 DEF LedgerIInv, Accounted, Done
<1>4. pending[j] \cap DOMAIN settled = {}
  BY <1>3 DEF OpenAt
<1>5. ASSUME pending[j] = {}, NEW a \in PossibleAnswers PROVE Converted(p, a) = Converted(p, settled)
  <2>1. OpenAt(p, settled) = {}
    BY <1>3, <1>5
  <2>2. ASSUME NEW i \in 1 .. Len(p), Asks(p[i]) PROVE SameAnswer(Edge(p[i]), a, settled)
    <3>1. Edge(p[i]) \in DOMAIN settled
      BY <2>1, <2>2 DEF OpenAt
    <3>2. DOMAIN settled \subseteq Edges
      BY DEF LedgerIInv
    <3> QED BY <3>1, <3>2, AnswerIs DEF SameAnswer
  <2> QED BY <1>2, <2>2, SameConverted
<1> QED BY <1>2, <1>3, <1>4, <1>5

\* brickassume.py:22: the ledger's other outcome is what rerunning gives, with one question asked.
LEMMA CounterfactualHolds == ASSUME LedgerIInv PROVE CounterfactualExact
<1>1. SUFFICES ASSUME NEW e \in ledger, Cardinality(Crossings(path[e.comp])) = 1 PROVE Reproduced(e)
  BY DEF CounterfactualExact
<1>2. e.comp \in Computations /\ e \in Assumptions(e.comp, path[e.comp], Unanswered) /\ path[e.comp] \in Seq(DOMAIN Rate)
  BY PathIs DEF LedgerIInv
<1> QED BY <1>1, <1>2, ReproducedIs

\* What lazy_convert assumes, keeps and settles, for every registry, paths and input.
THEOREM LedgerSoundTheorem == LedgerSpec => []LedgerSound
<1>1. LedgerIInv => LedgerSound
  BY LowestHolds, FinalHolds, CounterfactualHolds DEF LedgerSound
<1> QED BY <1>1, LedgerStart, LedgerKept, PTL DEF LedgerSpec

-----------------------------------------------------------------------------
(* EqMemory *)

\* Two pairs of one value stand for one fraction.
LEMMA SameValue ==
    ASSUME NEW x, NEW y, NEW a, NEW b, NEW c, NEW d, Represents(x, a, b), Represents(y, c, d), a * d = c * b
    PROVE  x = y
<1>1. PICK p \in Int, q \in Nat \ {0} : p = Num(x) /\ q = Den(x) /\ p * b = a * q /\ IsFraction(x)
  BY FractionParts DEF Represents
<1>2. a \in Int /\ b \in Int \ {0} /\ c \in Int /\ d \in Int \ {0}
  BY DEF Represents
<1>3. (p * d) * b = (c * q) * b
  <2>1. (p * d) * b = (p * b) * d
    BY <1>1, <1>2
  <2>2. (a * q) * d = (a * d) * q
    BY <1>1, <1>2
  <2>3. (c * b) * q = (c * q) * b
    BY <1>1, <1>2
  <2> QED BY <1>1, <2>1, <2>2, <2>3
<1>4. p * d \in Int /\ c * q \in Int
  BY <1>1, <1>2
<1>5. p * d = c * q
  BY ONLY <1>2, <1>3, <1>4, Cancel
<1>6. Represents(x, c, d)
  BY <1>1, <1>2, <1>5 DEF Represents
<1> QED BY <1>6, Same

\* The difference.
LEMMA MinusIs ==
    ASSUME NEW x, NEW y, NEW a, NEW b, NEW c, NEW d, Represents(x, a, b), Represents(y, c, d)
    PROVE  Represents(Minus(x, y), a * d - c * b, b * d)
<1>1. Represents(Neg(y), -c, d)
  BY NegIs
<1>2. Represents(Minus(x, y), a * d + (-c) * b, b * d)
  BY <1>1, PlusIs DEF Minus
<1>3. a \in Int /\ b \in Int /\ c \in Int /\ d \in Int
  BY DEF Represents
<1>4. a * d + (-c) * b = a * d - c * b
  BY <1>3
<1> QED BY <1>2, <1>4

\* What is added or taken away leaves a fraction.
LEMMA DifferenceTyped == ASSUME NEW x, NEW y, IsFraction(x), IsFraction(y) PROVE IsFraction(Minus(x, y)) /\ IsFraction(Plus(x, y))
<1>1. PICK a \in Int, b \in Int \ {0}, c \in Int, d \in Int \ {0} : Represents(x, a, b) /\ Represents(y, c, d)
  BY Itself, FractionParts
<1>2. Represents(Minus(x, y), a * d - c * b, b * d)
  BY <1>1, MinusIs
<1>3. Represents(Plus(x, y), a * d + c * b, b * d)
  BY <1>1, PlusIs
<1> QED BY <1>2, <1>3 DEF Represents

\* A fraction that is not zero.
NonZero(x) == IsFraction(x) /\ x # Zero

\* Zero is the fraction with nothing above.
LEMMA ZeroIs == ASSUME NEW x, IsFraction(x) PROVE x = Zero <=> Num(x) = 0
<1>1. PICK a \in Int, b \in Nat \ {0} : a = Num(x) /\ b = Den(x)
  BY FractionParts
<1>2. Num(Zero) = 0 /\ Den(Zero) = 1
  BY DEF Zero, Num, Den
<1>3. ASSUME a = 0 PROVE x = Zero
  <2>1. Num(x) = 0 /\ Den(x) = b
    BY <1>1, <1>3
  <2>2. Num(x) * Den(Zero) = Num(Zero) * Den(x)
    BY <1>2, <2>1
  <2> QED BY <2>2, OneIs, OneFraction
<1> QED BY <1>1, <1>2, <1>3

\* A fraction is zero when any pair that stands for it has nothing above.
LEMMA NonZeroIs == ASSUME NEW x, NEW a, NEW b, Represents(x, a, b) PROVE NonZero(x) <=> a # 0
<1>1. PICK p \in Int, q \in Nat \ {0} : p = Num(x) /\ q = Den(x) /\ p * b = a * q
  BY FractionParts DEF Represents
<1>2. a \in Int /\ b \in Int \ {0}
  BY DEF Represents
<1>3. p = 0 <=> a = 0
  <2>1. p = 0 => a * q = 0
    BY <1>1, <1>2
  <2>2. a = 0 => p * b = 0
    BY <1>1, <1>2
  <2> QED BY <1>1, <1>2, <2>1, <2>2
<1> QED BY <1>1, <1>3, ZeroIs DEF NonZero, Represents

\* Zero taken away.
LEMMA MinusZero == ASSUME NEW x, IsFraction(x) PROVE Minus(x, Zero) = x
<1>1. PICK a \in Int, b \in Int \ {0} : Represents(x, a, b)
  BY Itself, FractionParts
<1>2. Represents(Zero, 0, 1)
  BY OneIs DEF Represents, Zero, Num, Den
<1>3. Represents(Minus(x, Zero), a * 1 - 0 * b, b * 1)
  BY <1>1, <1>2, MinusIs
<1> QED BY <1>1, <1>3, Same

\* Two fractions that are not one differ.
LEMMA DifferentIs == ASSUME NEW x, NEW y, IsFraction(x), IsFraction(y), x # y PROVE NonZero(Minus(x, y))
<1>1. PICK a \in Int, b \in Int \ {0}, c \in Int, d \in Int \ {0} : Represents(x, a, b) /\ Represents(y, c, d)
  BY Itself, FractionParts
<1>2. Represents(Minus(x, y), a * d - c * b, b * d)
  BY <1>1, MinusIs
<1>3. a * d # c * b
  BY <1>1, SameValue
<1> QED BY <1>2, <1>3, NonZeroIs

\* Zero multiplied.
LEMMA ZeroTimes == ASSUME NEW k, IsFraction(k) PROVE Times(Zero, k) = Zero
<1>1. PICK a \in Int, b \in Int \ {0} : Represents(k, a, b)
  BY Itself, FractionParts
<1>2. Represents(Zero, 0, 1)
  BY OneIs DEF Represents, Zero, Num, Den
<1>3. Represents(Times(Zero, k), 0 * a, 1 * b)
  BY <1>1, <1>2, TimesIs
<1> QED BY <1>2, <1>3, SameValue

\* A factor that is not zero makes nothing zero.
LEMMA NonZeroTimes ==
    ASSUME NEW x, NEW k, IsFraction(x), NonZero(k)
    PROVE  IsFraction(Times(x, k)) /\ (Times(x, k) = Zero <=> x = Zero)
<1>1. PICK a \in Int, b \in Int \ {0}, m \in Int, n \in Int \ {0} : Represents(x, a, b) /\ Represents(k, m, n)
  BY Itself, FractionParts DEF NonZero
<1>2. Represents(Times(x, k), a * m, b * n)
  BY <1>1, TimesIs
<1>3. m # 0
  BY <1>1, NonZeroIs
<1>4. a * m = 0 <=> a = 0
  BY <1>1, <1>3
<1> QED BY <1>1, <1>2, <1>4, NonZeroIs DEF NonZero, Represents

\* A factor of both sides of a difference.
LEMMA TimesDistributes ==
    ASSUME NEW x, NEW y, NEW k, IsFraction(x), IsFraction(y), IsFraction(k)
    PROVE  Minus(Times(x, k), Times(y, k)) = Times(Minus(x, y), k)
<1>1. PICK a \in Int, b \in Int \ {0}, c \in Int, d \in Int \ {0}, m \in Int, n \in Int \ {0} :
        Represents(x, a, b) /\ Represents(y, c, d) /\ Represents(k, m, n)
  BY Itself, FractionParts
<1>2. Represents(Times(x, k), a * m, b * n) /\ Represents(Times(y, k), c * m, d * n)
  BY <1>1, TimesIs
<1>3. Represents(Minus(Times(x, k), Times(y, k)), (a * m) * (d * n) - (c * m) * (b * n), (b * n) * (d * n))
  BY <1>2, MinusIs
<1>4. Represents(Times(Minus(x, y), k), (a * d - c * b) * m, (b * d) * n)
  <2>1. Represents(Minus(x, y), a * d - c * b, b * d)
    BY <1>1, MinusIs
  <2> QED BY <1>1, <2>1, TimesIs
<1>5. PICK e \in Int, f \in Int, u \in Int : e = a * d - c * b /\ f = b * d /\ u = m * n
  OBVIOUS
<1>6. (a * m) * (d * n) - (c * m) * (b * n) = e * u /\ (b * n) * (d * n) = (f * n) * n
  <2>1. (a * m) * (d * n) = (a * d) * u
    BY <1>5
  <2>2. (c * m) * (b * n) = (c * b) * u
    BY <1>5
  <2>3. (a * d) * u - (c * b) * u = e * u
    BY <1>5
  <2>4. (b * n) * (d * n) = (f * n) * n
    BY <1>5
  <2> QED BY <2>1, <2>2, <2>3, <2>4
<1>7. (e * u) * (f * n) = (e * m) * ((f * n) * n)
  BY <1>5
<1> QED BY <1>3, <1>4, <1>5, <1>6, <1>7, SameValue

\* Both parts of a ratio multiplied by the same.
LEMMA SameRatio ==
    ASSUME NEW x, NEW y, NEW k, IsFraction(x), NonZero(y), NonZero(k)
    PROVE  Over(Times(x, k), Times(y, k)) = Over(x, y)
<1>1. PICK a \in Int, b \in Int \ {0}, c \in Int, d \in Int \ {0}, m \in Int, n \in Int \ {0} :
        Represents(x, a, b) /\ Represents(y, c, d) /\ Represents(k, m, n)
  BY Itself, FractionParts DEF NonZero
<1>2. c # 0 /\ m # 0
  BY <1>1, NonZeroIs
<1>3. Represents(Inv(y), d, c) /\ Represents(Times(x, k), a * m, b * n) /\ Represents(Times(y, k), c * m, d * n)
  BY <1>1, <1>2, TimesIs, InvIs
<1>4. c * m # 0
  BY <1>2
<1>5. Represents(Inv(Times(y, k)), d * n, c * m)
  BY <1>3, <1>4, InvIs
<1>6. Represents(Over(x, y), a * d, b * c)
  BY <1>1, <1>3, TimesIs DEF Over
<1>7. Represents(Over(Times(x, k), Times(y, k)), (a * m) * (d * n), (b * n) * (c * m))
  BY <1>3, <1>5, TimesIs DEF Over
<1>8. PICK e \in Int, f \in Int, u \in Int : e = a * d /\ f = b * c /\ u = m * n
  OBVIOUS
<1>9. (a * m) * (d * n) = e * u /\ (b * n) * (c * m) = f * u
  BY <1>8
<1>10. (e * u) * f = e * (f * u)
  BY <1>8
<1> QED BY <1>6, <1>7, <1>8, <1>9, <1>10, SameValue

\* Divided by one.
LEMMA OverOne == ASSUME NEW x, IsFraction(x) PROVE Over(x, One) = x
<1>1. One # Zero
  BY DEF One, Zero
<1>2. Num(One) = 1
  BY DEF One, Num
<1>3. IsFraction(Inv(One)) /\ Times(One, Inv(One)) = One
  BY <1>2, OneIs, TimesInverse
<1>4. Inv(One) = One
  BY <1>3, TimesOne
<1> QED BY <1>4, TimesOne DEF Over

\* A factor and its inverse.
LEMMA InverseIs == ASSUME NEW x, NonZero(x) PROVE NonZero(Inv(x)) /\ Times(x, Inv(x)) = One
<1>1. Num(x) # 0
  BY ZeroIs DEF NonZero
<1>2. IsFraction(Inv(x)) /\ Times(x, Inv(x)) = One
  BY <1>1, TimesInverse DEF NonZero
<1>3. Inv(x) # Zero
  <2>1. SUFFICES ASSUME Inv(x) = Zero PROVE FALSE
    OBVIOUS
  <2>2. Times(Inv(x), x) = Zero
    BY <2>1, ZeroTimes DEF NonZero
  <2>3. Times(Inv(x), x) = One
    BY <1>1, TimesInverse DEF NonZero
  <2> QED BY <2>2, <2>3 DEF One, Zero
<1> QED BY <1>2, <1>3 DEF NonZero

\* An equation with one solution, and what a move leaves of it.
State(st) ==
    /\ st = <<st[1], st[2], st[3], st[4]>> /\ st[1] # st[3]
    /\ IsFraction(st[1]) /\ IsFraction(st[2]) /\ IsFraction(st[3]) /\ IsFraction(st[4])
Equivalent(st, t) == State(t) /\ SolveDirect(t) = SolveDirect(st)

\* What the assumption says of an equation.
LEMMA EquationIs == ASSUME NEW st \in Equations PROVE State(st)
BY EquationsAssumption, LowestTerms DEF State

\* A state by its four fractions.
LEMMA StateOf ==
    ASSUME NEW p, NEW q, NEW r, NEW s, IsFraction(p), IsFraction(q), IsFraction(r), IsFraction(s), p # r
    PROVE  State(<<p, q, r, s>>)
BY DEF State

\* Everything gathered: the state says its solution.
LEMMA GoalIs ==
    ASSUME NEW st, State(st), st[1] = One, st[2] = Zero, st[3] = Zero
    PROVE  st = Goal(st)
<1>1. Minus(st[4], st[2]) = st[4] /\ Minus(st[1], st[3]) = One
  BY MinusZero DEF State
<1>2. SolveDirect(st) = st[4]
  BY <1>1, OverOne DEF SolveDirect, State
<1>3. st = <<One, Zero, Zero, st[4]>>
  BY DEF State
<1> QED BY <1>2, <1>3 DEF Goal, Solved

\* States of one solution have one goal.
LEMMA EquivalentGoal == ASSUME NEW st, NEW t, Equivalent(st, t) PROVE Goal(t) = Goal(st)
BY DEF Equivalent, Goal

\* To have one solution is reflexive and transitive.
LEMMA EquivalentIs ==
    ASSUME NEW st, State(st)
    PROVE  Equivalent(st, st) /\ \A t, u : Equivalent(st, t) /\ Equivalent(t, u) => Equivalent(st, u)
BY DEF Equivalent

\* The moves.
GatherX == <<"movex", NoParameter>>
GatherC == <<"movec", NoParameter>>
Scale(k) == <<"mul", k>>

\* x to the left: the solution stays.
LEMMA GatherXIs ==
    ASSUME NEW st, State(st), NEW t, t = ApplyMove(st, GatherX)
    PROVE  t = <<Minus(st[1], st[3]), st[2], Zero, st[4]>> /\ Equivalent(st, t)
<1>1. t = <<Minus(st[1], st[3]), st[2], Zero, st[4]>>
  BY DEF ApplyMove, GatherX
<1>2. NonZero(Minus(st[1], st[3]))
  BY DifferentIs DEF State
<1>3. State(t)
  BY <1>1, <1>2, OneIs, StateOf DEF NonZero, State
<1>4. Minus(t[1], t[3]) = Minus(st[1], st[3]) /\ t[4] = st[4] /\ t[2] = st[2]
  BY <1>1, <1>2, MinusZero DEF NonZero
<1> QED BY <1>1, <1>3, <1>4 DEF Equivalent, SolveDirect

\* The constants to the right: the solution stays.
LEMMA GatherCIs ==
    ASSUME NEW st, State(st), NEW t, t = ApplyMove(st, GatherC)
    PROVE  t = <<st[1], Zero, st[3], Minus(st[4], st[2])>> /\ Equivalent(st, t)
<1>1. t = <<st[1], Zero, st[3], Minus(st[4], st[2])>>
  BY DEF ApplyMove, GatherC
<1>2. IsFraction(Minus(st[4], st[2]))
  BY DifferenceTyped DEF State
<1>3. State(t)
  BY <1>1, <1>2, OneIs, StateOf DEF State
<1>4. Minus(t[4], t[2]) = Minus(st[4], st[2]) /\ t[1] = st[1] /\ t[3] = st[3]
  BY <1>1, <1>2, MinusZero
<1> QED BY <1>1, <1>3, <1>4 DEF Equivalent, SolveDirect

\* Both sides multiplied: the solution stays.
LEMMA ScaleIs ==
    ASSUME NEW st, State(st), NEW k, NonZero(k), NEW t, t = ApplyMove(st, Scale(k))
    PROVE  t = <<Times(st[1], k), Times(st[2], k), Times(st[3], k), Times(st[4], k)>> /\ Equivalent(st, t)
<1>1. t = <<Times(st[1], k), Times(st[2], k), Times(st[3], k), Times(st[4], k)>>
  <2>1. t = ScaledBy(st, k)
    BY DEF ApplyMove, Scale
  <2> QED BY <2>1 DEF ScaledBy
<1>2. PICK p, q, r, s : p = st[1] /\ q = st[2] /\ r = st[3] /\ s = st[4] /\ p # r
                        /\ IsFraction(p) /\ IsFraction(q) /\ IsFraction(r) /\ IsFraction(s)
  BY DEF State
<1>3. IsFraction(Times(p, k)) /\ IsFraction(Times(q, k)) /\ IsFraction(Times(r, k)) /\ IsFraction(Times(s, k))
  BY <1>2, NonZeroTimes
<1>4. PICK d, e : d = Minus(p, r) /\ e = Minus(s, q) /\ NonZero(d) /\ IsFraction(e)
  BY <1>2, DifferentIs, DifferenceTyped
<1>5. Minus(Times(p, k), Times(r, k)) = Times(d, k) /\ Minus(Times(s, k), Times(q, k)) = Times(e, k)
  BY <1>2, <1>4, TimesDistributes DEF NonZero
<1>6. Times(p, k) # Times(r, k)
  <2>1. SUFFICES ASSUME Times(p, k) = Times(r, k) PROVE FALSE
    OBVIOUS
  <2>2. PICK m \in Int, n \in Int \ {0} : Represents(Times(p, k), m, n)
    BY <1>3, Itself, FractionParts
  <2>3. Represents(Minus(Times(p, k), Times(r, k)), m * n - m * n, n * n)
    BY <2>1, <2>2, MinusIs
  <2>4. m * n - m * n = 0
    OBVIOUS
  <2>5. ~NonZero(Times(d, k))
    BY <1>5, <2>3, <2>4, NonZeroIs
  <2> QED BY <1>4, <2>5, NonZeroTimes DEF NonZero
<1>7. Over(Times(e, k), Times(d, k)) = Over(e, d)
  BY <1>4, SameRatio
<1>8. State(t)
  BY <1>1, <1>2, <1>3, <1>6, StateOf
<1>9. SolveDirect(t) = SolveDirect(st)
  BY <1>1, <1>2, <1>4, <1>5, <1>7 DEF SolveDirect
<1> QED BY <1>1, <1>8, <1>9 DEF Equivalent

\* Nothing is left but to divide.
Gathered(st) == State(st) /\ st[2] = Zero /\ st[3] = Zero

\* Divided by what stands before x, the state is the goal.
LEMMA DividedIs ==
    ASSUME NEW st, Gathered(st)
    PROVE  /\ NonZero(st[1]) /\ (st[1] = One => st = Goal(st))
           /\ ApplyMove(st, Scale(Inv(st[1]))) = Goal(st)
<1>1. NonZero(st[1])
  BY DEF Gathered, State, NonZero
<1>2. PICK k : k = Inv(st[1]) /\ NonZero(k) /\ Times(st[1], k) = One
  BY <1>1, InverseIs
<1>3. PICK t : t = ApplyMove(st, Scale(k))
  OBVIOUS
<1>4. t = <<Times(st[1], k), Times(st[2], k), Times(st[3], k), Times(st[4], k)>> /\ Equivalent(st, t)
  BY <1>2, <1>3, ScaleIs DEF Gathered
<1>5. t[1] = One /\ t[2] = Zero /\ t[3] = Zero
  BY <1>2, <1>4, ZeroTimes DEF Gathered, NonZero
<1>6. t = Goal(st)
  BY <1>4, <1>5, GoalIs, EquivalentGoal DEF Equivalent
<1>7. st[1] = One => st = Goal(st)
  BY GoalIs DEF Gathered
<1> QED BY <1>1, <1>2, <1>3, <1>6, <1>7

\* m is a multiple of x.
MultipleOf(m, x) == \E c \in Nat : m = x * c

\* The common multiple is one of both.
LEMMA LcmIs ==
    ASSUME NEW m \in Nat \ {0}, NEW n \in Nat \ {0}
    PROVE  Lcm2(m, n) \in Nat \ {0} /\ MultipleOf(Lcm2(m, n), m) /\ MultipleOf(Lcm2(m, n), n)
<1>1. PICK g : g = Gcd(m, n)
  OBVIOUS
<1>2. IsGcd(g, m, n)
  <2>1. Abs(m) = m /\ Abs(n) = n
    BY DEF Abs
  <2> QED BY <1>1, <2>1, GcdIs DEF Gcd
<1>3. PICK q \in Nat, r \in Nat : g \in Nat /\ m = g * q /\ n = g * r
  BY <1>2 DEF IsGcd
<1>4. g # 0 /\ q # 0
  BY <1>3
<1>5. m * n = g * (q * n) /\ q * n \in Int
  BY <1>3
<1>6. Lcm2(m, n) = q * n
  BY <1>1, <1>3, <1>4, <1>5, ExactQuotient DEF Lcm2
<1>7. q * n = m * r
  BY <1>3
<1>8. q * n \in Nat /\ q * n > 0 /\ q * n = n * q
  BY <1>3, <1>4
<1> QED BY <1>3, <1>6, <1>7, <1>8 DEF MultipleOf

\* A multiple of all four denominators.
DividesAll(m, st) == \A i \in 1 .. 4 : MultipleOf(m, Den(st[i]))

\* And that of a state is one of its four denominators.
LEMMA LcmOfIs == ASSUME NEW st, State(st) PROVE LcmOf(st) \in Nat \ {0} /\ DividesAll(LcmOf(st), st)
<1>1. PICK a, b, c, d : a = Den(st[1]) /\ b = Den(st[2]) /\ c = Den(st[3]) /\ d = Den(st[4])
  OBVIOUS
<1>2. a \in Nat \ {0} /\ b \in Nat \ {0} /\ c \in Nat \ {0} /\ d \in Nat \ {0}
  BY <1>1, FractionParts DEF State
<1>3. PICK m, n, l : m = Lcm2(a, b) /\ n = Lcm2(c, d) /\ l = Lcm2(m, n)
  OBVIOUS
<1>4. m \in Nat \ {0} /\ MultipleOf(m, a) /\ MultipleOf(m, b)
  BY <1>2, <1>3, LcmIs
<1>5. n \in Nat \ {0} /\ MultipleOf(n, c) /\ MultipleOf(n, d)
  BY <1>2, <1>3, LcmIs
<1>6. l \in Nat \ {0} /\ MultipleOf(l, m) /\ MultipleOf(l, n)
  BY <1>3, <1>4, <1>5, LcmIs
<1>7. ASSUME NEW x \in Nat, NEW y, MultipleOf(y, x), MultipleOf(l, y) PROVE MultipleOf(l, x)
  <2>1. PICK u \in Nat, v \in Nat : y = x * u /\ l = y * v
    BY <1>7 DEF MultipleOf
  <2>2. l = x * (u * v) /\ u * v \in Nat
    BY <2>1
  <2> QED BY <2>2 DEF MultipleOf
<1>8. MultipleOf(l, a) /\ MultipleOf(l, b) /\ MultipleOf(l, c) /\ MultipleOf(l, d)
  BY <1>2, <1>4, <1>5, <1>6, <1>7
<1>9. LcmOf(st) = l
  BY <1>1, <1>3 DEF LcmOf
<1>10. \A i \in 1 .. 4 : Den(st[i]) \in {a, b, c, d}
  BY <1>1
<1> QED BY <1>6, <1>8, <1>9, <1>10 DEF DividesAll

\* Whole numbers as fractions.
WholeFrac(x) == IsFraction(x) /\ IsWhole(x)
AllWhole(st) == \A i \in 1 .. 4 : WholeFrac(st[i])

\* A whole number is whole, and zero when it is 0.
LEMMA WholeIs == ASSUME NEW n \in Int PROVE WholeFrac(Int2F(n)) /\ Represents(Int2F(n), n, 1) /\ (n # 0 => NonZero(Int2F(n)))
<1>1. Num(Int2F(n)) = n /\ Den(Int2F(n)) = 1 /\ Int2F(n) \in Int \X (Nat \ {0})
  BY DEF Int2F, Num, Den
<1>2. Coprime(n, 1)
  <2>1. 0 * n + 1 * 1 = 1
    OBVIOUS
  <2> QED BY <2>1 DEF Coprime
<1>3. IsFraction(Int2F(n))
  BY <1>1, <1>2 DEF IsFraction
<1>4. Represents(Int2F(n), n, 1)
  BY <1>1, <1>3 DEF Represents
<1> QED BY <1>1, <1>3, <1>4, NonZeroIs DEF WholeFrac, IsWhole

\* A fraction that a pair over 1 stands for is whole.
LEMMA WholeWhen == ASSUME NEW x, NEW n, Represents(x, n, 1) PROVE WholeFrac(x)
<1>1. n \in Int
  BY DEF Represents
<1> QED BY <1>1, WholeIs, Same

\* A whole fraction stands over 1.
LEMMA WholeParts == ASSUME NEW x, WholeFrac(x) PROVE Num(x) \in Int /\ Represents(x, Num(x), 1)
<1>1. Den(x) = 1
  BY DEF WholeFrac, IsWhole
<1> QED BY <1>1, Itself, FractionParts DEF WholeFrac

\* The difference of whole ones is whole.
LEMMA WholeDifference == ASSUME NEW x, NEW y, WholeFrac(x), WholeFrac(y) PROVE WholeFrac(Minus(x, y))
<1>1. PICK a \in Int, c \in Int : Represents(x, a, 1) /\ Represents(y, c, 1)
  BY WholeParts
<1>2. Represents(Minus(x, y), a * 1 - c * 1, 1 * 1)
  BY <1>1, MinusIs
<1>3. 1 * 1 = 1
  OBVIOUS
<1> QED BY <1>2, <1>3, WholeWhen

\* Zero and one are whole.
LEMMA WholeZero == WholeFrac(Zero) /\ WholeFrac(One)
<1>1. Zero = Int2F(0) /\ One = Int2F(1)
  BY DEF Zero, One, Int2F
<1> QED BY <1>1, WholeIs

\* Multiplied by a multiple of its denominator a fraction is whole.
LEMMA ClearedIs ==
    ASSUME NEW x, IsFraction(x), NEW m \in Nat \ {0}, NEW c \in Nat, m = Den(x) * c
    PROVE  WholeFrac(Times(x, Int2F(m)))
<1>1. PICK a \in Int, b \in Nat \ {0} : a = Num(x) /\ b = Den(x) /\ Represents(x, a, b)
  BY FractionParts, Itself
<1>2. Represents(Times(x, Int2F(m)), a * m, b * 1)
  BY <1>1, WholeIs, TimesIs
<1>3. (a * m) * 1 = (a * c) * (b * 1)
  BY <1>1
<1>4. a * c \in Int
  BY <1>1
<1>5. Times(x, Int2F(m)) = Int2F(a * c)
  BY <1>2, <1>3, <1>4, WholeIs, SameValue
<1> QED BY <1>4, <1>5, WholeIs

\* Denominators that divide one are one.
LEMMA LcmOne == ASSUME NEW st, State(st), LcmOf(st) = 1 PROVE AllWhole(st)
<1>1. ASSUME NEW i \in 1 .. 4 PROVE WholeFrac(st[i])
  <2>1. IsFraction(st[i])
    BY DEF State
  <2>2. PICK c \in Nat : 1 = Den(st[i]) * c
    BY LcmOfIs DEF DividesAll, MultipleOf
  <2>3. PICK b \in Nat \ {0} : b = Den(st[i])
    BY <2>1, FractionParts
  <2>4. b = 1
    BY <2>2, <2>3
  <2> QED BY <2>1, <2>3, <2>4 DEF WholeFrac, IsWhole
<1> QED BY <1>1 DEF AllWhole

\* The largest denominator.
LEMMA LargestIs == ASSUME NEW a \in Nat, NEW b \in Nat, NEW c \in Nat, NEW d \in Nat PROVE Largest({a, b, c, d}) \in {a, b, c, d}
<1>1. \E m \in {a, b, c, d} : \A n \in {a, b, c, d} : n <= m
  OBVIOUS
<1> QED BY <1>1 DEF Largest

\* It is a number, and 1 when all four are whole.
LEMMA ResidueIs ==
    ASSUME NEW st
    PROVE  (State(st) => ResidueOf(st) \in Nat) /\ (AllWhole(st) => ResidueOf(st) = 1)
<1>1. PICK a, b, c, d : a = Den(st[1]) /\ b = Den(st[2]) /\ c = Den(st[3]) /\ d = Den(st[4])
  OBVIOUS
<1>2. {Den(st[i]) : i \in 1 .. 4} = {a, b, c, d}
  BY <1>1
<1>3. ASSUME a \in Nat, b \in Nat, c \in Nat, d \in Nat PROVE ResidueOf(st) \in {a, b, c, d}
  BY <1>2, <1>3, LargestIs DEF ResidueOf
<1>4. ASSUME State(st) PROVE ResidueOf(st) \in Nat
  <2>1. a \in Nat /\ b \in Nat /\ c \in Nat /\ d \in Nat
    BY <1>1, <1>4, FractionParts DEF State
  <2> QED BY <1>3, <2>1
<1>5. ASSUME AllWhole(st) PROVE ResidueOf(st) = 1
  <2>1. a = 1 /\ b = 1 /\ c = 1 /\ d = 1
    BY <1>1, <1>5 DEF AllWhole, WholeFrac, IsWhole
  <2> QED BY <1>3, <2>1
<1> QED BY <1>4, <1>5

\* The states along a road.
Moves == {GatherX, GatherC} \cup {Scale(k) : k \in {x \in Int \X (Nat \ {0}) : NonZero(x)}}
Passing(w, st, road, n) == w = [j \in 0 .. n |-> IF j = 0 THEN st ELSE ApplyMove(w[j - 1], road[j])]

\* They exist.
LEMMA PassingExists == ASSUME NEW st, NEW road, NEW n \in Nat PROVE \E w : Passing(w, st, road, n)
<1> DEFINE Bad == {k \in Nat : ~ \E w : Passing(w, st, road, k)}
<1>1. SUFFICES ASSUME Bad # {} PROVE FALSE
  OBVIOUS
<1>2. \E k \in Bad : \A l \in Bad : k <= l
  <2> HIDE DEF Bad
  <2>1. Bad \in SUBSET Nat
    BY DEF Bad
  <2> QED BY <1>1, <2>1, SmallestNat
<1>3. PICK k \in Bad : \A l \in Bad : k <= l
  BY <1>2
<1>4. CASE k = 0
  <2>1. PICK w : w = [j \in 0 .. 0 |-> st]
    OBVIOUS
  <2>2. w = [j \in 0 .. 0 |-> IF j = 0 THEN st ELSE ApplyMove(w[j - 1], road[j])]
    BY <2>1
  <2> QED BY <1>4, <2>2 DEF Passing
<1>5. CASE k # 0
  <2>1. k - 1 \in Nat /\ k - 1 \notin Bad
    BY <1>3, <1>5
  <2>2. PICK w : Passing(w, st, road, k - 1)
    BY <2>1
  <2>3. PICK u : u = [j \in 0 .. k |-> IF j < k THEN w[j] ELSE ApplyMove(w[k - 1], road[k])]
    OBVIOUS
  <2>4. \A j \in 0 .. k - 1 : w[j] = IF j = 0 THEN st ELSE ApplyMove(w[j - 1], road[j])
    BY <2>2 DEF Passing
  <2>5. ASSUME NEW j \in 0 .. k PROVE u[j] = IF j = 0 THEN st ELSE ApplyMove(u[j - 1], road[j])
    <3>1. CASE j = k
      <4>1. u[j] = ApplyMove(w[k - 1], road[k]) /\ u[k - 1] = w[k - 1]
        BY <3>1, <2>1, <2>3
      <4> QED BY <3>1, <1>5, <4>1
    <3>2. CASE j # k
      <4>1. j \in 0 .. k - 1 /\ u[j] = w[j] /\ (j # 0 => u[j - 1] = w[j - 1])
        BY <3>2, <2>3
      <4> QED BY <4>1, <2>4
    <3> QED BY <3>1, <3>2
  <2>6. Passing(u, st, road, k)
    BY <2>3, <2>5 DEF Passing
  <2> QED BY <2>6
<1> QED BY <1>4, <1>5

\* What StatesAlong is.
LEMMA StatesAlongIs ==
    ASSUME NEW st, NEW road \in Seq(Moves), NEW w, w = StatesAlong(st, road)
    PROVE  /\ Len(road) \in Nat /\ w[0] = st
           /\ \A j \in 1 .. Len(road) : w[j] = ApplyMove(w[j - 1], road[j])
<1>1. Len(road) \in Nat
  BY LenProperties
<1>2. PICK f : f = CHOOSE e : Passing(e, st, road, Len(road))
  OBVIOUS
<1>3. Passing(f, st, road, Len(road))
  BY <1>1, <1>2, PassingExists
<1>4. w = f
  BY <1>2, Zenon DEF StatesAlong, Passing
<1>5. \A j \in 0 .. Len(road) : w[j] = IF j = 0 THEN st ELSE ApplyMove(w[j - 1], road[j])
  BY <1>3, <1>4 DEF Passing
<1>6. 0 \in 0 .. Len(road) /\ \A j \in 1 .. Len(road) : j \in 0 .. Len(road) /\ j # 0
  BY <1>1
<1> QED BY <1>1, <1>5, <1>6

\* Where a road ends.
EndOf(st, road) == StatesAlong(st, road)[Len(road)]

\* A road without moves ends where it starts.
LEMMA NoMoves == ASSUME NEW st PROVE << >> \in Seq(Moves) /\ Len(<< >>) = 0 /\ EndOf(st, << >>) = st
<1>1. << >> \in Seq(Moves) /\ Len(<< >>) = 0
  OBVIOUS
<1> QED BY <1>1, StatesAlongIs DEF EndOf

\* A road of one move ends after it.
LEMMA OneMove ==
    ASSUME NEW st, NEW mv \in Moves
    PROVE  <<mv>> \in Seq(Moves) /\ Len(<<mv>>) = 1 /\ EndOf(st, <<mv>>) = ApplyMove(st, mv)
<1>1. <<mv>> \in Seq(Moves) /\ Len(<<mv>>) = 1 /\ <<mv>>[1] = mv
  OBVIOUS
<1>2. PICK road : road = <<mv>>
  OBVIOUS
<1>3. road \in Seq(Moves) /\ Len(road) = 1 /\ road[1] = mv
  BY <1>1, <1>2
<1>4. PICK w : w = StatesAlong(st, road)
  OBVIOUS
<1>5. w[0] = st /\ \A j \in 1 .. Len(road) : w[j] = ApplyMove(w[j - 1], road[j])
  BY ONLY <1>3, <1>4, StatesAlongIs
<1>6. w[1] = ApplyMove(w[1 - 1], mv)
  BY <1>3, <1>5
<1> QED BY <1>1, <1>2, <1>3, <1>4, <1>5, <1>6 DEF EndOf

\* One road after another.
LEMMA AlongBoth ==
    ASSUME NEW st, NEW a \in Seq(Moves), NEW b \in Seq(Moves)
    PROVE  /\ a \o b \in Seq(Moves) /\ Len(a) \in Nat /\ Len(b) \in Nat /\ Len(a \o b) = Len(a) + Len(b)
           /\ \A i \in 0 .. Len(a) : StatesAlong(st, a \o b)[i] = StatesAlong(st, a)[i]
           /\ \A j \in 0 .. Len(b) : StatesAlong(st, a \o b)[Len(a) + j] = StatesAlong(EndOf(st, a), b)[j]
<1>1. PICK road, m, n : road = a \o b /\ m = Len(a) /\ n = Len(b)
  OBVIOUS
<1>2. m \in Nat /\ n \in Nat
  BY <1>1, LenProperties
<1>3. road \in Seq(Moves) /\ Len(road) = m + n
  BY <1>1, ConcatProperties
<1>4. (\A i \in 1 .. m : road[i] = a[i]) /\ (\A j \in 1 .. n : road[m + j] = b[j])
  BY <1>1, <1>2, ConcatProperties
<1>5. PICK u, v, w : u = StatesAlong(st, road) /\ v = StatesAlong(st, a) /\ w = StatesAlong(EndOf(st, a), b)
  OBVIOUS
<1>6. u[0] = st /\ \A j \in 1 .. m + n : u[j] = ApplyMove(u[j - 1], road[j])
  BY <1>3, <1>5, StatesAlongIs
<1>7. v[0] = st /\ \A j \in 1 .. m : v[j] = ApplyMove(v[j - 1], a[j])
  <2>1. v[0] = st /\ \A j \in 1 .. Len(a) : v[j] = ApplyMove(v[j - 1], a[j])
    BY ONLY <1>5, StatesAlongIs
  <2> QED BY <1>1, <2>1
<1>8. w[0] = v[m] /\ \A j \in 1 .. n : w[j] = ApplyMove(w[j - 1], b[j])
  BY <1>1, <1>5, StatesAlongIs DEF EndOf
<1> DEFINE Bad == {i \in 0 .. m : u[i] # v[i]}
<1>9. ASSUME Bad # {} PROVE FALSE
  <2>2. \E k \in Bad : \A l \in Bad : k <= l
    <3> HIDE DEF Bad
    <3>1. Bad \in SUBSET Nat
      BY <1>2 DEF Bad
    <3> QED BY <1>9, <3>1, SmallestNat
  <2>3. PICK k \in Bad : \A l \in Bad : k <= l
    BY <2>2
  <2>4. CASE k = 0
    BY <1>6, <1>7, <2>3, <2>4
  <2>5. CASE k # 0
    <3>1. k - 1 \in 0 .. m /\ k - 1 \notin Bad /\ k \in 1 .. m /\ k \in 1 .. m + n
      BY <1>2, <2>3, <2>5
    <3>2. u[k - 1] = v[k - 1]
      BY <3>1
    <3> QED BY <1>4, <1>6, <1>7, <2>3, <3>1, <3>2
  <2> QED BY <2>4, <2>5
<1> DEFINE Worse == {j \in 0 .. n : u[m + j] # w[j]}
<1>10. ASSUME Worse # {} PROVE FALSE
  <2>2. \E k \in Worse : \A l \in Worse : k <= l
    <3> HIDE DEF Worse
    <3>1. Worse \in SUBSET Nat
      BY <1>2 DEF Worse
    <3> QED BY <1>10, <3>1, SmallestNat
  <2>3. PICK k \in Worse : \A l \in Worse : k <= l
    BY <2>2
  <2>4. CASE k = 0
    <3>1. m \in 0 .. m /\ m + 0 = m
      BY <1>2
    <3> QED BY <1>8, <1>9, <2>3, <2>4, <3>1
  <2>5. CASE k # 0
    <3>1. k - 1 \in 0 .. n /\ k - 1 \notin Worse /\ k \in 1 .. n /\ m + k \in 1 .. m + n /\ m + k - 1 = m + (k - 1)
      BY <1>2, <2>3, <2>5
    <3>2. u[m + (k - 1)] = w[k - 1]
      BY <3>1
    <3>3. u[m + k] = ApplyMove(u[m + (k - 1)], road[m + k])
      <4>1. PICK h : h = m + k /\ h \in 1 .. m + n /\ h - 1 = m + (k - 1)
        BY <1>2, <3>1
      <4>2. u[h] = ApplyMove(u[h - 1], road[h])
        BY ONLY <1>6, <4>1
      <4> QED BY <4>1, <4>2
    <3> QED BY <1>4, <1>8, <2>3, <3>1, <3>2, <3>3
  <2> QED BY <2>4, <2>5
<1>11. \A i \in 0 .. m : u[i] = v[i]
  BY <1>9
<1>12. \A j \in 0 .. n : u[m + j] = w[j]
  BY <1>10
<1> HIDE DEF Bad, Worse
<1> QED BY <1>1, <1>2, <1>3, <1>5, <1>11, <1>12

\* The end of two roads is the end of the second from the end of the first.
LEMMA EndsBoth ==
    ASSUME NEW st, NEW a \in Seq(Moves), NEW b \in Seq(Moves)
    PROVE  a \o b \in Seq(Moves) /\ EndOf(st, a \o b) = EndOf(EndOf(st, a), b)
<1>1. Len(b) \in 0 .. Len(b)
  BY LenProperties
<1>2. StatesAlong(st, a \o b)[Len(a) + Len(b)] = StatesAlong(EndOf(st, a), b)[Len(b)]
  BY <1>1, AlongBoth
<1>3. a \o b \in Seq(Moves) /\ Len(a \o b) = Len(a) + Len(b)
  BY AlongBoth
<1> QED BY <1>2, <1>3 DEF EndOf

\* No denominators on the way: to the end, and but for the end.
WholeAll(st, road) == \A i \in 1 .. Len(road) : AllWhole(StatesAlong(st, road)[i])
WholeBut(st, road) == \A i \in 1 .. Len(road) - 1 : AllWhole(StatesAlong(st, road)[i])

\* Two roads without denominators on the way.
LEMMA WholeBoth ==
    ASSUME NEW st, NEW a \in Seq(Moves), NEW b \in Seq(Moves), WholeAll(st, a)
    PROVE  /\ WholeAll(EndOf(st, a), b) => WholeAll(st, a \o b)
           /\ WholeBut(EndOf(st, a), b) => WholeBut(st, a \o b)
<1>1. PICK m, n, road : m = Len(a) /\ n = Len(b) /\ road = a \o b
  OBVIOUS
<1>2. /\ m \in Nat /\ n \in Nat /\ Len(road) = m + n
      /\ \A i \in 0 .. m : StatesAlong(st, road)[i] = StatesAlong(st, a)[i]
      /\ \A j \in 0 .. n : StatesAlong(st, road)[m + j] = StatesAlong(EndOf(st, a), b)[j]
  BY <1>1, AlongBoth
<1>3. \A i \in 1 .. m : AllWhole(StatesAlong(st, road)[i])
  BY <1>1, <1>2 DEF WholeAll
<1>4. ASSUME NEW l \in {n, n - 1}, \A j \in 1 .. l : AllWhole(StatesAlong(EndOf(st, a), b)[j]), NEW i \in 1 .. m + l
      PROVE  AllWhole(StatesAlong(st, road)[i])
  <2>1. CASE i <= m
    <3>1. i \in 1 .. m
      BY <1>2, <1>4, <2>1
    <3> QED BY <1>3, <3>1
  <2>2. CASE i > m
    <3>1. PICK j \in 1 .. l : i = m + j /\ j \in 0 .. n
      <4>1. i - m \in 1 .. l /\ i = m + (i - m) /\ i - m \in 0 .. n
        BY <1>2, <1>4, <2>2
      <4> QED BY <4>1
    <3> QED BY <1>2, <1>4, <3>1
  <2>3. i \in Int
    BY <1>2, <1>4
  <2> QED BY <1>2, <2>1, <2>2, <2>3
<1>5. WholeAll(EndOf(st, a), b) => WholeAll(st, road)
  BY <1>1, <1>2, <1>4 DEF WholeAll
<1>6. m + (n - 1) = (m + n) - 1
  BY <1>2
<1>7. WholeBut(EndOf(st, a), b) => WholeBut(st, road)
  BY <1>1, <1>2, <1>4, <1>6 DEF WholeBut
<1> QED BY <1>1, <1>5, <1>7

\* The moves a road is made of.
LEMMA MovesAre ==
    GatherX \in Moves /\ GatherC \in Moves /\ \A k : NonZero(k) => Scale(k) \in Moves
<1>1. ASSUME NEW k, NonZero(k) PROVE k \in Int \X (Nat \ {0})
  BY <1>1 DEF NonZero, IsFraction
<1> QED BY <1>1 DEF Moves

\* A road of one move or none.
LEMMA ShortRoads ==
    ASSUME NEW st
    PROVE  /\ WholeAll(st, << >>) /\ WholeBut(st, << >>)
           /\ \A mv \in Moves : WholeBut(st, <<mv>>) /\ (AllWhole(ApplyMove(st, mv)) => WholeAll(st, <<mv>>))
<1>1. WholeAll(st, << >>) /\ WholeBut(st, << >>)
  BY NoMoves DEF WholeAll, WholeBut
<1>2. ASSUME NEW mv \in Moves PROVE WholeBut(st, <<mv>>) /\ (AllWhole(ApplyMove(st, mv)) => WholeAll(st, <<mv>>))
  <2>1. PICK road : road = <<mv>> /\ Len(road) = 1
    BY OneMove
  <2>2. StatesAlong(st, road)[1] = ApplyMove(st, mv)
    BY <2>1, OneMove DEF EndOf
  <2> QED BY <2>1, <2>2 DEF WholeAll, WholeBut
<1> QED BY <1>1, <1>2

\* The parts of the common finish.
XPart(st) == IF st[3] # Zero THEN <<GatherX>> ELSE << >>
CPart(st) == IF st[2] # Zero THEN <<GatherC>> ELSE << >>

\* What a part of a road leads to.
Leads(st, road, t) == road \in Seq(Moves) /\ EndOf(st, road) = t

\* Gathering x leaves none on the right, and no denominators where there were none.
LEMMA XPartIs ==
    ASSUME NEW st, State(st)
    PROVE  \E t : /\ Leads(st, XPart(st), t) /\ Equivalent(st, t) /\ t[3] = Zero /\ t[2] = st[2]
                  /\ AllWhole(st) => AllWhole(t) /\ WholeAll(st, XPart(st))
<1>1. CASE st[3] = Zero
  <2>1. XPart(st) = << >>
    BY <1>1 DEF XPart
  <2>2. Leads(st, XPart(st), st)
    BY <2>1, NoMoves DEF Leads
  <2> QED BY <1>1, <2>1, <2>2, EquivalentIs, ShortRoads
<1>2. CASE st[3] # Zero
  <2>1. PICK t : t = ApplyMove(st, GatherX)
    OBVIOUS
  <2>2. t = <<Minus(st[1], st[3]), st[2], Zero, st[4]>> /\ Equivalent(st, t)
    BY <2>1, GatherXIs
  <2>3. XPart(st) = <<GatherX>> /\ Leads(st, XPart(st), t)
    BY <1>2, <2>1, MovesAre, OneMove DEF XPart, Leads
  <2>4. ASSUME AllWhole(st) PROVE AllWhole(t)
    <3>1. WholeFrac(st[1]) /\ WholeFrac(st[2]) /\ WholeFrac(st[3]) /\ WholeFrac(st[4])
      BY <2>4 DEF AllWhole
    <3>2. WholeFrac(Minus(st[1], st[3]))
      BY <3>1, WholeDifference
    <3>3. WholeFrac(t[1]) /\ WholeFrac(t[2]) /\ WholeFrac(t[3]) /\ WholeFrac(t[4])
      BY <2>2, <3>1, <3>2, WholeZero
    <3> QED BY <3>3 DEF AllWhole
  <2>5. AllWhole(t) => WholeAll(st, XPart(st))
    BY <2>1, <2>3, MovesAre, ShortRoads
  <2> QED BY <2>2, <2>3, <2>4, <2>5
<1> QED BY <1>1, <1>2

\* Gathering the constants leaves all gathered.
LEMMA CPartIs ==
    ASSUME NEW st, State(st), st[3] = Zero
    PROVE  \E t : /\ Leads(st, CPart(st), t) /\ Equivalent(st, t) /\ Gathered(t)
                  /\ AllWhole(st) => AllWhole(t) /\ WholeAll(st, CPart(st))
<1>1. CASE st[2] = Zero
  <2>1. CPart(st) = << >>
    BY <1>1 DEF CPart
  <2>2. Leads(st, CPart(st), st) /\ Gathered(st)
    BY <1>1, <2>1, NoMoves DEF Leads, Gathered
  <2> QED BY <1>1, <2>1, <2>2, EquivalentIs, ShortRoads
<1>2. CASE st[2] # Zero
  <2>1. PICK t : t = ApplyMove(st, GatherC)
    OBVIOUS
  <2>2. t = <<st[1], Zero, st[3], Minus(st[4], st[2])>> /\ Equivalent(st, t)
    BY <2>1, GatherCIs
  <2>3. CPart(st) = <<GatherC>> /\ Leads(st, CPart(st), t)
    BY <1>2, <2>1, MovesAre, OneMove DEF CPart, Leads
  <2>4. ASSUME AllWhole(st) PROVE AllWhole(t)
    <3>1. WholeFrac(st[1]) /\ WholeFrac(st[2]) /\ WholeFrac(st[3]) /\ WholeFrac(st[4])
      BY <2>4 DEF AllWhole
    <3>2. WholeFrac(Minus(st[4], st[2]))
      BY <3>1, WholeDifference
    <3>3. WholeFrac(t[1]) /\ WholeFrac(t[2]) /\ WholeFrac(t[3]) /\ WholeFrac(t[4])
      BY <2>2, <3>1, <3>2, WholeZero
    <3> QED BY <3>3 DEF AllWhole
  <2>5. AllWhole(t) => WholeAll(st, CPart(st))
    BY <2>1, <2>3, MovesAre, ShortRoads
  <2>6. Gathered(t)
    BY <2>2 DEF Gathered, Equivalent
  <2> QED BY <2>2, <2>3, <2>4, <2>5, <2>6
<1> QED BY <1>1, <1>2

\* Normalising ends at the goal.
LEMMA NormaliseIs ==
    ASSUME NEW st, Gathered(st)
    PROVE  Leads(st, Normalise(st), Goal(st)) /\ WholeBut(st, Normalise(st))
<1>1. NonZero(st[1]) /\ NonZero(Inv(st[1]))
  BY DividedIs, InverseIs
<1>2. CASE st[1] = One
  <2>1. Normalise(st) = << >>
    BY <1>2 DEF Normalise
  <2> QED BY <1>2, <2>1, NoMoves, DividedIs, ShortRoads DEF Leads
<1>3. CASE st[1] # One
  <2>1. Normalise(st) = <<Scale(Inv(st[1]))>>
    BY <1>1, <1>3 DEF Normalise, NonZero, Scale
  <2> QED BY <1>1, <2>1, MovesAre, OneMove, DividedIs, ShortRoads DEF Leads
<1> QED BY <1>2, <1>3

\* So the three together end there.
LEMMA CommonFinishIs ==
    ASSUME NEW st, State(st)
    PROVE  /\ Leads(st, CommonFinish(st), Goal(st))
           /\ AllWhole(st) => WholeBut(st, CommonFinish(st))
<1>1. PICK x, c : x = XPart(st) /\ c = CPart(st)
  OBVIOUS
<1>2. PICK t : /\ Leads(st, x, t) /\ Equivalent(st, t) /\ t[3] = Zero /\ t[2] = st[2]
               /\ AllWhole(st) => AllWhole(t) /\ WholeAll(st, x)
  BY <1>1, XPartIs
<1>3. c = CPart(t) /\ State(t)
  BY <1>1, <1>2 DEF CPart, Equivalent
<1>4. PICK g : /\ Leads(t, c, g) /\ Equivalent(t, g) /\ Gathered(g)
               /\ AllWhole(t) => AllWhole(g) /\ WholeAll(t, c)
  BY <1>2, <1>3, CPartIs
<1>5. PICK n : n = Normalise(g)
  OBVIOUS
<1>6. Leads(g, n, Goal(g)) /\ WholeBut(g, n)
  BY <1>4, <1>5, NormaliseIs
<1>7. x \in Seq(Moves) /\ c \in Seq(Moves) /\ n \in Seq(Moves) /\ EndOf(st, x) = t /\ EndOf(t, c) = g /\ EndOf(g, n) = Goal(g)
  BY <1>2, <1>4, <1>6 DEF Leads
<1>8. x \o c \in Seq(Moves) /\ EndOf(st, x \o c) = g
  BY <1>7, EndsBoth
<1>9. (x \o c) \o n \in Seq(Moves) /\ EndOf(st, (x \o c) \o n) = Goal(g)
  <2>1. PICK b : b = x \o c /\ b \in Seq(Moves) /\ EndOf(st, b) = g
    BY <1>8
  <2>2. b \o n \in Seq(Moves) /\ EndOf(st, b \o n) = EndOf(EndOf(st, b), n)
    <3>1. b \in Seq(Moves) /\ n \in Seq(Moves)
      BY <1>7, <2>1
    <3> QED BY ONLY <3>1, EndsBoth
  <2> QED BY <1>7, <2>1, <2>2
<1>10. CommonFinish(st) = (x \o c) \o n
  <2>1. x = (IF st[3] # Zero THEN <<<<"movex", NoParameter>>>> ELSE << >>) /\ c = (IF st[2] # Zero THEN <<<<"movec", NoParameter>>>> ELSE << >>)
    BY <1>1 DEF XPart, CPart, GatherX, GatherC
  <2>2. g = StatesAlong(st, x \o c)[Len(x \o c)]
    BY <1>8 DEF EndOf
  <2> QED BY <1>5, <2>1, <2>2, Zenon DEF CommonFinish
<1>11. Goal(g) = Goal(st)
  BY <1>2, <1>4, EquivalentGoal
<1>12. ASSUME AllWhole(st) PROVE WholeBut(st, (x \o c) \o n)
  <2>1. WholeAll(st, x \o c)
    BY <1>2, <1>4, <1>7, <1>12, WholeBoth
  <2> QED BY <1>6, <1>7, <1>8, <2>1, WholeBoth
<1> QED BY <1>9, <1>10, <1>11, <1>12 DEF Leads

\* The first step keeps the solution, and clears the denominators where it is for that.
LEMMA FirstStepIs ==
    ASSUME NEW st, State(st), NEW order \in Orders
    PROVE  \E t : /\ Leads(st, FirstStep(st, order), t) /\ Equivalent(st, t)
                  /\ order = "clear_first" => AllWhole(t) /\ WholeAll(st, FirstStep(st, order))
<1>1. Leads(st, << >>, st) /\ Equivalent(st, st) /\ WholeAll(st, << >>)
  BY NoMoves, EquivalentIs, ShortRoads DEF Leads
<1>2. ASSUME NEW k, NonZero(k) PROVE Leads(st, <<Scale(k)>>, ApplyMove(st, Scale(k))) /\ Equivalent(st, ApplyMove(st, Scale(k)))
  BY <1>2, MovesAre, OneMove, ScaleIs DEF Leads
<1>3. CASE order = "plain"
  BY <1>1, <1>3 DEF FirstStep
<1>4. CASE order = "divide_early"
  <2>1. FirstStep(st, order) = Normalise(st)
    BY <1>4 DEF FirstStep
  <2>2. CASE st[1] \in {Zero, One}
    BY <1>1, <1>4, <2>1, <2>2 DEF Normalise
  <2>3. CASE st[1] \notin {Zero, One}
    <3>1. NonZero(Inv(st[1]))
      BY <2>3, InverseIs DEF NonZero, State
    <3>2. Normalise(st) = <<Scale(Inv(st[1]))>>
      BY <2>3 DEF Normalise, Scale
    <3> QED BY <1>2, <1>4, <2>1, <3>1, <3>2
  <2> QED BY <2>2, <2>3
<1>5. CASE order = "clear_first"
  <2>1. PICK l : l = LcmOf(st) /\ l \in Nat \ {0} /\ DividesAll(l, st)
    BY LcmOfIs
  <2>2. FirstStep(st, order) = IF l = 1 THEN << >> ELSE <<Scale(Int2F(l))>>
    BY <1>5, <2>1 DEF FirstStep, Scale
  <2>3. CASE l = 1
    <3>1. AllWhole(st)
      BY <2>1, <2>3, LcmOne
    <3> QED BY <1>1, <2>2, <2>3, <3>1
  <2>4. CASE l # 1
    <3>1. NonZero(Int2F(l))
      BY <2>1, WholeIs
    <3>2. PICK t : t = ApplyMove(st, Scale(Int2F(l)))
      OBVIOUS
    <3>3. t = <<Times(st[1], Int2F(l)), Times(st[2], Int2F(l)), Times(st[3], Int2F(l)), Times(st[4], Int2F(l))>>
      BY <3>1, <3>2, ScaleIs
    <3>4. ASSUME NEW i \in 1 .. 4 PROVE WholeFrac(Times(st[i], Int2F(l)))
      <4>1. IsFraction(st[i])
        BY DEF State
      <4>2. PICK c \in Nat : l = Den(st[i]) * c
        BY <2>1 DEF DividesAll, MultipleOf
      <4> QED BY <2>1, <4>1, <4>2, ClearedIs
    <3>5. AllWhole(t)
      BY <3>3, <3>4 DEF AllWhole
    <3>6. WholeAll(st, <<Scale(Int2F(l))>>)
      BY <3>1, <3>2, <3>5, MovesAre, ShortRoads
    <3> QED BY <1>2, <2>2, <2>4, <3>1, <3>2, <3>5, <3>6
  <2> QED BY <2>3, <2>4
<1> QED BY <1>3, <1>4, <1>5 DEF Orders

\* Every order of the steps ends solved, and the one that clears the denominators first has none before.
LEMMA StrategyRoadIs ==
    ASSUME NEW st, State(st), NEW order \in Orders
    PROVE  /\ EndOf(st, StrategyRoad(st, order)) = Goal(st)
           /\ order = "clear_first" => WholeBut(st, StrategyRoad(st, order))
<1>1. PICK f : f = FirstStep(st, order)
  OBVIOUS
<1>2. PICK t : /\ Leads(st, f, t) /\ Equivalent(st, t)
               /\ order = "clear_first" => AllWhole(t) /\ WholeAll(st, f)
  BY <1>1, FirstStepIs
<1>3. State(t) /\ Goal(t) = Goal(st)
  BY <1>2, EquivalentGoal DEF Equivalent
<1>4. PICK r : r = CommonFinish(t) /\ Leads(t, r, Goal(t)) /\ (AllWhole(t) => WholeBut(t, r))
  BY <1>3, CommonFinishIs
<1>5. f \in Seq(Moves) /\ r \in Seq(Moves) /\ EndOf(st, f) = t /\ EndOf(t, r) = Goal(st)
  BY <1>2, <1>3, <1>4 DEF Leads
<1>6. StrategyRoad(st, order) = f \o r
  BY <1>1, <1>4, <1>5, Zenon DEF StrategyRoad, EndOf
<1>7. EndOf(st, f \o r) = Goal(st)
  BY <1>5, EndsBoth
<1>8. order = "clear_first" => WholeBut(st, f \o r)
  BY <1>2, <1>4, <1>5, WholeBoth
<1> QED BY <1>6, <1>7, <1>8

\* RoadsLand, of an answer given to an equation.
LEMMA RoadsLandAt == ASSUME lastAnswer # << >> => lastAnswer.st \in Equations PROVE RoadsLand
<1>1. SUFFICES ASSUME lastAnswer # << >>, NEW order \in Orders
               PROVE  LET road == StrategyRoad(lastAnswer.st, order)
                          here == StatesAlong(lastAnswer.st, road)
                      IN  /\ here[Len(road)] = Goal(lastAnswer.st)
                          /\ order = "clear_first" => \A i \in 1 .. Len(road) - 1 : ResidueOf(here[i]) = 1
  BY DEF RoadsLand
<1>2. PICK st, road : st = lastAnswer.st /\ road = StrategyRoad(st, order) /\ State(st)
  BY <1>1, EquationIs
<1>3. StatesAlong(st, road)[Len(road)] = Goal(st)
  BY <1>2, StrategyRoadIs DEF EndOf
<1>4. order = "clear_first" => \A i \in 1 .. Len(road) - 1 : AllWhole(StatesAlong(st, road)[i])
  BY <1>2, StrategyRoadIs DEF WholeBut
<1> QED BY <1>2, <1>3, <1>4, ResidueIs

\* What a walk has come to after each op.
WalkTo(w, st, road, n) ==
    w = [i \in 0 .. n |-> IF i = 0 THEN [st |-> st, price |-> 0] ELSE Move(w[i - 1], OpMove(road[i], w[i - 1].st))]

\* It has a value.
LEMMA WalkingExists == ASSUME NEW st, NEW road, NEW n \in Nat PROVE \E w : WalkTo(w, st, road, n)
<1> DEFINE Bad == {k \in Nat : ~ \E w : WalkTo(w, st, road, k)}
<1>0. PICK v : v = [st |-> st, price |-> 0]
  OBVIOUS
<1>1. SUFFICES ASSUME Bad # {} PROVE FALSE
  OBVIOUS
<1>2. \E k \in Bad : \A l \in Bad : k <= l
  <2> HIDE DEF Bad
  <2>1. Bad \in SUBSET Nat
    BY DEF Bad
  <2> QED BY <1>1, <2>1, SmallestNat
<1>3. PICK k \in Bad : \A l \in Bad : k <= l
  BY <1>2
<1>4. CASE k = 0
  <2>1. PICK w : w = [j \in 0 .. 0 |-> v]
    OBVIOUS
  <2>2. w = [i \in 0 .. 0 |-> IF i = 0 THEN v ELSE Move(w[i - 1], OpMove(road[i], w[i - 1].st))]
    BY <2>1
  <2> QED BY <1>0, <1>4, <2>2 DEF WalkTo
<1>5. CASE k # 0
  <2>1. k - 1 \in Nat /\ k - 1 \notin Bad
    BY <1>3, <1>5
  <2>2. PICK w : WalkTo(w, st, road, k - 1)
    BY <2>1
  <2>3. PICK u : u = [j \in 0 .. k |-> IF j < k THEN w[j] ELSE Move(w[k - 1], OpMove(road[k], w[k - 1].st))]
    OBVIOUS
  <2>4. \A j \in 0 .. k - 1 : w[j] = IF j = 0 THEN v ELSE Move(w[j - 1], OpMove(road[j], w[j - 1].st))
    BY <1>0, <2>2 DEF WalkTo
  <2>5. ASSUME NEW j \in 0 .. k PROVE u[j] = IF j = 0 THEN v ELSE Move(u[j - 1], OpMove(road[j], u[j - 1].st))
    <3>1. CASE j = k
      <4>1. u[j] = Move(w[k - 1], OpMove(road[k], w[k - 1].st)) /\ u[k - 1] = w[k - 1]
        BY <3>1, <2>1, <2>3
      <4> QED BY <3>1, <1>5, <4>1
    <3>2. CASE j # k
      <4>1. j \in 0 .. k - 1 /\ u[j] = w[j] /\ (j # 0 => u[j - 1] = w[j - 1])
        BY <3>2, <2>3
      <4> QED BY <4>1, <2>4
    <3> QED BY <3>1, <3>2
  <2>6. WalkTo(u, st, road, k)
    BY <1>0, <2>3, <2>5 DEF WalkTo
  <2> QED BY <2>6
<1> QED BY <1>4, <1>5

\* What WalkRoad is.
LEMMA WalkIs ==
    ASSUME NEW st, NEW road \in Seq(MacroOps)
    PROVE  \E w : /\ WalkRoad(st, road) = w[Len(road)] /\ w[0].st = st /\ w[0].price = 0 /\ Len(road) \in Nat
                  /\ \A i \in 1 .. Len(road) : w[i] = Move(w[i - 1], OpMove(road[i], w[i - 1].st)) /\ road[i] \in MacroOps
<1>1. Len(road) \in Nat
  BY LenProperties
<1>2. PICK f : f = CHOOSE e : WalkTo(e, st, road, Len(road))
  OBVIOUS
<1>3. WalkTo(f, st, road, Len(road))
  BY <1>1, <1>2, WalkingExists
<1>4. WalkRoad(st, road) = f[Len(road)]
  BY <1>2, Zenon DEF WalkRoad, WalkTo
<1>5. PICK v : v = [st |-> st, price |-> 0]
  OBVIOUS
<1>6. \A i \in 0 .. Len(road) : f[i] = IF i = 0 THEN v ELSE Move(f[i - 1], OpMove(road[i], f[i - 1].st))
  BY <1>3, <1>5 DEF WalkTo
<1>7. 0 \in 0 .. Len(road) /\ \A i \in 1 .. Len(road) : i \in 0 .. Len(road) /\ i # 0
  BY <1>1
<1>8. \A i \in 1 .. Len(road) : road[i] \in MacroOps
  BY ElementOfSeq
<1>9. f[0].st = st /\ f[0].price = 0
  <2>1. v.st = st /\ v.price = 0
    BY <1>5
  <2> QED BY <1>6, <1>7, <2>1
<1>10. \A i \in 1 .. Len(road) : f[i] = Move(f[i - 1], OpMove(road[i], f[i - 1].st)) /\ road[i] \in MacroOps
  BY <1>6, <1>7, <1>8
<1> QED BY <1>1, <1>4, <1>9, <1>10

\* An op that applies is a move that leaves the solution as it is.
OpState(op, st) == IF OpMove(op, st) = NoMove THEN st ELSE ApplyMove(st, OpMove(op, st))

\* What the ops leave.
LEMMA OpIs ==
    ASSUME NEW op \in MacroOps, NEW st, State(st)
    PROVE  /\ Equivalent(st, OpState(op, st))
           /\ op = "MOVEX" => OpState(op, st)[3] = Zero
           /\ op = "MOVEC" => OpState(op, st)[2] = Zero /\ OpState(op, st)[3] = st[3]
           /\ op = "DIV" /\ Gathered(st) => OpState(op, st) = Goal(st)
<1>1. GatherX # NoMove /\ GatherC # NoMove /\ \A k : Scale(k) # NoMove
  BY DEF GatherX, GatherC, Scale, NoMove
<1>2. Equivalent(st, st)
  BY EquivalentIs
<1>3. CASE op = "MOVEX"
  <2>1. OpMove(op, st) = IF st[3] # Zero THEN GatherX ELSE NoMove
    BY <1>3 DEF OpMove, GatherX
  <2>2. PICK t : t = ApplyMove(st, GatherX) /\ t[3] = Zero /\ Equivalent(st, t)
    BY GatherXIs
  <2> QED BY <1>1, <1>2, <1>3, <2>1, <2>2 DEF OpState
<1>4. CASE op = "MOVEC"
  <2>1. OpMove(op, st) = IF st[2] # Zero THEN GatherC ELSE NoMove
    BY <1>4 DEF OpMove, GatherC
  <2>2. PICK t : t = ApplyMove(st, GatherC) /\ t[2] = Zero /\ t[3] = st[3] /\ Equivalent(st, t)
    BY GatherCIs
  <2> QED BY <1>1, <1>2, <1>4, <2>1, <2>2 DEF OpState
<1>5. CASE op = "CLEAR"
  <2>1. PICK l : l = LcmOf(st) /\ l \in Nat \ {0}
    BY LcmOfIs
  <2>2. OpMove(op, st) = IF l > 1 THEN Scale(Int2F(l)) ELSE NoMove
    BY <1>5, <2>1 DEF OpMove, Scale
  <2>3. NonZero(Int2F(l))
    BY <2>1, WholeIs
  <2>4. PICK t : t = ApplyMove(st, Scale(Int2F(l))) /\ Equivalent(st, t)
    BY <2>3, ScaleIs
  <2> QED BY <1>1, <1>2, <1>5, <2>2, <2>4 DEF OpState
<1>6. CASE op = "DIV"
  <2>1. OpMove(op, st) = IF st[1] \in {Zero, One} THEN NoMove ELSE Scale(Inv(st[1]))
    BY <1>6 DEF OpMove, Scale
  <2>2. ASSUME st[1] \notin {Zero, One} PROVE Equivalent(st, ApplyMove(st, Scale(Inv(st[1]))))
    <3>1. NonZero(Inv(st[1]))
      BY <2>2, InverseIs DEF NonZero, State
    <3> QED BY <3>1, ScaleIs
  <2>3. Gathered(st) => st[1] # Zero /\ (st[1] = One => st = Goal(st)) /\ ApplyMove(st, Scale(Inv(st[1]))) = Goal(st)
    BY DividedIs DEF NonZero
  <2> QED BY <1>1, <1>2, <1>6, <2>1, <2>2, <2>3 DEF OpState
<1> QED BY <1>3, <1>4, <1>5, <1>6 DEF MacroOps

\* One step of a walk.
LEMMA MoveIs ==
    ASSUME NEW op \in MacroOps, NEW cur, State(cur.st), cur.price \in Nat,
           NEW next, next = Move(cur, OpMove(op, cur.st))
    PROVE  next.st = OpState(op, cur.st) /\ next.price \in Nat
<1>1. CASE OpMove(op, cur.st) = NoMove
  BY <1>1 DEF Move, OpState
<1>2. CASE OpMove(op, cur.st) # NoMove
  <2>1. PICK t : t = ApplyMove(cur.st, OpMove(op, cur.st)) /\ t = OpState(op, cur.st)
    BY <1>2 DEF OpState
  <2>2. next = [st |-> t, price |-> cur.price + ResidueOf(t)]
    BY <1>2, <2>1 DEF Move, AfterMove
  <2>3. State(t)
    BY <2>1, OpIs DEF Equivalent
  <2>4. ResidueOf(t) \in Nat
    BY <2>3, ResidueIs
  <2> QED BY <2>1, <2>2, <2>4
<1> QED BY <1>1, <1>2

\* A price is a number.
LEMMA PriceTyped ==
    ASSUME NEW st, State(st), NEW road \in Seq(MacroOps)
    PROVE  WalkRoad(st, road).price \in Nat
<1>1. PICK w : /\ WalkRoad(st, road) = w[Len(road)] /\ w[0].st = st /\ w[0].price = 0 /\ Len(road) \in Nat
               /\ \A i \in 1 .. Len(road) : w[i] = Move(w[i - 1], OpMove(road[i], w[i - 1].st)) /\ road[i] \in MacroOps
  BY WalkIs
<1> DEFINE Bad == {i \in 0 .. Len(road) : ~(State(w[i].st) /\ w[i].price \in Nat)}
<1>2. ASSUME Bad # {} PROVE FALSE
  <2>2. \E k \in Bad : \A l \in Bad : k <= l
    <3> HIDE DEF Bad
    <3>1. Bad \in SUBSET Nat
      BY <1>1 DEF Bad
    <3> QED BY <1>2, <3>1, SmallestNat
  <2>3. PICK k \in Bad : \A l \in Bad : k <= l
    BY <2>2
  <2>4. CASE k = 0
    BY <1>1, <2>3, <2>4
  <2>5. CASE k # 0
    <3>1. k - 1 \in 0 .. Len(road) /\ k - 1 \notin Bad /\ k \in 1 .. Len(road)
      BY <1>1, <2>3, <2>5
    <3>2. PICK cur, op : cur = w[k - 1] /\ op = road[k] /\ op \in MacroOps /\ State(cur.st) /\ cur.price \in Nat
                         /\ w[k] = Move(cur, OpMove(op, cur.st))
      BY <1>1, <3>1
    <3>3. w[k].st = OpState(op, cur.st) /\ w[k].price \in Nat
      BY <3>2, MoveIs
    <3>4. State(w[k].st)
      BY <3>2, <3>3, OpIs DEF Equivalent
    <3> QED BY <2>3, <3>3, <3>4
  <2> QED BY <2>4, <2>5
<1>3. Len(road) \in 0 .. Len(road)
  BY <1>1
<1> QED BY <1>1, <1>2, <1>3

\* The road that always lands.
SureRoad == <<"MOVEX", "MOVEC", "DIV">>

\* It does: x gathered, then the constants, then divided.
LEMMA SureRoadLands == ASSUME NEW st, State(st) PROVE WalkRoad(st, SureRoad).st = Goal(st)
<1>1. PICK road : road = SureRoad
  OBVIOUS
<1>2. road \in Seq(MacroOps) /\ Len(road) = 3 /\ road[1] = "MOVEX" /\ road[2] = "MOVEC" /\ road[3] = "DIV"
  <2>1. "MOVEX" \in MacroOps /\ "MOVEC" \in MacroOps /\ "DIV" \in MacroOps
    BY DEF MacroOps
  <2>2. PICK a \in MacroOps, b \in MacroOps, c \in MacroOps : a = "MOVEX" /\ b = "MOVEC" /\ c = "DIV"
    BY ONLY <2>1
  <2>3. road = <<a, b, c>>
    BY <1>1, <2>2 DEF SureRoad
  <2>4. <<a, b, c>> \in Seq(MacroOps) /\ Len(<<a, b, c>>) = 3 /\ <<a, b, c>>[1] = a /\ <<a, b, c>>[2] = b /\ <<a, b, c>>[3] = c
    OBVIOUS
  <2> QED BY ONLY <2>2, <2>3, <2>4
<1>3. PICK w : /\ WalkRoad(st, road) = w[Len(road)] /\ w[0].st = st /\ w[0].price = 0 /\ Len(road) \in Nat
               /\ \A i \in 1 .. Len(road) : w[i] = Move(w[i - 1], OpMove(road[i], w[i - 1].st)) /\ road[i] \in MacroOps
  <2>1. road \in Seq(MacroOps)
    BY <1>2
  <2> QED BY ONLY <2>1, WalkIs
<1>4. \A i \in 1 .. 3 : w[i] = Move(w[i - 1], OpMove(road[i], w[i - 1].st)) /\ road[i] \in MacroOps
  BY <1>2, <1>3
<1>5. /\ w[1] = Move(w[0], OpMove("MOVEX", w[0].st)) /\ w[2] = Move(w[1], OpMove("MOVEC", w[1].st))
      /\ w[3] = Move(w[2], OpMove("DIV", w[2].st))
      /\ "MOVEX" \in MacroOps /\ "MOVEC" \in MacroOps /\ "DIV" \in MacroOps
  <2>1. 1 - 1 = 0 /\ 2 - 1 = 1 /\ 3 - 1 = 2
    OBVIOUS
  <2> QED BY <1>2, <1>4, <2>1 DEF MacroOps
<1>6. w[1].st = OpState("MOVEX", st) /\ w[1].price \in Nat
  BY <1>3, <1>5, MoveIs
<1>7. Equivalent(st, w[1].st) /\ w[1].st[3] = Zero
  BY <1>5, <1>6, OpIs
<1>8. w[2].st = OpState("MOVEC", w[1].st) /\ w[2].price \in Nat
  BY <1>5, <1>6, <1>7, MoveIs DEF Equivalent
<1>9. Equivalent(w[1].st, w[2].st) /\ w[2].st[2] = Zero /\ w[2].st[3] = Zero
  BY <1>5, <1>7, <1>8, OpIs DEF Equivalent
<1>10. Gathered(w[2].st) /\ Goal(w[2].st) = Goal(st)
  BY <1>7, <1>9, EquivalentGoal DEF Gathered, Equivalent
<1>11. w[3].st = OpState("DIV", w[2].st)
  BY <1>5, <1>8, <1>10, MoveIs DEF Gathered
<1>12. w[3].st = Goal(st)
  BY <1>5, <1>10, <1>11, OpIs DEF Gathered
<1> QED BY <1>1, <1>2, <1>3, <1>12

\* The roads of distinct ops.
RoadOf(r, n) == n \in 0 .. 4 /\ r \in Seq(MacroOps) /\ Len(r) = n /\ DOMAIN r = 1 .. n

\* A road the search tries is a sequence of ops, of four at most.
LEMMA OpRoadIs == ASSUME NEW r \in OpRoads PROVE RoadOf(r, Len(r))
<1>1. PICK n \in 0 .. 4 : r \in [1 .. n -> MacroOps]
  BY DEF OpRoads
<1>2. r \in Seq(MacroOps)
  BY <1>1, SeqDef
<1>3. Len(r) \in Nat /\ DOMAIN r = 1 .. Len(r) /\ DOMAIN r = 1 .. n
  BY <1>1, <1>2, LenProperties
<1>4. Len(r) = n
  <2>1. PICK m \in Nat : m = Len(r) /\ 1 .. m = 1 .. n
    BY <1>3
  <2>2. m \in 1 .. m \/ m = 0
    BY <2>1
  <2>3. n \in 1 .. n \/ n = 0
    OBVIOUS
  <2> QED BY <2>1, <2>2, <2>3
<1> QED BY <1>2, <1>3, <1>4 DEF RoadOf

\* The sure road is among them.
LEMMA SureRoadIs == SureRoad \in OpRoads
<1>1. SureRoad \in [1 .. 3 -> MacroOps]
  BY DEF SureRoad, MacroOps
<1>2. \A i, j \in DOMAIN SureRoad : SureRoad[i] = SureRoad[j] => i = j
  <2>1. SureRoad[1] = "MOVEX" /\ SureRoad[2] = "MOVEC" /\ SureRoad[3] = "DIV" /\ DOMAIN SureRoad = {1, 2, 3}
    BY DEF SureRoad
  <2> QED BY <2>1
<1> QED BY <1>1, <1>2 DEF OpRoads

\* The order of names as a number: a road of four slots, the empty ones first.
Slot(r, i) == IF i \in DOMAIN r THEN Rank(r[i]) ELSE 0
Code(r) == 125 * Slot(r, 1) + 25 * Slot(r, 2) + 5 * Slot(r, 3) + Slot(r, 4)

\* No two ops have one rank.
LEMMA RankIs ==
    /\ \A op \in MacroOps : Rank(op) \in 1 .. 4
    /\ \A op, other \in MacroOps : Rank(op) = Rank(other) => op = other
<1>1. Rank("CLEAR") = 1 /\ Rank("DIV") = 2 /\ Rank("MOVEC") = 3 /\ Rank("MOVEX") = 4
  BY DEF Rank
<1>2. \A op \in MacroOps : op = "CLEAR" \/ op = "DIV" \/ op = "MOVEC" \/ op = "MOVEX"
  BY DEF MacroOps
<1> QED BY <1>1, <1>2

\* A slot is a digit.
LEMMA SlotIs == ASSUME NEW r, NEW n, RoadOf(r, n), NEW i \in 1 .. 4 PROVE Slot(r, i) \in 0 .. 4
<1>1. CASE i \in DOMAIN r
  <2>1. r[i] \in MacroOps
    BY <1>1, ElementOfSeq DEF RoadOf
  <2> QED BY <1>1, <2>1, RankIs DEF Slot
<1>2. CASE i \notin DOMAIN r
  BY <1>2 DEF Slot
<1> QED BY <1>1, <1>2

\* Of roads of one length one is named first.
LEMMA FirstNamedIs ==
    ASSUME NEW S, S # {}, S \subseteq OpRoads, \A r, o \in S : Len(r) = Len(o)
    PROVE  FirstNamed(S) \in S
<1>1. PICK n : n \in 0 .. 4 /\ \A r \in S : RoadOf(r, n)
  BY OpRoadIs DEF RoadOf
<1>2. \A r \in S : Code(r) \in Nat
  <2>1. ASSUME NEW r \in S PROVE Code(r) \in Nat
    <3>1. RoadOf(r, n)
      BY <1>1
    <3>2. Slot(r, 1) \in 0 .. 4 /\ Slot(r, 2) \in 0 .. 4 /\ Slot(r, 3) \in 0 .. 4 /\ Slot(r, 4) \in 0 .. 4
      BY <3>1, SlotIs
    <3>3. PICK a \in Nat, b \in Nat, c \in Nat, d \in Nat : a = Slot(r, 1) /\ b = Slot(r, 2) /\ c = Slot(r, 3) /\ d = Slot(r, 4)
      BY <3>2
    <3>4. Code(r) = 125 * a + 25 * b + 5 * c + d
      BY <3>3 DEF Code
    <3>5. 125 * a + 25 * b + 5 * c + d \in Nat
      OBVIOUS
    <3> QED BY <3>4, <3>5
  <2> QED BY <2>1
<1>3. PICK C : C = {Code(r) : r \in S} /\ C \in SUBSET Nat /\ C # {}
  <2>1. PICK C : C = {Code(r) : r \in S}
    OBVIOUS
  <2>2. C \subseteq Nat
    BY <1>2, <2>1
  <2>3. C # {}
    BY <2>1
  <2> QED BY <2>1, <2>2, <2>3
<1>4. PICK c \in C : \A d \in C : c <= d
  BY <1>3, SmallestNat
<1>5. PICK r \in S : \A o \in S : Code(r) <= Code(o)
  BY <1>3, <1>4
<1>6. ASSUME NEW o \in S, r # o PROVE NamedBefore(r, o)
  <2>1. RoadOf(r, n) /\ RoadOf(o, n) /\ DOMAIN r = 1 .. n /\ DOMAIN o = 1 .. n
    BY <1>1 DEF RoadOf
  <2>2. \E i \in 1 .. n : r[i] # o[i]
    <3>1. r \in [1 .. n -> MacroOps] /\ o \in [1 .. n -> MacroOps]
      BY <2>1, LenProperties DEF RoadOf
    <3>2. SUFFICES ASSUME \A i \in 1 .. n : r[i] = o[i] PROVE FALSE
      OBVIOUS
    <3>3. r = [i \in 1 .. n |-> r[i]] /\ o = [i \in 1 .. n |-> o[i]]
      BY <3>1
    <3>4. [i \in 1 .. n |-> r[i]] = [i \in 1 .. n |-> o[i]]
      BY <3>2
    <3> QED BY <1>6, <3>3, <3>4
  <2>3. PICK i \in 1 .. n : r[i] # o[i] /\ \A j \in 1 .. i - 1 : r[j] = o[j]
    <3>0. PICK D : D = {i \in 1 .. n : r[i] # o[i]}
      OBVIOUS
    <3>1. D = {i \in 1 .. n : r[i] # o[i]} /\ D \in SUBSET Nat /\ D # {}
      BY <2>2, <3>0
    <3>2. PICK i \in D : \A j \in D : i <= j
      BY <3>1, SmallestNat
    <3>3. \A j \in 1 .. i - 1 : j \in 1 .. n /\ ~(i <= j)
      BY <1>1, <3>1, <3>2
    <3> QED BY <3>1, <3>2, <3>3
  <2>4. i \in 1 .. 4 /\ i \in DOMAIN r /\ i \in DOMAIN o /\ \A j \in 1 .. i - 1 : j \in DOMAIN r /\ j \in DOMAIN o
    BY <1>1, <2>1, <2>3
  <2>5. r[i] \in MacroOps /\ o[i] \in MacroOps
    BY <2>1, <2>3, ElementOfSeq DEF RoadOf
  <2>6. \A j \in 1 .. i - 1 : Slot(r, j) = Slot(o, j)
    BY <2>3, <2>4 DEF Slot
  <2>7. Slot(r, i) = Rank(r[i]) /\ Slot(o, i) = Rank(o[i]) /\ Slot(r, i) # Slot(o, i)
    BY <2>3, <2>4, <2>5, RankIs DEF Slot
  <2>8. PICK a, b, c1, d, e, f, g, h :
          /\ a = Slot(r, 1) /\ b = Slot(r, 2) /\ c1 = Slot(r, 3) /\ d = Slot(r, 4)
          /\ e = Slot(o, 1) /\ f = Slot(o, 2) /\ g = Slot(o, 3) /\ h = Slot(o, 4)
    OBVIOUS
  <2>9. a \in 0 .. 4 /\ b \in 0 .. 4 /\ c1 \in 0 .. 4 /\ d \in 0 .. 4 /\ e \in 0 .. 4 /\ f \in 0 .. 4 /\ g \in 0 .. 4 /\ h \in 0 .. 4
    BY <2>1, <2>8, SlotIs
  <2>10. 125 * a + 25 * b + 5 * c1 + d <= 125 * e + 25 * f + 5 * g + h
    BY <1>5, <1>6, <2>8 DEF Code
  <2>11. Slot(r, i) < Slot(o, i)
    <3>1. CASE i = 1
      <4>1. a # e /\ Slot(r, i) = a /\ Slot(o, i) = e
        BY <2>7, <2>8, <3>1
      <4>3. a < e
        BY ONLY <2>9, <2>10, <4>1
      <4> QED BY <4>1, <4>3
    <3>2. CASE i = 2
      <4>1. b # f /\ Slot(r, i) = b /\ Slot(o, i) = f
        BY <2>7, <2>8, <3>2
      <4>2. a = e
        BY <2>6, <2>8, <3>2
      <4>3. b < f
        BY ONLY <2>9, <2>10, <4>1, <4>2
      <4> QED BY <4>1, <4>3
    <3>3. CASE i = 3
      <4>1. c1 # g /\ Slot(r, i) = c1 /\ Slot(o, i) = g
        BY <2>7, <2>8, <3>3
      <4>2. a = e /\ b = f
        BY <2>6, <2>8, <3>3
      <4>3. c1 < g
        BY ONLY <2>9, <2>10, <4>1, <4>2
      <4> QED BY <4>1, <4>3
    <3>4. CASE i = 4
      <4>1. d # h /\ Slot(r, i) = d /\ Slot(o, i) = h
        BY <2>7, <2>8, <3>4
      <4>2. a = e /\ b = f /\ c1 = g
        BY <2>6, <2>8, <3>4
      <4>3. d < h
        BY ONLY <2>9, <2>10, <4>1, <4>2
      <4> QED BY <4>1, <4>3
    <3> QED BY <2>4, <3>1, <3>2, <3>3, <3>4
  <2> QED BY <2>3, <2>4, <2>7, <2>11 DEF NamedBefore
<1> QED BY <1>5, <1>6 DEF FirstNamed

\* What the search finds: a road that lands, and its price.
LEMMA SearchIs ==
    ASSUME NEW st \in Equations
    PROVE  /\ WalkRoad(st, Search[st].road).st = Goal(st)
           /\ Search[st].price = WalkRoad(st, Search[st].road).price
<1>1. State(st)
  BY EquationIs
<1>2. PICK out : out = [r \in OpRoads |-> WalkRoad(st, r)]
  OBVIOUS
<1>3. Search[st] = BestOf(st, out)
  BY <1>2 DEF Search, SearchIn
<1>4. \A r \in OpRoads : out[r] = WalkRoad(st, r) /\ out[r].price \in Nat
  BY <1>1, <1>2, OpRoadIs, PriceTyped DEF RoadOf
<1>5. PICK L : L = Landing(st, out) /\ L \subseteq OpRoads /\ L # {} /\ \A r \in L : WalkRoad(st, r).st = Goal(st)
  <2>1. SureRoad \in Landing(st, out)
    BY <1>1, <1>4, SureRoadIs, SureRoadLands DEF Landing
  <2>2. \A r \in Landing(st, out) : r \in OpRoads /\ WalkRoad(st, r).st = Goal(st)
    BY <1>4 DEF Landing
  <2> QED BY <2>1, <2>2
<1>6. PICK B : B = Cheapest(L, out) /\ B \subseteq L /\ B # {}
  <2>0. PICK P : P = {out[r].price : r \in L}
    OBVIOUS
  <2>1. P = {out[r].price : r \in L} /\ P \in SUBSET Nat /\ P # {}
    <3>1. P \subseteq Nat
      BY <1>4, <1>5, <2>0
    <3>2. P # {}
      BY <1>5, <2>0
    <3> QED BY <2>0, <3>1, <3>2
  <2>2. PICK p \in P : \A q \in P : p <= q
    BY <2>1, SmallestNat
  <2>3. PICK r \in L : \A o \in L : out[r].price <= out[o].price
    BY <2>1, <2>2
  <2> QED BY <2>3 DEF Cheapest
<1>7. PICK S : S = Shortest(B) /\ S \subseteq B /\ S # {} /\ \A r, o \in S : Len(r) = Len(o)
  <2>1. \A r \in B : Len(r) \in Nat
    BY <1>5, <1>6, OpRoadIs DEF RoadOf
  <2>6. PICK P : P = {Len(r) : r \in B}
    OBVIOUS
  <2>2. P = {Len(r) : r \in B} /\ P \in SUBSET Nat /\ P # {}
    <3>1. P \subseteq Nat
      BY <2>1, <2>6
    <3>2. P # {}
      BY <1>6, <2>6
    <3> QED BY <2>6, <3>1, <3>2
  <2>3. PICK p \in P : \A q \in P : p <= q
    BY <2>2, SmallestNat
  <2>4. PICK r \in B : \A o \in B : Len(r) <= Len(o)
    BY <2>2, <2>3
  <2>5. \A o, u \in Shortest(B) : o \in B /\ u \in B /\ Len(o) <= Len(u) /\ Len(u) <= Len(o)
    BY DEF Shortest
  <2>7. r \in Shortest(B) /\ Shortest(B) \subseteq B
    BY <2>4 DEF Shortest
  <2>8. \A o, u \in Shortest(B) : Len(o) = Len(u)
    BY <2>1, <2>5
  <2> QED BY <2>7, <2>8
<1>8. PICK road : road = FirstNamed(S) /\ road \in L
  BY <1>5, <1>6, <1>7, FirstNamedIs
<1>9. Search[st] = [road |-> road, price |-> out[road].price]
  BY <1>3, <1>5, <1>6, <1>7, <1>8 DEF BestOf, Priced
<1> QED BY <1>4, <1>5, <1>8, <1>9

\* Signatures and keys are words of truths.
Words == Seq(BOOLEAN)

\* What a prefix is.
LEMMA PrefixIs ==
    ASSUME NEW V, NEW s \in Seq(V), NEW d \in 0 .. Len(s)
    PROVE  Prefix(s, d) \in Seq(V) /\ Len(Prefix(s, d)) = d /\ \A i \in 1 .. d : Prefix(s, d)[i] = s[i]
<1>1. Len(s) \in Nat /\ d \in Nat /\ d <= Len(s)
  BY LenProperties
<1>2. \A i \in 1 .. d : s[i] \in V
  BY <1>1, ElementOfSeq
<1>3. PICK p : p = SubSeq(s, 1, d)
  OBVIOUS
<1>4. p \in Seq(V) /\ Len(p) = (IF 1 <= d THEN d - 1 + 1 ELSE 0) /\ \A i \in 1 .. d - 1 + 1 : p[i] = s[1 + i - 1]
  BY <1>1, <1>2, <1>3, SubSeqProperties
<1>5. Len(p) = d
  BY <1>1, <1>4
<1>6. \A i \in 1 .. d : p[i] = s[i]
  <2>1. ASSUME NEW i \in 1 .. d PROVE p[i] = s[i]
    <3>1. i \in 1 .. d - 1 + 1 /\ 1 + i - 1 = i
      BY <1>1
    <3> QED BY <1>4, <3>1
  <2> QED BY <2>1
<1> QED BY <1>3, <1>4, <1>5, <1>6 DEF Prefix

\* A word begins another when it is as long at most, and agrees with it.
LEMMA BeginsIs ==
    ASSUME NEW k \in Words, NEW s \in Words
    PROVE  Begins(k, s) <=> Len(k) <= Len(s) /\ \A i \in 1 .. Len(k) : k[i] = s[i]
<1>1. Len(k) \in Nat /\ Len(s) \in Nat
  BY LenProperties DEF Words
<1>2. ASSUME Len(k) <= Len(s)
      PROVE  Prefix(s, Len(k)) = k <=> \A i \in 1 .. Len(k) : k[i] = s[i]
  <2>1. PICK p : p = Prefix(s, Len(k))
    OBVIOUS
  <2>2. p \in Words /\ Len(p) = Len(k) /\ \A i \in 1 .. Len(k) : p[i] = s[i]
    <3>1. Len(k) \in 0 .. Len(s) /\ s \in Seq(BOOLEAN)
      BY <1>1, <1>2 DEF Words
    <3>2. /\ Prefix(s, Len(k)) \in Seq(BOOLEAN) /\ Len(Prefix(s, Len(k))) = Len(k)
          /\ \A i \in 1 .. Len(k) : Prefix(s, Len(k))[i] = s[i]
      BY ONLY <3>1, PrefixIs
    <3> QED BY <2>1, <3>2 DEF Words
  <2>3. ASSUME \A i \in 1 .. Len(k) : k[i] = s[i] PROVE p = k
    <3>1. \A i \in 1 .. Len(p) : p[i] = k[i]
      BY <2>2, <2>3
    <3>2. p \in Seq(BOOLEAN) /\ k \in Seq(BOOLEAN) /\ Len(p) = Len(k)
      BY <2>2 DEF Words
    <3> QED BY ONLY <3>1, <3>2, SeqEqual
  <2>4. p = k => \A i \in 1 .. Len(k) : k[i] = s[i]
    BY <2>2
  <2> QED BY <2>1, <2>3, <2>4
<1> QED BY <1>2 DEF Begins

\* A word begins itself.
LEMMA BeginsItself == ASSUME NEW k \in Words PROVE Begins(k, k)
BY BeginsIs, LenProperties DEF Words

\* What a word begins, it begins all that begins with that.
LEMMA BeginsOnward ==
    ASSUME NEW k \in Words, NEW l \in Words, NEW s \in Words, Begins(k, l), Begins(l, s)
    PROVE  Begins(k, s)
<1>1. Len(k) \in Nat /\ Len(l) \in Nat /\ Len(s) \in Nat
  BY LenProperties DEF Words
<1>2. Len(k) <= Len(l) /\ Len(l) <= Len(s) /\ (\A i \in 1 .. Len(k) : k[i] = l[i]) /\ (\A i \in 1 .. Len(l) : l[i] = s[i])
  BY BeginsIs
<1>3. Len(k) <= Len(s) /\ \A i \in 1 .. Len(k) : k[i] = s[i]
  BY <1>1, <1>2
<1> QED BY <1>3, BeginsIs

\* Of two words that begin one word the shorter begins the longer.
LEMMA BeginsBoth ==
    ASSUME NEW k \in Words, NEW l \in Words, NEW s \in Words, Begins(k, s), Begins(l, s), Len(k) <= Len(l)
    PROVE  Begins(k, l) /\ (Len(k) = Len(l) => k = l)
<1>1. Len(k) \in Nat /\ Len(l) \in Nat /\ Len(s) \in Nat
  BY LenProperties DEF Words
<1>2. (\A i \in 1 .. Len(k) : k[i] = s[i]) /\ (\A i \in 1 .. Len(l) : l[i] = s[i])
  BY BeginsIs
<1>3. \A i \in 1 .. Len(k) : k[i] = l[i]
  BY <1>1, <1>2
<1>4. Begins(k, l)
  BY <1>3, BeginsIs
<1>5. Len(k) = Len(l) => k = l
  BY <1>3, SeqEqual DEF Words
<1> QED BY <1>4, <1>5

\* Of two words of one length one begins the other when they are one.
LEMMA BeginsEqual == ASSUME NEW k \in Words, NEW l \in Words, Begins(k, l), Len(k) = Len(l) PROVE k = l
<1>1. \A i \in 1 .. Len(k) : k[i] = l[i]
  BY BeginsIs
<1> QED BY <1>1, SeqEqual DEF Words

\* A prefix begins its word, and is begun by all that are shorter and begin it.
LEMMA PrefixBegins ==
    ASSUME NEW s \in Words, NEW d \in 0 .. Len(s)
    PROVE  /\ Prefix(s, d) \in Words /\ Len(Prefix(s, d)) = d /\ Begins(Prefix(s, d), s)
           /\ \A k \in Words : Begins(k, s) /\ Len(k) <= d => Begins(k, Prefix(s, d))
<1>1. Prefix(s, d) \in Words /\ Len(Prefix(s, d)) = d /\ \A i \in 1 .. d : Prefix(s, d)[i] = s[i]
  BY PrefixIs DEF Words
<1>2. d <= Len(s) /\ Len(s) \in Nat
  BY LenProperties DEF Words
<1>3. Begins(Prefix(s, d), s)
  BY <1>1, <1>2, BeginsIs
<1> QED BY <1>1, <1>3, BeginsBoth

\* The bits that can be added, and the signatures made of them.
Bits == {Library[i] : i \in DOMAIN Library}
FirstBits(st) ==
    <<LcmOf(st) > 1, st[3] # Zero, st[2] # Zero, Times(Minus(st[1], st[3]), Int2F(LcmOf(st))) # One>>
AddedBits(st, bits) == [i \in DOMAIN bits |-> BitHolds(bits[i], st)]

\* The first four bits.
LEMMA FirstBitsAre == ASSUME NEW st PROVE FirstBits(st) \in Words /\ Len(FirstBits(st)) = 4
<1>1. PICK a, b, c, d : /\ a = (LcmOf(st) > 1) /\ b = (st[3] # Zero) /\ c = (st[2] # Zero)
                        /\ d = (Times(Minus(st[1], st[3]), Int2F(LcmOf(st))) # One)
  OBVIOUS
<1>2. a \in BOOLEAN /\ b \in BOOLEAN /\ c \in BOOLEAN /\ d \in BOOLEAN
  <2>1. PICK e : e = LcmOf(st)
    OBVIOUS
  <2>2. (e > 1) \in BOOLEAN
    OBVIOUS
  <2> QED BY <1>1, <2>1, <2>2
<1>3. <<a, b, c, d>> \in Seq(BOOLEAN) /\ Len(<<a, b, c, d>>) = 4
  BY ONLY <1>2
<1> QED BY <1>1, <1>3 DEF FirstBits, Words

\* A bit is a truth.
LEMMA BitsAre == ASSUME NEW b \in Bits, NEW st PROVE BitHolds(b, st) \in BOOLEAN
<1>1. b = "lead_one" \/ b = "lcm_two" \/ b = "q_whole" \/ b = "s_whole"
  BY DEF Bits, Library
<1>2. CASE b = "lead_one"
  <2>1. BitHolds(b, st) = (Minus(st[1], st[3]) = One)
    BY <1>2 DEF BitHolds
  <2> QED BY <2>1
<1>3. CASE b = "lcm_two"
  <2>1. BitHolds(b, st) = (LcmOf(st) = 2)
    BY <1>3 DEF BitHolds
  <2> QED BY <2>1
<1>4. CASE b = "q_whole"
  <2>1. BitHolds(b, st) = (Den(st[2]) = 1)
    BY <1>4 DEF BitHolds, IsWhole
  <2> QED BY <2>1
<1>5. CASE b = "s_whole"
  <2>1. BitHolds(b, st) = (Den(st[4]) = 1)
    BY <1>5 DEF BitHolds, IsWhole
  <2> QED BY <2>1
<1> QED BY <1>1, <1>2, <1>3, <1>4, <1>5

\* The bits added.
LEMMA AddedBitsAre ==
    ASSUME NEW st, NEW bits \in Seq(Bits)
    PROVE  /\ AddedBits(st, bits) \in Words /\ Len(AddedBits(st, bits)) = Len(bits)
           /\ \A i \in 1 .. Len(bits) : AddedBits(st, bits)[i] = BitHolds(bits[i], st)
<1>1. Len(bits) \in Nat /\ DOMAIN bits = 1 .. Len(bits)
  BY LenProperties
<1>2. PICK f : f = AddedBits(st, bits)
  OBVIOUS
<1>3. DOMAIN f = 1 .. Len(bits) /\ f = [i \in 1 .. Len(bits) |-> BitHolds(bits[i], st)]
  BY <1>1, <1>2 DEF AddedBits
<1>4. \A i \in 1 .. Len(bits) : BitHolds(bits[i], st) \in BOOLEAN
  BY ElementOfSeq, BitsAre
<1>5. f \in [1 .. Len(bits) -> BOOLEAN]
  BY <1>3, <1>4
<1>6. f \in Words
  BY <1>1, <1>5, SeqDef DEF Words
<1>7. Len(f) = Len(bits)
  <2>1. Len(f) \in Nat /\ DOMAIN f = 1 .. Len(f)
    BY <1>6, LenProperties DEF Words
  <2>2. PICK m \in Nat, n \in Nat : m = Len(f) /\ n = Len(bits) /\ 1 .. m = 1 .. n
    BY <1>1, <1>3, <2>1
  <2>3. (m \in 1 .. m \/ m = 0) /\ (n \in 1 .. n \/ n = 0)
    BY <2>2
  <2> QED BY <2>2, <2>3
<1> QED BY <1>2, <1>3, <1>6, <1>7

\* What a signature is.
LEMMA SigIs ==
    ASSUME NEW st, NEW bits \in Seq(Bits), NEW s, s = Sig(st, bits)
    PROVE  /\ s \in Words /\ Len(s) = 4 + Len(bits) /\ Len(bits) \in Nat
           /\ \A i \in 1 .. 4 : s[i] = FirstBits(st)[i]
           /\ \A i \in 1 .. Len(bits) : s[4 + i] = BitHolds(bits[i], st)
<1>1. PICK a, b : a = FirstBits(st) /\ b = AddedBits(st, bits)
  OBVIOUS
<1>2. s = a \o b
  BY <1>1 DEF Sig, FirstBits, AddedBits
<1>3. a \in Words /\ b \in Words /\ Len(a) = 4 /\ Len(b) = Len(bits) /\ Len(bits) \in Nat
  BY <1>1, FirstBitsAre, AddedBitsAre, LenProperties
<1>4. s \in Words /\ Len(s) = 4 + Len(bits) /\ \A i \in 1 .. 4 + Len(bits) : s[i] = IF i <= 4 THEN a[i] ELSE b[i - 4]
  <2>1. a \in Seq(BOOLEAN) /\ b \in Seq(BOOLEAN)
    BY <1>3 DEF Words
  <2>2. /\ a \o b \in Seq(BOOLEAN) /\ Len(a \o b) = Len(a) + Len(b)
        /\ \A i \in 1 .. Len(a) + Len(b) : (a \o b)[i] = IF i <= Len(a) THEN a[i] ELSE b[i - Len(a)]
    BY ONLY <2>1, ConcatProperties
  <2> QED BY <1>2, <1>3, <2>2 DEF Words
<1>5. \A i \in 1 .. 4 : s[i] = a[i]
  BY <1>3, <1>4
<1>6. ASSUME NEW i \in 1 .. Len(bits) PROVE s[4 + i] = BitHolds(bits[i], st)
  <2>1. PICK j : j = 4 + i /\ j \in 1 .. 4 + Len(bits) /\ ~(j <= 4) /\ j - 4 = i
    BY <1>3
  <2>2. s[j] = b[i]
    BY <1>4, <2>1
  <2>3. b[i] = BitHolds(bits[i], st)
    BY <1>1, AddedBitsAre
  <2> QED BY <2>1, <2>2, <2>3
<1> QED BY <1>1, <1>3, <1>4, <1>5, <1>6

\* More bits make a signature longer, and leave what there was.
LEMMA SigGrows ==
    ASSUME NEW st, NEW bits \in Seq(Bits), NEW more \in Seq(Bits)
    PROVE  bits \o more \in Seq(Bits) /\ Begins(Sig(st, bits), Sig(st, bits \o more))
<1>1. PICK all, s, t : all = bits \o more /\ s = Sig(st, bits) /\ t = Sig(st, all)
  OBVIOUS
<1>2. /\ all \in Seq(Bits) /\ Len(all) = Len(bits) + Len(more) /\ Len(bits) \in Nat /\ Len(more) \in Nat
      /\ \A i \in 1 .. Len(bits) + Len(more) : all[i] = IF i <= Len(bits) THEN bits[i] ELSE more[i - Len(bits)]
  BY <1>1, ConcatProperties, LenProperties
<1>3. s \in Words /\ Len(s) = 4 + Len(bits) /\ (\A i \in 1 .. 4 : s[i] = FirstBits(st)[i])
      /\ \A i \in 1 .. Len(bits) : s[4 + i] = BitHolds(bits[i], st)
  BY <1>1, SigIs
<1>4. t \in Words /\ Len(t) = 4 + Len(all) /\ (\A i \in 1 .. 4 : t[i] = FirstBits(st)[i])
      /\ \A i \in 1 .. Len(all) : t[4 + i] = BitHolds(all[i], st)
  <2>1. t = Sig(st, all) /\ all \in Seq(Bits)
    BY <1>1, <1>2
  <2> QED BY ONLY <2>1, SigIs
<1>5. ASSUME NEW i \in 1 .. Len(s) PROVE s[i] = t[i]
  <2>1. CASE i <= 4
    <3>1. i \in 1 .. 4
      BY <1>2, <1>3, <2>1
    <3> QED BY <1>3, <1>4, <3>1
  <2>2. CASE i > 4
    <3>1. PICK j : j \in 1 .. Len(bits) /\ j \in 1 .. Len(all) /\ i = 4 + j
      <4>1. i - 4 \in 1 .. Len(bits) /\ i - 4 \in 1 .. Len(all) /\ i = 4 + (i - 4)
        BY <1>2, <1>3, <2>2
      <4> QED BY <4>1
    <3>2. all[j] = bits[j]
      BY <1>2, <3>1
    <3> QED BY <1>3, <1>4, <3>1, <3>2
  <2> QED BY <1>2, <1>3, <2>1, <2>2
<1>6. Len(s) <= Len(t)
  BY <1>2, <1>3, <1>4
<1> QED BY <1>1, <1>2, <1>3, <1>4, <1>5, <1>6, BeginsIs

\* An entry is the best road of its example.
EntryOf(e) == e.ex \in Equations /\ e.road = Search[e.ex].road

\* Every key begins the signature of its entry's example, and none begins another.
Keyed(f, bits) ==
    /\ IsFiniteSet(DOMAIN f)
    /\ \A k \in DOMAIN f : k \in Words /\ EntryOf(f[k]) /\ Begins(k, Sig(f[k].ex, bits))
    /\ \A k, l \in DOMAIN f : Begins(k, l) => k = l

\* Bits added leave every key the beginning of its example's signature.
LEMMA KeyedGrows ==
    ASSUME NEW f, NEW bits \in Seq(Bits), NEW more \in Seq(Bits), Keyed(f, bits)
    PROVE  Keyed(f, bits \o more)
<1>1. ASSUME NEW k \in DOMAIN f PROVE Begins(k, Sig(f[k].ex, bits \o more))
  <2>1. PICK s, t : s = Sig(f[k].ex, bits) /\ t = Sig(f[k].ex, bits \o more)
    OBVIOUS
  <2>2. k \in Words /\ Begins(k, s)
    BY <2>1 DEF Keyed
  <2>3. bits \o more \in Seq(Bits) /\ Begins(s, t)
    BY <2>1, SigGrows
  <2>4. s \in Words /\ t \in Words
    BY <2>1, <2>3, SigIs
  <2> QED BY <2>1, <2>2, <2>3, <2>4, BeginsOnward
<1> QED BY <1>1 DEF Keyed

\* A new key that none begins and that begins none.
NewKey(f, bits, key, e) ==
    /\ Keyed(f, bits) /\ key \in Words /\ EntryOf(e) /\ Begins(key, Sig(e.ex, bits))
    /\ \A k \in DOMAIN f : ~Begins(k, key) /\ ~Begins(key, k)

\* g is f and the new key.
KeyMore(f, bits, key, g) ==
    Keyed(g, bits) /\ DOMAIN g = DOMAIN f \cup {key} /\ Cardinality(DOMAIN g) = Cardinality(DOMAIN f) + 1

\* It leaves the keys in order, and is one more.
LEMMA PutKeyed ==
    ASSUME NEW f, NEW bits, NEW key, NEW e, NewKey(f, bits, key, e)
    PROVE  KeyMore(f, bits, key, Put(f, key, e))
<1> USE DEF NewKey
<1>1. PICK g : g = Put(f, key, e)
  OBVIOUS
<1>2. /\ DOMAIN g = DOMAIN f \cup {key}
      /\ \A k \in DOMAIN f \cup {key} : g[k] = IF k = key THEN e ELSE f[k]
  BY <1>1 DEF Put
<1>3. key \notin DOMAIN f
  BY BeginsItself
<1>4. IsFiniteSet(DOMAIN f)
  BY DEF Keyed
<1>5. IsFiniteSet(DOMAIN g) /\ Cardinality(DOMAIN g) = Cardinality(DOMAIN f) + 1
  BY <1>2, <1>3, <1>4, FS_AddElement
<1>6. ASSUME NEW k \in DOMAIN g PROVE k \in Words /\ EntryOf(g[k]) /\ Begins(k, Sig(g[k].ex, bits))
  <2>1. CASE k = key
    BY <1>2, <2>1
  <2>2. CASE k \in DOMAIN f /\ k # key
    <3>1. g[k] = f[k]
      BY <1>2, <2>2
    <3> QED BY <2>2, <3>1 DEF Keyed
  <2> QED BY <1>2, <2>1, <2>2
<1>7. ASSUME NEW k \in DOMAIN g, NEW l \in DOMAIN g, Begins(k, l) PROVE k = l
  BY <1>2, <1>7 DEF Keyed
<1>8. Keyed(g, bits)
  BY <1>5, <1>6, <1>7 DEF Keyed
<1> QED BY <1>1, <1>2, <1>5, <1>8 DEF KeyMore

\* A key taken away.
LEMMA DropKeyed ==
    ASSUME NEW f, NEW bits, NEW key \in DOMAIN f, Keyed(f, bits),
           NEW g, g = [k \in DOMAIN f \ {key} |-> f[k]]
    PROVE  Keyed(g, bits) /\ DOMAIN g = DOMAIN f \ {key} /\ Cardinality(DOMAIN g) + 1 = Cardinality(DOMAIN f)
<1>1. DOMAIN g = DOMAIN f \ {key} /\ \A k \in DOMAIN g : g[k] = f[k]
  OBVIOUS
<1>2. IsFiniteSet(DOMAIN f)
  BY DEF Keyed
<1>3. PICK m : m = Cardinality(DOMAIN g)
  OBVIOUS
<1>4. IsFiniteSet(DOMAIN g) /\ m = Cardinality(DOMAIN f) - 1 /\ Cardinality(DOMAIN f) \in Nat
  BY <1>1, <1>2, <1>3, FS_RemoveElement, FS_CardinalityType
<1>5. Keyed(g, bits)
  BY <1>1, <1>4 DEF Keyed
<1> QED BY <1>1, <1>3, <1>4, <1>5

\* A key's entry and a new one, told apart below the key.
LEMMA SplitKeeps ==
    ASSUME NEW bits \in Seq(Bits), Keyed(store, bits), NEW key \in DOMAIN store, NEW st \in Equations,
           Begins(key, Sig(st, bits)), NEW d \in Nat, Len(key) <= d, d <= 4 + Len(bits),
           Prefix(Sig(store[key].ex, bits), d) # Prefix(Sig(st, bits), d)
    PROVE  /\ Keyed(Split(key, st, bits, d), bits)
           /\ Cardinality(DOMAIN Split(key, st, bits, d)) = Cardinality(DOMAIN store) + 1
<1>1. PICK old, s, t : old = store[key] /\ s = Sig(old.ex, bits) /\ t = Sig(st, bits)
  OBVIOUS
<1>2. key \in Words /\ EntryOf(old) /\ Begins(key, s) /\ Begins(key, t)
  BY <1>1 DEF Keyed
<1>3. s \in Words /\ t \in Words /\ Len(s) = 4 + Len(bits) /\ Len(t) = 4 + Len(bits) /\ Len(bits) \in Nat
  BY <1>1, SigIs
<1>4. PICK a, b : a = Prefix(s, d) /\ b = Prefix(t, d)
  OBVIOUS
<1>5. d \in 0 .. Len(s) /\ d \in 0 .. Len(t)
  BY <1>3
<1>6. a \in Words /\ Len(a) = d /\ Begins(a, s) /\ Begins(key, a)
  BY <1>2, <1>3, <1>4, <1>5, PrefixBegins
<1>7. b \in Words /\ Len(b) = d /\ Begins(b, t) /\ Begins(key, b)
  BY <1>2, <1>3, <1>4, <1>5, PrefixBegins
<1>8. a # b
  BY <1>1, <1>4
<1>9. PICK rest : rest = [k \in DOMAIN store \ {key} |-> store[k]]
  OBVIOUS
<1>10. Keyed(rest, bits) /\ DOMAIN rest = DOMAIN store \ {key} /\ Cardinality(DOMAIN rest) + 1 = Cardinality(DOMAIN store)
  BY <1>9, DropKeyed
<1>11. ASSUME NEW k \in DOMAIN rest, NEW p \in Words, Begins(key, p) PROVE ~Begins(k, p) /\ ~Begins(p, k)
  <2>1. k \in DOMAIN store /\ k # key /\ k \in Words
    BY <1>10 DEF Keyed
  <2>2. ~Begins(k, key) /\ ~Begins(key, k)
    BY <2>1 DEF Keyed
  <2>3. Len(k) \in Nat /\ Len(key) \in Nat
    BY <1>2, <2>1, LenProperties DEF Words
  <2>4. ~Begins(p, k)
    BY <1>2, <1>11, <2>1, <2>2, BeginsOnward
  <2>5. ASSUME Begins(k, p) PROVE FALSE
    <3>1. CASE Len(k) <= Len(key)
      BY <1>2, <1>11, <2>1, <2>2, <2>5, <3>1, BeginsBoth
    <3>2. CASE Len(key) <= Len(k)
      BY <1>2, <1>11, <2>1, <2>2, <2>5, <3>2, BeginsBoth
    <3> QED BY <2>3, <3>1, <3>2
  <2> QED BY <2>4, <2>5
<1>12. PICK g : g = Put(rest, a, old)
  OBVIOUS
<1>13. \A k \in DOMAIN rest : ~Begins(k, a) /\ ~Begins(a, k)
  BY <1>6, <1>11
<1>14. Keyed(g, bits) /\ DOMAIN g = DOMAIN rest \cup {a} /\ Cardinality(DOMAIN g) = Cardinality(DOMAIN rest) + 1
  <2>1. EntryOf(old) /\ Begins(a, Sig(old.ex, bits))
    BY <1>1, <1>2, <1>6
  <2>2. NewKey(rest, bits, a, old)
    BY <1>6, <1>10, <1>13, <2>1 DEF NewKey
  <2>3. KeyMore(rest, bits, a, Put(rest, a, old))
    BY ONLY <2>2, PutKeyed
  <2> QED BY <1>12, <2>3 DEF KeyMore
<1>15. PICK e : e = NewEntry(st)
  OBVIOUS
<1>16. EntryOf(e) /\ e.ex = st
  BY <1>15 DEF EntryOf, NewEntry
<1>17. ~Begins(a, b) /\ ~Begins(b, a)
  BY <1>6, <1>7, <1>8, BeginsEqual
<1>18. \A k \in DOMAIN g : ~Begins(k, b) /\ ~Begins(b, k)
  BY <1>7, <1>11, <1>14, <1>17
<1>19. PICK h : h = Put(g, b, e)
  OBVIOUS
<1>20. Begins(b, Sig(e.ex, bits))
  BY <1>1, <1>7, <1>16
<1>21. Keyed(h, bits) /\ Cardinality(DOMAIN h) = Cardinality(DOMAIN g) + 1
  <2>1. NewKey(g, bits, b, e)
    BY <1>7, <1>14, <1>16, <1>18, <1>20 DEF NewKey
  <2>2. KeyMore(g, bits, b, Put(g, b, e))
    BY ONLY <2>1, PutKeyed
  <2> QED BY <1>19, <2>2 DEF KeyMore
<1>22. h = Split(key, st, bits, d)
  BY <1>1, <1>4, <1>9, <1>12, <1>15, <1>19 DEF Split
<1>23. Cardinality(DOMAIN h) = Cardinality(DOMAIN store) + 1
  BY ONLY <1>10, <1>14, <1>21
<1> QED BY <1>21, <1>22, <1>23

\* Where a signature no key serves is stored: a prefix that no key begins and that begins none.
LEMMA StoredAtIs ==
    ASSUME NEW bits \in Seq(Bits), Keyed(store, bits), NEW st \in Equations, NEW s, s = Sig(st, bits), Matching(s) = {}
    PROVE  NewKey(store, bits, StoredAt(s), NewEntry(st))
<1>1. s \in Words /\ Len(s) = 4 + Len(bits) /\ Len(bits) \in Nat
  BY SigIs
<1> DEFINE Taken(d) == \E k \in DOMAIN store : Len(k) > d /\ Prefix(k, d) = Prefix(s, d)
           Untaken == {d \in 0 .. Len(s) : ~Taken(d)}
<1>2. ASSUME NEW k \in DOMAIN store PROVE k \in Words /\ Len(k) \in Nat /\ Len(k) <= Len(s)
  <2>1. PICK t : t = Sig(store[k].ex, bits)
    OBVIOUS
  <2>2. t \in Words /\ Len(t) = 4 + Len(bits)
    BY <2>1, SigIs
  <2>3. k \in Words /\ Begins(k, t)
    BY <2>1 DEF Keyed
  <2>4. Len(k) \in Nat
    BY <2>3, LenProperties DEF Words
  <2>5. Len(k) <= Len(t)
    BY <2>2, <2>3, BeginsIs
  <2> QED BY <1>1, <2>2, <2>3, <2>4, <2>5
<1>3. ~Taken(Len(s))
  BY <1>1, <1>2
<1>4. Untaken # {} /\ Untaken \in SUBSET Nat
  <2>1. Len(s) \in Untaken
    BY <1>1, <1>3
  <2>2. Untaken \subseteq 0 .. Len(s) /\ 0 .. Len(s) \subseteq Nat
    OBVIOUS
  <2> QED BY <2>1, <2>2
<1>5. PICK d \in Untaken : \A e \in Untaken : d <= e
  <2> HIDE DEF Untaken
  <2> QED BY <1>4, SmallestNat
<1>6. \A e \in 0 .. d - 1 : Taken(e)
  BY <1>1, <1>5
<1>7. \E e \in 0 .. Len(s) : ~Taken(e) /\ \A g \in 0 .. e - 1 : Taken(g)
  BY <1>5, <1>6
<1>8. PICK c : c = CHOOSE e \in 0 .. Len(s) : ~Taken(e) /\ \A g \in 0 .. e - 1 : Taken(g)
  OBVIOUS
<1>9. c \in 0 .. Len(s) /\ ~Taken(c)
  <2> HIDE DEF Taken
  <2> QED BY <1>7, <1>8
<1>10. PICK p : p = StoredAt(s)
  OBVIOUS
<1>11. p = Prefix(s, c)
  BY <1>8, <1>10 DEF StoredAt
<1>12. p \in Words /\ Len(p) = c /\ Begins(p, s)
  BY <1>1, <1>9, <1>11, PrefixBegins
<1>13. ASSUME NEW k \in DOMAIN store PROVE ~Begins(k, p) /\ ~Begins(p, k)
  <2>1. ~Begins(k, s)
    BY DEF Matching
  <2>2. ~Begins(k, p)
    BY <1>1, <1>2, <1>12, <2>1, BeginsOnward
  <2>3. ASSUME Begins(p, k) PROVE FALSE
    <3>1. Len(p) <= Len(k) /\ Prefix(k, c) = p
      BY <1>12, <2>3 DEF Begins
    <3>2. ~(Len(k) > c)
      BY <1>9, <1>11, <3>1
    <3>3. Len(k) = Len(p)
      BY <1>2, <1>9, <1>12, <3>1, <3>2
    <3>4. p = k
      BY <1>2, <1>12, <2>3, <3>3, BeginsEqual
    <3> QED BY <1>12, <2>1, <3>4
  <2> QED BY <2>2, <2>3
<1>14. PICK e : e = NewEntry(st)
  OBVIOUS
<1>15. EntryOf(e) /\ e.ex = st
  BY <1>14 DEF EntryOf, NewEntry
<1>16. NewKey(store, bits, p, e)
  BY <1>12, <1>13, <1>15 DEF NewKey
<1> QED BY <1>10, <1>14, <1>16

\* The depth of a split: two words a key begins differ there, or nowhere.
LEMMA SplitDepthIs ==
    ASSUME NEW key \in Words, NEW s \in Words, NEW t \in Words, Begins(key, s), Begins(key, t), Len(s) = Len(t),
           NEW d, d = SplitDepth(key, s, t)
    PROVE  \/ d = 0 /\ s = t
           \/ d \in Nat /\ d # 0 /\ Len(key) <= d /\ d <= Len(s) /\ Prefix(s, d) # Prefix(t, d)
<1>1. Len(key) \in Nat /\ Len(s) \in Nat /\ Len(key) <= Len(s) /\ Prefix(s, Len(key)) = key /\ Prefix(t, Len(key)) = key
  BY LenProperties DEF Words, Begins
<1> DEFINE Apart == {i \in Len(key) + 1 .. Len(s) : ~AgreeTo(s, t, i)}
<1>2. CASE Apart # {}
  <2>1. Apart \in SUBSET Nat
    BY <1>1
  <2>2. PICK i \in Apart : \A j \in Apart : i <= j
    <3> HIDE DEF Apart
    <3> QED BY <1>2, <2>1, SmallestNat
  <2>3. AgreeTo(s, t, i - 1)
    <3>1. CASE i - 1 = Len(key)
      BY <1>1, <3>1 DEF AgreeTo
    <3>2. CASE i - 1 # Len(key)
      <4>1. i - 1 \in Len(key) + 1 .. Len(s) /\ ~(i <= i - 1)
        BY <1>1, <2>2, <3>2
      <4> QED BY <2>2, <4>1
    <3> QED BY <3>1, <3>2
  <2>4. d = CHOOSE e \in Len(key) + 1 .. Len(s) : ~AgreeTo(s, t, e) /\ AgreeTo(s, t, e - 1)
    BY <1>2 DEF SplitDepth
  <2>5. d \in Len(key) + 1 .. Len(s) /\ ~AgreeTo(s, t, d)
    BY <2>2, <2>3, <2>4
  <2> QED BY <1>1, <2>5 DEF AgreeTo
<1>3. CASE Apart = {}
  <2>1. d = 0
    BY <1>3 DEF SplitDepth
  <2>2. Begins(s, s) /\ Begins(t, t)
    BY BeginsItself
  <2>3. Prefix(s, Len(s)) = s /\ Prefix(t, Len(s)) = t
    BY <2>2 DEF Begins
  <2>4. CASE Len(key) = Len(s)
    BY <1>1, <2>1, <2>3, <2>4
  <2>5. CASE Len(key) # Len(s)
    <3>1. Len(s) \in Len(key) + 1 .. Len(s)
      BY <1>1, <2>5
    <3>2. AgreeTo(s, t, Len(s))
      BY <1>3, <3>1
    <3> QED BY <2>1, <2>3, <3>2 DEF AgreeTo
  <2> QED BY <2>4, <2>5
<1> QED BY <1>2, <1>3

\* The bit minted tells the two apart; where there is none, every bit of the library agrees that
\* was not minted before.
LEMMA ToMintIs ==
    ASSUME NEW old, NEW st, NEW more, more = ToMint(old, st)
    PROVE  \/ more = << >> /\ \A i \in DOMAIN Library : Library[i] \in {minted[j] : j \in DOMAIN minted}
                                                   \/ BitHolds(Library[i], old) = BitHolds(Library[i], st)
           \/ \E b \in Bits : more = <<b>> /\ BitHolds(b, old) # BitHolds(b, st)
<1> DEFINE Telling == {i \in DOMAIN Library : /\ Library[i] \notin {minted[j] : j \in DOMAIN minted}
                                              /\ BitHolds(Library[i], old) # BitHolds(Library[i], st)}
<1>1. CASE Telling = {}
  BY <1>1 DEF ToMint
<1>2. CASE Telling # {}
  <2>1. DOMAIN Library = 1 .. 4
    BY DEF Library
  <2>2. Telling \in SUBSET Nat
    <3>1. Telling \subseteq DOMAIN Library /\ 1 .. 4 \subseteq Nat
      OBVIOUS
    <3> QED BY <2>1, <3>1
  <2>3. PICK c : c = CHOOSE i \in Telling : \A j \in Telling : i <= j
    OBVIOUS
  <2>4. c \in Telling
    <3> HIDE DEF Telling
    <3>1. \E i \in Telling : \A j \in Telling : i <= j
      BY <1>2, <2>2, SmallestNat
    <3> QED BY <2>3, <3>1
  <2>5. more = <<Library[c]>>
    BY <1>2, <2>3 DEF ToMint
  <2>6. Library[c] \in Bits /\ BitHolds(Library[c], old) # BitHolds(Library[c], st)
    BY <2>4 DEF Bits
  <2> QED BY <2>5, <2>6
<1> QED BY <1>1, <1>2

\* A refinement adds one key, or none at a near-tie, and keeps the store in order.
LEMMA RefineKeeps ==
    ASSUME minted \in Seq(Bits), Keyed(store, minted), NEW key \in DOMAIN store, NEW st \in Equations,
           Begins(key, Sig(st, minted)), Refine(key, st)
    PROVE  /\ minted' \in Seq(Bits) /\ Keyed(store', minted')
           /\ Cardinality(DOMAIN store') = IF RefineVerdict(key, st) = "near-tie" THEN Cardinality(DOMAIN store)
                                           ELSE Cardinality(DOMAIN store) + 1
<1>1. PICK old, s, t, d, more : /\ old = store[key].ex /\ s = Sig(old, minted) /\ t = Sig(st, minted)
                                /\ d = SplitDepth(key, s, t) /\ more = ToMint(old, st)
  OBVIOUS
<1>2. key \in Words /\ Begins(key, s) /\ Begins(key, t)
  BY <1>1 DEF Keyed
<1>3. s \in Words /\ t \in Words /\ Len(s) = 4 + Len(minted) /\ Len(t) = 4 + Len(minted) /\ Len(minted) \in Nat
  BY <1>1, SigIs
<1>4. CASE d # 0
  <2>1. store' = Split(key, st, minted, d) /\ minted' = minted
    BY <1>1, <1>4 DEF Refine
  <2>2. d \in Nat /\ Len(key) <= d /\ d <= 4 + Len(minted) /\ Prefix(s, d) # Prefix(t, d)
    BY <1>1, <1>2, <1>3, <1>4, SplitDepthIs
  <2>3. Keyed(Split(key, st, minted, d), minted)
        /\ Cardinality(DOMAIN Split(key, st, minted, d)) = Cardinality(DOMAIN store) + 1
    BY <1>1, <2>2, SplitKeeps
  <2>4. RefineVerdict(key, st) # "near-tie"
    BY <1>1, <1>4 DEF RefineVerdict
  <2> QED BY <2>1, <2>3, <2>4
<1>5. CASE d = 0 /\ more = << >>
  <2>1. store' = store /\ minted' = minted
    BY <1>1, <1>5 DEF Refine
  <2>2. RefineVerdict(key, st) = "near-tie"
    BY <1>1, <1>5 DEF RefineVerdict
  <2> QED BY <2>1, <2>2
<1>6. CASE d = 0 /\ more # << >>
  <2>1. PICK b \in Bits : more = <<b>> /\ BitHolds(b, old) # BitHolds(b, st)
    BY <1>1, <1>6, ToMintIs
  <2>2. PICK bits, u, v, n : bits = minted \o more /\ u = Sig(old, bits) /\ v = Sig(st, bits) /\ n = Len(v)
    OBVIOUS
  <2>3. store' = Split(key, st, bits, n) /\ minted' = bits
    BY <1>1, <1>6, <2>2 DEF Refine
  <2>4. more \in Seq(Bits) /\ Len(more) = 1 /\ more[1] = b
    BY <2>1
  <2>5. bits \in Seq(Bits) /\ Keyed(store, bits)
    BY <2>2, <2>4, SigGrows, KeyedGrows
  <2>6. Len(bits) = Len(minted) + 1 /\ bits[Len(minted) + 1] = b
    <3>1. /\ Len(minted \o more) = Len(minted) + Len(more)
          /\ \A i \in 1 .. Len(minted) + Len(more) :
                (minted \o more)[i] = IF i <= Len(minted) THEN minted[i] ELSE more[i - Len(minted)]
      BY <2>4, ConcatProperties
    <3>2. PICK m \in Nat : m = Len(minted) /\ m + 1 \in 1 .. m + 1 /\ ~(m + 1 <= m) /\ m + 1 - m = 1
      BY <1>3
    <3> QED BY <2>2, <2>4, <3>1, <3>2
  <2>7. u \in Words /\ v \in Words /\ Len(u) = 4 + Len(bits) /\ n = 4 + Len(bits)
        /\ (\A i \in 1 .. Len(bits) : u[4 + i] = BitHolds(bits[i], old))
        /\ (\A i \in 1 .. Len(bits) : v[4 + i] = BitHolds(bits[i], st))
    <3>1. u = Sig(old, bits) /\ v = Sig(st, bits) /\ bits \in Seq(Bits)
      BY <2>2, <2>5
    <3>2. u \in Words /\ Len(u) = 4 + Len(bits) /\ \A i \in 1 .. Len(bits) : u[4 + i] = BitHolds(bits[i], old)
      BY ONLY <3>1, SigIs
    <3>3. v \in Words /\ Len(v) = 4 + Len(bits) /\ \A i \in 1 .. Len(bits) : v[4 + i] = BitHolds(bits[i], st)
      BY ONLY <3>1, SigIs
    <3> QED BY <2>2, <3>2, <3>3
  <2>8. u # v
    <3>1. PICK m : m = Len(bits) /\ m \in 1 .. Len(bits) /\ bits[m] = b
      BY <1>3, <2>6
    <3> QED BY <2>1, <2>7, <3>1
  <2>9. Prefix(u, n) # Prefix(v, n)
    <3>1. Begins(u, u) /\ Begins(v, v)
      BY <2>7, BeginsItself
    <3>2. Len(u) = n /\ Len(v) = n
      BY <2>2, <2>7
    <3>3. Prefix(u, n) = u /\ Prefix(v, n) = v
      BY <3>1, <3>2 DEF Begins
    <3> QED BY <2>8, <3>3
  <2>10. n \in Nat /\ Len(key) <= n /\ Begins(key, v)
    <3>1. Begins(t, v)
      BY <1>1, <2>2, <2>4, SigGrows
    <3>2. Begins(key, v)
      BY <1>2, <1>3, <2>7, <3>1, BeginsOnward
    <3> QED BY <1>3, <2>2, <2>6, <2>7, <3>2 DEF Begins
  <2>11. Keyed(Split(key, st, bits, n), bits)
         /\ Cardinality(DOMAIN Split(key, st, bits, n)) = Cardinality(DOMAIN store) + 1
    <3>1. n \in Nat /\ n <= 4 + Len(bits) /\ Begins(key, Sig(st, bits))
          /\ Prefix(Sig(store[key].ex, bits), n) # Prefix(Sig(st, bits), n)
      BY <1>1, <2>2, <2>7, <2>9, <2>10
    <3>2. bits \in Seq(Bits) /\ Keyed(store, bits) /\ Len(key) <= n
      BY <2>5, <2>10
    <3> QED BY ONLY <3>1, <3>2, SplitKeeps
  <2>12. RefineVerdict(key, st) # "near-tie"
    BY <1>1, <1>6 DEF RefineVerdict
  <2> QED BY <2>3, <2>5, <2>11, <2>12
<1> QED BY <1>4, <1>5, <1>6

\* At a near-tie no bit of the library, minted or not, tells the two equations apart.
LEMMA NearTieIs ==
    ASSUME minted \in Seq(Bits), Keyed(store, minted), NEW key \in DOMAIN store, NEW st \in Equations,
           Begins(key, Sig(st, minted)), RefineVerdict(key, st) = "near-tie"
    PROVE  Sig(store[key].ex, Library) = Sig(st, Library)
<1>1. PICK old, s, t, d, more : /\ old = store[key].ex /\ s = Sig(old, minted) /\ t = Sig(st, minted)
                                /\ d = SplitDepth(key, s, t) /\ more = ToMint(old, st)
  OBVIOUS
<1>2. key \in Words /\ Begins(key, s) /\ Begins(key, t)
  BY <1>1 DEF Keyed
<1>3. s \in Words /\ t \in Words /\ Len(s) = 4 + Len(minted) /\ Len(t) = 4 + Len(minted) /\ Len(minted) \in Nat
  BY <1>1, SigIs
<1>4. d = 0 /\ more = << >>
  BY <1>1 DEF RefineVerdict
<1>5. s = t
  BY <1>1, <1>2, <1>3, <1>4, SplitDepthIs
<1>6. \A i \in 1 .. 4 : FirstBits(old)[i] = FirstBits(st)[i]
  <2>1. \A i \in 1 .. 4 : s[i] = FirstBits(old)[i]
    BY <1>1, SigIs
  <2>2. \A i \in 1 .. 4 : t[i] = FirstBits(st)[i]
    BY <1>1, SigIs
  <2> QED BY <1>5, <2>1, <2>2
<1>7. \A j \in 1 .. Len(minted) : BitHolds(minted[j], old) = BitHolds(minted[j], st)
  <2>1. \A i \in 1 .. Len(minted) : s[4 + i] = BitHolds(minted[i], old)
    BY <1>1, SigIs
  <2>2. \A i \in 1 .. Len(minted) : t[4 + i] = BitHolds(minted[i], st)
    BY <1>1, SigIs
  <2> QED BY <1>5, <2>1, <2>2
<1>8. Library \in Seq(Bits) /\ Len(Library) = 4 /\ DOMAIN Library = 1 .. 4
  BY DEF Library, Bits
<1>9. ASSUME NEW i \in DOMAIN Library PROVE BitHolds(Library[i], old) = BitHolds(Library[i], st)
  <2>1. Library[i] \in {minted[j] : j \in DOMAIN minted} \/ BitHolds(Library[i], old) = BitHolds(Library[i], st)
    <3>1. \A b \in Bits : more # <<b>>
      BY <1>4
    <3> QED BY <1>1, <3>1, ToMintIs
  <2>2. ASSUME Library[i] \in {minted[j] : j \in DOMAIN minted}
        PROVE  BitHolds(Library[i], old) = BitHolds(Library[i], st)
    <3>1. PICK j \in DOMAIN minted : Library[i] = minted[j]
      BY <2>2
    <3>2. j \in 1 .. Len(minted)
      BY LenProperties
    <3> QED BY <1>7, <3>1, <3>2
  <2> QED BY <2>1, <2>2
<1>10. PICK u, v : u = Sig(old, Library) /\ v = Sig(st, Library)
  OBVIOUS
<1>11. u \in Words /\ Len(u) = 8 /\ (\A i \in 1 .. 4 : u[i] = FirstBits(old)[i])
       /\ \A i \in 1 .. 4 : u[4 + i] = BitHolds(Library[i], old)
  <2>1. u = Sig(old, Library) /\ Library \in Seq(Bits)
    BY <1>8, <1>10
  <2>2. /\ u \in Words /\ Len(u) = 4 + Len(Library) /\ (\A i \in 1 .. 4 : u[i] = FirstBits(old)[i])
        /\ \A i \in 1 .. Len(Library) : u[4 + i] = BitHolds(Library[i], old)
    BY ONLY <2>1, SigIs
  <2> QED BY <1>8, <2>2
<1>12. v \in Words /\ Len(v) = 8 /\ (\A i \in 1 .. 4 : v[i] = FirstBits(st)[i])
       /\ \A i \in 1 .. 4 : v[4 + i] = BitHolds(Library[i], st)
  <2>1. v = Sig(st, Library) /\ Library \in Seq(Bits)
    BY <1>8, <1>10
  <2>2. /\ v \in Words /\ Len(v) = 4 + Len(Library) /\ (\A i \in 1 .. 4 : v[i] = FirstBits(st)[i])
        /\ \A i \in 1 .. Len(Library) : v[4 + i] = BitHolds(Library[i], st)
    BY ONLY <2>1, SigIs
  <2> QED BY <1>8, <2>2
<1>13. ASSUME NEW i \in 1 .. Len(u) PROVE u[i] = v[i]
  <2>1. CASE i <= 4
    <3>1. i \in 1 .. 4
      BY <1>11, <2>1
    <3> QED BY <1>6, <1>11, <1>12, <3>1
  <2>2. CASE i > 4
    <3>1. PICK j : j \in 1 .. 4 /\ i = 4 + j
      <4>1. i - 4 \in 1 .. 4 /\ i = 4 + (i - 4)
        BY <1>11, <2>2
      <4> QED BY <4>1
    <3> QED BY <1>8, <1>9, <1>11, <1>12, <3>1
  <2> QED BY <1>11, <2>1, <2>2
<1>14. u = v
  <2>1. u \in Seq(BOOLEAN) /\ v \in Seq(BOOLEAN) /\ Len(u) = Len(v)
    BY <1>11, <1>12 DEF Words
  <2> QED BY ONLY <1>13, <2>1, SeqEqual
<1> QED BY <1>1, <1>10, <1>14

\* What keeps the memory sound: its bits are of the library, its keys in order, and there is one
\* for every miss and every split.
Counts == [solves : Nat, miss : Nat, hard : Nat, soft : Nat, mints : Nat, ties : Nat, hardTies : Nat]
MemIInv ==
    /\ minted \in Seq(Bits) /\ Keyed(store, minted)
    /\ counts \in Counts /\ OneKeyEach
    /\ lastAnswer # << >> => lastAnswer.st \in Equations /\ lastAnswer.fin = Goal(lastAnswer.st)

\* At the start there is nothing.
LEMMA MemInitIs == MemInit => MemIInv
<1> SUFFICES ASSUME MemInit PROVE MemIInv
  OBVIOUS
<1>1. minted = << >> /\ store = << >> /\ lastAnswer = << >>
  BY DEF MemInit
<1>2. minted \in Seq(Bits)
  BY <1>1
<1>3. DOMAIN store = {} /\ IsFiniteSet({}) /\ Cardinality({}) = 0
  BY <1>1, FS_EmptySet
<1>4. Keyed(store, minted)
  BY <1>3 DEF Keyed
<1>5. counts \in Counts /\ OneKeyEach
  BY <1>3 DEF MemInit, Counts, OneKeyEach
<1> QED BY <1>1, <1>2, <1>4, <1>5 DEF MemIInv

\* Every answer is that of a road that lands.
LEMMA DeliversIs ==
    ASSUME NEW st \in Equations, NEW road, Delivers(st, road), WalkRoad(st, road).st = Goal(st)
    PROVE  lastAnswer'.st \in Equations /\ lastAnswer'.fin = Goal(lastAnswer'.st)
BY DEF Delivers

\* The counts are numbers.
LEMMA CountsAre ==
    ASSUME counts \in Counts
    PROVE  /\ counts.solves \in Nat /\ counts.miss \in Nat /\ counts.hard \in Nat /\ counts.soft \in Nat
           /\ counts.mints \in Nat /\ counts.ties \in Nat /\ counts.hardTies \in Nat
BY DEF Counts

\* A count more on both sides.
LEMMA Tallied ==
    ASSUME NEW a \in Nat, NEW b \in Nat, NEW c \in Nat, NEW d \in Nat, NEW e \in Nat, NEW n, n = a + b + c - d - e
    PROVE  /\ n + 1 = (a + 1) + b + c - d - e /\ n + 1 = a + (b + 1) + c - d - e /\ n = a + (b + 1) + c - d - (e + 1)
           /\ n + 1 = a + b + (c + 1) - d - e /\ n = a + b + (c + 1) - (d + 1) - e
OBVIOUS

\* A miss adds a key where none is in the way.
LEMMA MissKeeps ==
    ASSUME MemIInv, NEW st \in Equations, Miss(st)
    PROVE  MemIInv' /\ TiesTrue
<1>1. PICK s, p, e : s = Sig(st, minted) /\ p = StoredAt(s) /\ e = NewEntry(st)
  OBVIOUS
<1>2. Matching(s) = {} /\ store' = Put(store, p, e) /\ minted' = minted /\ Delivers(st, Search[st].road)
      /\ counts' = [counts EXCEPT !.solves = @ + 1, !.miss = @ + 1]
  BY <1>1 DEF Miss
<1>3. minted \in Seq(Bits) /\ Keyed(store, minted) /\ counts \in Counts /\ OneKeyEach
  BY DEF MemIInv
<1>4. NewKey(store, minted, p, e)
  BY <1>1, <1>2, <1>3, StoredAtIs
<1>5. KeyMore(store, minted, p, store')
  BY <1>2, <1>4, PutKeyed
<1>6. Keyed(store', minted') /\ Cardinality(DOMAIN store') = Cardinality(DOMAIN store) + 1
  BY <1>2, <1>5 DEF KeyMore
<1>7. counts' \in Counts /\ counts'.miss = counts.miss + 1 /\ counts'.hard = counts.hard /\ counts'.soft = counts.soft
      /\ counts'.ties = counts.ties /\ counts'.hardTies = counts.hardTies
  <2>1. counts.solves + 1 \in Nat /\ counts.miss + 1 \in Nat
    BY <1>3, CountsAre
  <2> QED BY ONLY <1>2, <1>3, <2>1 DEF Counts
<1>8. OneKeyEach'
  <2>1. PICK n : n = Cardinality(DOMAIN store) /\ Cardinality(DOMAIN store') = n + 1
                 /\ n = counts.miss + counts.hard + counts.soft - counts.ties - counts.hardTies
    BY <1>3, <1>6 DEF OneKeyEach
  <2>2. n + 1 = counts'.miss + counts'.hard + counts'.soft - counts'.ties - counts'.hardTies
    <3>1. PICK a \in Nat, b \in Nat, c \in Nat, d \in Nat, f \in Nat :
             a = counts.miss /\ b = counts.hard /\ c = counts.soft /\ d = counts.ties /\ f = counts.hardTies
      BY <1>3, CountsAre
    <3>2. n = a + b + c - d - f
      BY <2>1, <3>1
    <3>3. n + 1 = (a + 1) + b + c - d - f
      BY ONLY <3>2, Tallied
    <3> QED BY <1>7, <3>1, <3>3
  <2> QED BY <2>1, <2>2 DEF OneKeyEach
<1>9. lastAnswer'.st \in Equations /\ lastAnswer'.fin = Goal(lastAnswer'.st)
  BY <1>2, SearchIs, DeliversIs
<1>10. TiesTrue
  BY <1>7 DEF TiesTrue
<1> QED BY <1>2, <1>3, <1>6, <1>7, <1>8, <1>9, <1>10 DEF MemIInv

\* A road that fails is searched again, and its key split or at a near-tie left.
LEMMA HardKeeps ==
    ASSUME MemIInv, NEW st \in Equations, NEW key \in Matching(Sig(st, minted)), Hard(st, key)
    PROVE  MemIInv' /\ TiesTrue
<1>1. key \in DOMAIN store /\ Begins(key, Sig(st, minted))
  BY DEF Matching
<1>2. Refine(key, st) /\ Delivers(st, Search[st].road)
      /\ counts' = [counts EXCEPT !.solves = @ + 1, !.hard = @ + 1,
                                  !.hardTies = IF RefineVerdict(key, st) = "near-tie" THEN @ + 1 ELSE @]
  BY DEF Hard
<1>3. minted \in Seq(Bits) /\ Keyed(store, minted) /\ counts \in Counts /\ OneKeyEach
  BY DEF MemIInv
<1>4. /\ minted' \in Seq(Bits) /\ Keyed(store', minted')
      /\ Cardinality(DOMAIN store') = IF RefineVerdict(key, st) = "near-tie" THEN Cardinality(DOMAIN store)
                                      ELSE Cardinality(DOMAIN store) + 1
  BY <1>1, <1>2, <1>3, RefineKeeps
<1>5. counts' \in Counts /\ counts'.miss = counts.miss /\ counts'.hard = counts.hard + 1 /\ counts'.soft = counts.soft
      /\ counts'.ties = counts.ties
      /\ counts'.hardTies = IF RefineVerdict(key, st) = "near-tie" THEN counts.hardTies + 1 ELSE counts.hardTies
  <2>1. PICK n : n = IF RefineVerdict(key, st) = "near-tie" THEN counts.hardTies + 1 ELSE counts.hardTies
    OBVIOUS
  <2>2. n \in Nat /\ counts.solves + 1 \in Nat /\ counts.hard + 1 \in Nat
    BY <1>3, <2>1, CountsAre
  <2>3. counts' = [counts EXCEPT !.solves = counts.solves + 1, !.hard = counts.hard + 1, !.hardTies = n]
    BY <1>2, <2>1
  <2> QED BY ONLY <1>3, <2>1, <2>2, <2>3 DEF Counts
<1>6. OneKeyEach'
  <2>1. PICK n : n = Cardinality(DOMAIN store) /\ n = counts.miss + counts.hard + counts.soft - counts.ties - counts.hardTies
    BY <1>3 DEF OneKeyEach
  <2>2. CASE RefineVerdict(key, st) = "near-tie"
    <3>1. n = counts'.miss + counts'.hard + counts'.soft - counts'.ties - counts'.hardTies
      <4>1. PICK a \in Nat, b \in Nat, c \in Nat, d \in Nat, e \in Nat :
               a = counts.miss /\ b = counts.hard /\ c = counts.soft /\ d = counts.ties /\ e = counts.hardTies
        BY <1>3, CountsAre
      <4>2. n = a + b + c - d - e
        BY <2>1, <4>1
      <4>3. n = a + (b + 1) + c - d - (e + 1)
        BY ONLY <4>2, Tallied
      <4> QED BY <1>5, <2>2, <4>1, <4>3
    <3> QED BY <1>4, <2>1, <2>2, <3>1 DEF OneKeyEach
  <2>3. CASE RefineVerdict(key, st) # "near-tie"
    <3>1. n + 1 = counts'.miss + counts'.hard + counts'.soft - counts'.ties - counts'.hardTies
      <4>1. PICK a \in Nat, b \in Nat, c \in Nat, d \in Nat, e \in Nat :
               a = counts.miss /\ b = counts.hard /\ c = counts.soft /\ d = counts.ties /\ e = counts.hardTies
        BY <1>3, CountsAre
      <4>2. n = a + b + c - d - e
        BY <2>1, <4>1
      <4>3. n + 1 = a + (b + 1) + c - d - e
        BY ONLY <4>2, Tallied
      <4> QED BY <1>5, <2>3, <4>1, <4>3
    <3> QED BY <1>4, <2>1, <2>3, <3>1 DEF OneKeyEach
  <2> QED BY <2>2, <2>3
<1>7. lastAnswer'.st = st /\ lastAnswer'.st \in Equations /\ lastAnswer'.fin = Goal(lastAnswer'.st)
  BY <1>2, SearchIs, DeliversIs DEF Delivers
<1>8. TiesTrue
  <2>1. ASSUME RefineVerdict(key, st) = "near-tie" PROVE Sig(store[key].ex, Library) = Sig(st, Library)
    BY <1>1, <1>3, <2>1, NearTieIs
  <2> QED BY <1>1, <1>5, <1>7, <2>1 DEF TiesTrue
<1> QED BY <1>4, <1>5, <1>6, <1>7, <1>8 DEF MemIInv

\* What is served from the store leaves it as it is.
LEMMA ServedKeeps ==
    ASSUME MemIInv, NEW st \in Equations, NEW key \in Matching(Sig(st, minted)), Served(st, key)
    PROVE  MemIInv' /\ TiesTrue
<1>1. Lands(st, key) /\ Delivers(st, store[key].road) /\ store' = store /\ minted' = minted
      /\ counts' = [counts EXCEPT !.solves = @ + 1]
  BY DEF Served
<1>2. counts \in Counts /\ OneKeyEach
  BY DEF MemIInv
<1>3. counts' \in Counts /\ counts'.miss = counts.miss /\ counts'.hard = counts.hard /\ counts'.soft = counts.soft
      /\ counts'.ties = counts.ties /\ counts'.hardTies = counts.hardTies
  BY <1>1, <1>2 DEF Counts
<1>4. OneKeyEach'
  BY <1>1, <1>2, <1>3 DEF OneKeyEach
<1>5. lastAnswer'.st \in Equations /\ lastAnswer'.fin = Goal(lastAnswer'.st)
  BY <1>1, DeliversIs DEF Lands
<1>6. TiesTrue
  BY <1>3 DEF TiesTrue
<1> QED BY <1>1, <1>3, <1>4, <1>5, <1>6 DEF MemIInv

\* A road found too dear is delivered, and its key split or at a near-tie left.
LEMMA SoftKeeps ==
    ASSUME MemIInv, NEW st \in Equations, NEW key \in Matching(Sig(st, minted)), Soft(st, key)
    PROVE  MemIInv' /\ TiesTrue
<1>1. key \in DOMAIN store /\ Begins(key, Sig(st, minted))
  BY DEF Matching
<1>2. Lands(st, key) /\ Refine(key, st) /\ Delivers(st, store[key].road)
      /\ counts' = [counts EXCEPT !.solves = @ + 1, !.soft = @ + 1,
                                  !.mints = IF RefineVerdict(key, st) = "minted" THEN @ + 1 ELSE @,
                                  !.ties = IF RefineVerdict(key, st) = "near-tie" THEN @ + 1 ELSE @]
  BY DEF Soft
<1>3. minted \in Seq(Bits) /\ Keyed(store, minted) /\ counts \in Counts /\ OneKeyEach
  BY DEF MemIInv
<1>4. /\ minted' \in Seq(Bits) /\ Keyed(store', minted')
      /\ Cardinality(DOMAIN store') = IF RefineVerdict(key, st) = "near-tie" THEN Cardinality(DOMAIN store)
                                      ELSE Cardinality(DOMAIN store) + 1
  BY <1>1, <1>2, <1>3, RefineKeeps
<1>5. counts' \in Counts /\ counts'.miss = counts.miss /\ counts'.hard = counts.hard /\ counts'.soft = counts.soft + 1
      /\ counts'.hardTies = counts.hardTies
      /\ counts'.ties = IF RefineVerdict(key, st) = "near-tie" THEN counts.ties + 1 ELSE counts.ties
  <2>1. PICK m, n : /\ m = IF RefineVerdict(key, st) = "minted" THEN counts.mints + 1 ELSE counts.mints
                    /\ n = IF RefineVerdict(key, st) = "near-tie" THEN counts.ties + 1 ELSE counts.ties
    OBVIOUS
  <2>2. m \in Nat /\ n \in Nat /\ counts.solves + 1 \in Nat /\ counts.soft + 1 \in Nat
    BY <1>3, <2>1, CountsAre
  <2>3. counts' = [counts EXCEPT !.solves = counts.solves + 1, !.soft = counts.soft + 1, !.mints = m, !.ties = n]
    BY <1>2, <2>1
  <2> QED BY ONLY <1>3, <2>1, <2>2, <2>3 DEF Counts
<1>6. OneKeyEach'
  <2>1. PICK n : n = Cardinality(DOMAIN store) /\ n = counts.miss + counts.hard + counts.soft - counts.ties - counts.hardTies
    BY <1>3 DEF OneKeyEach
  <2>2. CASE RefineVerdict(key, st) = "near-tie"
    <3>1. n = counts'.miss + counts'.hard + counts'.soft - counts'.ties - counts'.hardTies
      <4>1. PICK a \in Nat, b \in Nat, c \in Nat, d \in Nat, e \in Nat :
               a = counts.miss /\ b = counts.hard /\ c = counts.soft /\ d = counts.ties /\ e = counts.hardTies
        BY <1>3, CountsAre
      <4>2. n = a + b + c - d - e
        BY <2>1, <4>1
      <4>3. n = a + b + (c + 1) - (d + 1) - e
        BY ONLY <4>2, Tallied
      <4> QED BY <1>5, <2>2, <4>1, <4>3
    <3> QED BY <1>4, <2>1, <2>2, <3>1 DEF OneKeyEach
  <2>3. CASE RefineVerdict(key, st) # "near-tie"
    <3>1. n + 1 = counts'.miss + counts'.hard + counts'.soft - counts'.ties - counts'.hardTies
      <4>1. PICK a \in Nat, b \in Nat, c \in Nat, d \in Nat, e \in Nat :
               a = counts.miss /\ b = counts.hard /\ c = counts.soft /\ d = counts.ties /\ e = counts.hardTies
        BY <1>3, CountsAre
      <4>2. n = a + b + c - d - e
        BY <2>1, <4>1
      <4>3. n + 1 = a + b + (c + 1) - d - e
        BY ONLY <4>2, Tallied
      <4> QED BY <1>5, <2>3, <4>1, <4>3
    <3> QED BY <1>4, <2>1, <2>3, <3>1 DEF OneKeyEach
  <2> QED BY <2>2, <2>3
<1>7. lastAnswer'.st = st /\ lastAnswer'.st \in Equations /\ lastAnswer'.fin = Goal(lastAnswer'.st)
  BY <1>2, DeliversIs DEF Delivers, Lands
<1>8. TiesTrue
  <2>1. ASSUME RefineVerdict(key, st) = "near-tie" PROVE Sig(store[key].ex, Library) = Sig(st, Library)
    BY <1>1, <1>3, <2>1, NearTieIs
  <2> QED BY <1>1, <1>5, <1>7, <2>1 DEF TiesTrue
<1> QED BY <1>4, <1>5, <1>6, <1>7, <1>8 DEF MemIInv

\* Every step keeps the invariant, and notes true ties only.
LEMMA MemStepKeeps == MemIInv /\ [MemNext]_memVars => MemIInv' /\ [TiesTrue]_memVars
<1> SUFFICES ASSUME MemIInv, [MemNext]_memVars PROVE MemIInv' /\ [TiesTrue]_memVars
  OBVIOUS
<1>1. CASE UNCHANGED memVars
  BY <1>1 DEF memVars, MemIInv, OneKeyEach
<1>2. CASE MemNext
  <2>1. PICK st \in Equations :
          \/ Miss(st)
          \/ \E key \in Matching(Sig(st, minted)) : Hard(st, key) \/ Served(st, key) \/ Soft(st, key)
    BY <1>2 DEF MemNext
  <2>2. MemIInv' /\ TiesTrue
    BY <2>1, MissKeeps, HardKeeps, ServedKeeps, SoftKeeps
  <2> QED BY <2>2
<1> QED BY <1>1, <1>2

\* A key that serves an entry's example is the entry's own.
LEMMA LearntStaysAt == ASSUME minted \in Seq(Bits), Keyed(store, minted) PROVE LearntStays
<1> SUFFICES ASSUME NEW k \in DOMAIN store
             PROVE  /\ Matching(Sig(store[k].ex, minted)) = {k}
                    /\ WalkRoad(store[k].ex, store[k].road).price = Search[store[k].ex].price
  BY DEF LearntStays
<1>1. PICK s : s = Sig(store[k].ex, minted)
  OBVIOUS
<1>2. s \in Words /\ k \in Words /\ Begins(k, s) /\ EntryOf(store[k])
  BY <1>1, SigIs DEF Keyed
<1>3. ASSUME NEW l \in DOMAIN store, Begins(l, s) PROVE l = k
  <2>1. l \in Words /\ Len(l) \in Nat /\ Len(k) \in Nat
    BY <1>2, LenProperties DEF Keyed, Words
  <2>2. Begins(k, l) \/ Begins(l, k)
    BY <1>2, <1>3, <2>1, BeginsBoth
  <2> QED BY <2>2 DEF Keyed
<1>4. Matching(s) = {k}
  BY <1>2, <1>3 DEF Matching
<1>5. WalkRoad(store[k].ex, store[k].road).price = Search[store[k].ex].price
  BY <1>2, SearchIs DEF EntryOf
<1> QED BY <1>1, <1>4, <1>5

\* What the invariant says of the memory.
LEMMA MemIInvSound == MemIInv => MemorySound
<1> SUFFICES ASSUME MemIInv PROVE MemorySound
  OBVIOUS
<1>1. minted \in Seq(Bits) /\ Keyed(store, minted) /\ OneKeyEach
      /\ (lastAnswer # << >> => lastAnswer.st \in Equations /\ lastAnswer.fin = Goal(lastAnswer.st))
  BY DEF MemIInv
<1>2. RoadsLand
  BY <1>1, RoadsLandAt
<1>3. AnswersExact
  BY <1>1 DEF AnswersExact
<1>4. PrefixFree
  BY <1>1 DEF PrefixFree, Keyed
<1>5. LearntStays
  BY <1>1, LearntStaysAt
<1> QED BY <1>1, <1>2, <1>3, <1>4, <1>5 DEF MemorySound

\* Whatever the equations are and in whatever order they come, answers are exact and what was
\* learnt is found again, at the price it was learnt for.
THEOREM MemorySoundTheorem == MemSpec => []MemorySound
<1>1. MemIInv /\ [MemNext]_memVars => MemIInv'
  BY MemStepKeeps
<1> QED BY <1>1, MemInitIs, MemIInvSound, PTL DEF MemSpec

\* eqmemory.py:140: where refine gives up, no predicate of the library tells the two apart.
THEOREM TiesTrueTheorem == MemSpec => [][TiesTrue]_memVars
<1>1. MemIInv /\ [MemNext]_memVars => MemIInv' /\ [TiesTrue]_memVars
  BY MemStepKeeps
<1> QED BY <1>1, MemInitIs, PTL DEF MemSpec
=============================================================================
