---------------------------- MODULE ExpertCache ----------------------------
(***************************************************************************)
(* The expert cache of crates/fetchbench/src/cache.rs (struct Lru) driven  *)
(* by run_cache and preload of crates/fetchbench/src/main.rs: a trace of   *)
(* routing decisions is replayed against a memory budget under one of five *)
(* replacement policies, and the replay is repeated `reps` times.          *)
(*                                                                         *)
(* A slab is a layer and a slot.  Ticks are replaced by the order they     *)
(* induce: `recency` lists the resident slabs, the oldest tick first.      *)
(* Scores are multiples of 1 / Scale, exact for the number of halvings a   *)
(* bounded trace allows.  A choice that depends on the iteration order of  *)
(* a HashMap, seeded anew for each map, is nondeterministic.               *)
(* GroupRuns shows that the reads cover exactly the slots wanted, in       *)
(* ascending order; so the slots admitted are the wanted ones in order.    *)
(***************************************************************************)
EXTENDS Integers, Sequences, FiniteSets, SequencesExt, FiniteSetsExt

CONSTANT
    Setups  \* models, traces and command lines, by number: records of
            \*   bytes       bytes_per_expert of each MoE layer, a sequence
            \*   slots, topK experts of a layer, and those of a token in it
            \*   tokens      of the trace
            \*   cap, pin    cap_bytes, and cap_bytes * pin_fraction for hybrid
            \*   halflife    accesses per halving, 0 for no ageing
            \*   dropDen     scores of at most 1 / dropDen are dropped: 1000 in the code
            \*   maySkip     lambda > 0: a cold expert of small mass may be skipped
            \*   policies    that are run
            \*   reps        a.reps

ASSUME SetupsAssumption == \A k \in DOMAIN Setups :
    LET s == Setups[k]
    IN  /\ s.bytes \in Seq(Nat \ {0}) /\ s.bytes # <<>>
        /\ {s.cap, s.pin, s.halflife} \subseteq Nat
        /\ {s.slots, s.topK, s.tokens, s.reps, s.dropDen} \subseteq Nat \ {0}
        /\ s.maySkip \in BOOLEAN
        /\ s.policies \subseteq {"lru", "static", "random", "hybrid", "decayed"}

VARIABLES
    setup, trace, policy,           \* chosen at the start
    recency, pinned, used,          \* entries by tick, pinned, used
    score, since,                   \* score, since_decay
    hits, misses, evictions,        \* counters of the cache
    fetched, skipped,               \* slabs read from disk, experts skipped
    n, j,                           \* request and index in it
    want, queue,                    \* slots to fetch; those still to admit
    rep, reports,                   \* replay number and results so far
    pc

args == <<setup, trace, policy>>
cache == <<recency, pinned, used, score, since, hits, misses, evictions>>
vars == <<args, cache, fetched, skipped, n, j, want, queue,
          rep, reports, pc>>

NLayers == Len(Setups[setup].bytes)
NSlots == Setups[setup].slots
TopK == Setups[setup].topK
Tokens == Setups[setup].tokens
Cap == Setups[setup].cap
Halflife == Setups[setup].halflife

Layers == 0 .. NLayers - 1
Slabs == Layers \X (0 .. NSlots - 1)
Size(slab) == Setups[setup].bytes[slab[1] + 1]
SizeOf(S) == MapThenSumSet(Size, S)

\* One token and layer: the experts in the order of their gate weight, and those
\* whose weight is not worth a fetch at this lambda.
Requests ==
    {q \in [ids : [1 .. TopK -> 0 .. NSlots - 1], light : SUBSET (0 .. NSlots - 1)] :
        /\ \A i, k \in 1 .. TopK : q.ids[i] = q.ids[k] => i = k
        /\ q.light \subseteq (IF Setups[setup].maySkip THEN ToSet(q.ids) ELSE {})}

\* Request m is the one of token (m - 1) \div NLayers in layer (m - 1) % NLayers.
NRequests == Tokens * NLayers
LayerAt(m) == (m - 1) % NLayers
Slab(m, slot) == <<LayerAt(m), slot>>

Scale == 2 ^ (IF Halflife = 0 THEN 0 ELSE (NRequests * TopK) \div Halflife)
ScoreOf(sc, slab) == IF slab \in DOMAIN sc THEN sc[slab] ELSE 0

Resident == ToSet(recency)
Place(slab) == CHOOSE k \in 1 .. Len(recency) : recency[k] = slab
Without(slab) == RemoveAt(recency, Place(slab))

-----------------------------------------------------------------------------
(* preload: pin the hottest slabs of the first half of the trace *)

Half == Max({1, Tokens \div 2})

Count(slab) ==
    Cardinality({at \in (1 .. Half * NLayers) \X (1 .. TopK) :
                    Slab(at[1], trace[at[1]].ids[at[2]]) = slab})

\* sort_by_key on the count is stable over the BTreeMap's (layer, slot) order.
Before(x, y) == x[1] < y[1] \/ (x[1] = y[1] /\ x[2] < y[2])
Hotter(x, y) == Count(x) > Count(y) \/ (Count(x) = Count(y) /\ Before(x, y))

\* Slabs are pinned in that order until one exceeds the budget or is refused.
Pins ==
    LET seen == {x \in Slabs : Count(x) > 0}
        upTo(x) == {y \in seen : y = x \/ Hotter(y, x)}
        budget == IF policy = "hybrid" THEN Min({Setups[setup].pin, Cap}) ELSE Cap
    IN  IF policy \notin {"static", "hybrid"} THEN {}
        ELSE {x \in seen : \A y \in upTo(x) : SizeOf(upTo(y)) <= budget}

\* Mutant: the counters of the replay before are kept.
PreloadKeepingCounters ==
    /\ pc = "preload"
    /\ pinned' = Pins
    /\ recency' = SetToSeq(Pins)
    /\ used' = SizeOf(Pins)
    /\ score' = [x \in {} |-> 0] /\ since' = 0
    /\ fetched' = 0 /\ skipped' = 0
    /\ n' = 1 /\ j' = 1
    /\ want' = {} /\ queue' = <<>>
    /\ pc' = "touch"
    /\ UNCHANGED <<args, hits, misses, evictions, rep, reports>>

\* Lru::new, then preload.  The order of the pinned is never looked at.
Preload ==
    /\ pc = "preload"
    /\ pinned' = Pins
    /\ recency' = SetToSeq(Pins)
    /\ used' = SizeOf(Pins)
    /\ score' = [x \in {} |-> 0] /\ since' = 0
    /\ hits' = 0 /\ misses' = 0 /\ evictions' = 0
    /\ fetched' = 0 /\ skipped' = 0
    /\ n' = 1 /\ j' = 1
    /\ want' = {} /\ queue' = <<>>
    /\ pc' = "touch"
    /\ UNCHANGED <<args, rep, reports>>

Init ==
    /\ setup \in DOMAIN Setups
    /\ trace \in [1 .. NRequests -> Requests]
    /\ policy \in Setups[setup].policies
    /\ recency = <<>> /\ pinned = {} /\ used = 0
    /\ score = [x \in {} |-> 0] /\ since = 0
    /\ hits = 0 /\ misses = 0 /\ evictions = 0
    /\ fetched = 0 /\ skipped = 0
    /\ n = 1 /\ j = 1
    /\ want = {} /\ queue = <<>>
    /\ rep = 1 /\ reports = <<>>
    /\ pc = "preload"

-----------------------------------------------------------------------------
(* One request: touch its experts, then admit the missing ones *)

\* observe: the slab's score grows by one; every Halflife accesses all scores
\* are halved and the smallest dropped.
Aged(sc) ==
    LET halved == [x \in DOMAIN sc |-> sc[x] \div 2]
        kept == {x \in DOMAIN sc : halved[x] * Setups[setup].dropDen > Scale}
    IN  [x \in kept |-> halved[x]]

Observe(slab) ==
    LET seen == [x \in DOMAIN score \cup {slab} |->
                    ScoreOf(score, x) + (IF x = slab THEN Scale ELSE 0)]
        ages == Halflife > 0 /\ since + 1 >= Halflife
    IN  IF policy = "decayed"
        THEN /\ score' = IF ages THEN Aged(seen) ELSE seen
             /\ since' = IF Halflife = 0 \/ ages THEN 0 ELSE since + 1
        ELSE UNCHANGED <<score, since>>

Hit ==
    /\ pc = "touch" /\ j <= TopK
    /\ LET slab == Slab(n, trace[n].ids[j])
       IN  /\ slab \in Resident
           /\ recency' = Append(Without(slab), slab)
           /\ Observe(slab)
    /\ hits' = hits + 1
    /\ j' = j + 1
    /\ UNCHANGED <<args, pinned, used, misses, evictions, fetched, skipped,
                   n, want, queue, rep, reports, pc>>

\* Under static every miss is a fetch; else one of small mass is skipped.
Skips(slot) == policy # "static" /\ slot \in trace[n].light

Miss ==
    /\ pc = "touch" /\ j <= TopK
    /\ LET slot == trace[n].ids[j]
       IN  /\ Slab(n, slot) \notin Resident
           /\ Observe(Slab(n, slot))
           /\ IF Skips(slot)
              THEN skipped' = skipped + 1 /\ UNCHANGED want
              ELSE want' = want \cup {slot} /\ UNCHANGED skipped
    /\ misses' = misses + 1
    /\ j' = j + 1
    /\ UNCHANGED <<args, recency, pinned, used, hits, evictions, fetched,
                   n, queue, rep, reports, pc>>

\* The reads are planned; each slot they cover is admitted in turn, except under
\* static, which admits nothing after preload.
StartAdmit ==
    /\ pc = "touch" /\ j > TopK
    /\ queue' = IF policy = "static" THEN <<>>
                ELSE [k \in 1 .. Cardinality(want) |->
                        CHOOSE x \in want : Cardinality({y \in want : y < x}) = k - 1]
    /\ pc' = "admit"
    /\ UNCHANGED <<args, cache, fetched, skipped, n, j, want, rep, reports>>

Newcomer == Slab(n, Head(queue))
Fits == used + Size(Newcomer) <= Cap
Evictable == Resident \ pinned

\* The slabs the policy may evict.  run_cache asks insert_with for a random
\* victim under the random policy only: hybrid evicts the oldest.
Coldest == {x \in Evictable : \A y \in Evictable : ScoreOf(score, x) <= ScoreOf(score, y)}
\* Mutant: the most recently used goes.
Newest == {x \in Evictable : \A y \in Evictable : Place(x) >= Place(y)}

Oldest == {x \in Evictable : \A y \in Evictable : Place(x) <= Place(y)}
Victims == CASE policy = "decayed" -> Coldest
             [] policy = "random" -> Evictable
             [] OTHER -> Oldest

\* Mutant: any newcomer may.
WorthwhileAlways(victim) == TRUE

\* insert_by_score: only a newcomer hotter than the victim may displace it.
Worthwhile(victim) ==
    policy = "decayed" => ScoreOf(score, Newcomer) > ScoreOf(score, victim)

\* Resident already, or larger than the whole budget.
Pass ==
    /\ pc = "admit" /\ queue # <<>>
    /\ Newcomer \in Resident \/ Size(Newcomer) > Cap
    /\ queue' = Tail(queue)
    /\ UNCHANGED <<args, cache, fetched, skipped, n, j, want, rep, reports, pc>>

Admissible ==
    pc = "admit" /\ queue # <<>> /\ Newcomer \notin Resident /\ Size(Newcomer) <= Cap

\* Mutant: the bytes of the victim stay charged.
EvictUncredited ==
    /\ Admissible /\ ~Fits
    /\ \E victim \in Victims :
           /\ Worthwhile(victim)
           /\ recency' = Without(victim)
    /\ evictions' = evictions + 1
    /\ UNCHANGED <<args, pinned, used, score, since, hits, misses, fetched,
                   skipped, n, j, want, queue, rep, reports, pc>>

Evict ==
    /\ Admissible /\ ~Fits
    /\ \E victim \in Victims :
           /\ Worthwhile(victim)
           /\ recency' = Without(victim)
           /\ used' = used - Size(victim)
    /\ evictions' = evictions + 1
    /\ UNCHANGED <<args, pinned, score, since, hits, misses, fetched, skipped,
                   n, j, want, queue, rep, reports, pc>>

Refuse ==
    /\ Admissible /\ ~Fits
    /\ \E victim \in Victims : ~Worthwhile(victim)
    /\ queue' = Tail(queue)
    /\ UNCHANGED <<args, cache, fetched, skipped, n, j, want, rep, reports, pc>>

\* Mutant: the loop does not give up.
InsertIfFits ==
    /\ Admissible /\ Fits
    /\ recency' = Append(recency, Newcomer)
    /\ used' = used + Size(Newcomer)
    /\ queue' = Tail(queue)
    /\ UNCHANGED <<args, pinned, score, since, hits, misses, evictions,
                   fetched, skipped, n, j, want, rep, reports, pc>>

\* It fits, or nothing is left to evict and the loop breaks.
Insert ==
    /\ Admissible /\ (Fits \/ Victims = {})
    /\ recency' = Append(recency, Newcomer)
    /\ used' = used + Size(Newcomer)
    /\ queue' = Tail(queue)
    /\ UNCHANGED <<args, pinned, score, since, hits, misses, evictions,
                   fetched, skipped, n, j, want, rep, reports, pc>>

\* read_all has read what was wanted, and the next request begins.
Read ==
    /\ pc = "admit" /\ queue = <<>>
    /\ fetched' = fetched + Cardinality(want)
    /\ want' = {}
    /\ n' = n + 1 /\ j' = 1
    /\ pc' = IF n < NRequests THEN "touch" ELSE "report"
    /\ UNCHANGED <<args, cache, skipped, queue, rep, reports>>

\* With one thread the first read error ends the command.  With several, read_all
\* returns Ok whatever it met (module ReadAll), and the step is Read.
ReadFails ==
    /\ pc = "admit" /\ queue = <<>> /\ want # {}
    /\ pc' = "failed"
    /\ UNCHANGED <<args, cache, fetched, skipped, n, j, want, queue, rep, reports>>

\* The replay is repeated with a new cache.
Report ==
    /\ pc = "report"
    /\ reports' = Append(reports, [hits |-> hits, misses |-> misses, fetched |-> fetched])
    /\ rep' = rep + 1
    /\ pc' = IF rep < Setups[setup].reps THEN "preload" ELSE "done"
    /\ UNCHANGED <<args, cache, fetched, skipped, n, j, want, queue>>

Next ==
    \/ Preload \/ Hit \/ Miss \/ StartAdmit
    \/ Pass \/ Evict \/ Refuse \/ Insert
    \/ Read \/ ReadFails \/ Report

Spec == Init /\ [][Next]_vars /\ WF_vars(Next)

-----------------------------------------------------------------------------
(* Properties *)

\* Ageing bounds the scores: at most two halflives of accesses count, so a slab
\* that was hot for long falls behind after a time that does not depend on how long.
ScoresBounded ==
    Halflife > 0 =>
        MapThenSumSet(LAMBDA x : score[x], DOMAIN score) < 2 * Halflife * Scale

TypeOK ==
    /\ ToSet(recency) \subseteq Slabs /\ pinned \subseteq Slabs
    /\ used \in Nat /\ since \in 0 .. Halflife
    /\ DOMAIN score \subseteq Slabs /\ \A x \in DOMAIN score : score[x] \in Nat \ {0}
    /\ {hits, misses, evictions, fetched, skipped} \subseteq Nat
    /\ n \in 1 .. NRequests + 1 /\ j \in 1 .. TopK + 1
    /\ want \subseteq 0 .. NSlots - 1 /\ ToSet(queue) \subseteq want
    /\ rep \in 1 .. Setups[setup].reps + 1 /\ Len(reports) = rep - 1
    /\ pc \in {"preload", "touch", "admit", "report", "done", "failed"}
    /\ ScoresBounded

\* `used` is kept by hand in four places; it is always the size of what is
\* resident, and no slab is resident twice.
UsedIsSum ==
    /\ used = SizeOf(Resident)
    /\ Cardinality(Resident) = Len(recency)

\* Where the loop that makes room gives up, and only there, the budget is
\* exceeded: by one newcomer beside slabs that are all pinned.
OverOnlyBesidePins == used > Cap => Cardinality(Evictable) = 1 /\ pinned # {}

\* What was pinned before the replay stays in memory whatever the trace asks
\* for, and the static policy holds nothing else.
PinnedStay ==
    /\ pinned \subseteq Resident
    /\ policy = "static" => Resident = pinned

\* The fixed memory budget of the cache: the bytes in use are those of the slabs resident,
\* they exceed the cap only beside pinned slabs (insert_with gives up making room,
\* cache.rs:193), what is pinned stays, and the scores keep their range (cache.rs:111).
BudgetKept == TypeOK /\ UsedIsSum /\ OverOnlyBesidePins /\ PinnedStay

\* Every expert of every request is a hit, a fetch or a skip, and just one of
\* them: the hit rate and the bytes per token are about the same accesses.
Accounted ==
    pc # "preload" =>
        /\ hits + misses = (IF pc \in {"report", "done"} THEN NRequests
                            ELSE n - 1) * TopK + j - 1
        /\ misses = fetched + skipped + Cardinality(want)

\* A request whose experts all fit beside the pinned slabs finds those it fetched and those it
\* hit in memory when its layer is computed: making room for one of its experts never throws out
\* another, not even one that was a hit.  (A random victim gives no such guarantee.  It would not
\* do that the experts worth a fetch fit: one of small mass that is a hit is recent as well.)
Asked == {Slab(n, trace[n].ids[k]) : k \in 1 .. TopK}

RequestServed ==
    /\ pc = "admit" /\ queue = <<>>
    /\ policy \in {"lru", "hybrid"}
    /\ SizeOf(Asked \cup pinned) <= Cap
    => {x \in Asked : ~Skips(x[2])} \subseteq Resident

\* Under ageing the hottest slab of all, once resident, is not displaced.
HottestStays ==
    [][\A x \in Resident :
          /\ policy = "decayed" /\ pc = "admit"
          /\ \A y \in Slabs \ {x} : ScoreOf(score, y) < ScoreOf(score, x)
          => x \in Resident']_vars

\* "The cache state is rebuilt each time, so the hit counts are identical and
\* only the timing varies."
RepsAgree == \A a, b \in 1 .. Len(reports) : reports[a] = reports[b]

\* It holds for the policies whose victim depends on the trace alone.
OrderedRepsAgree == policy \in {"lru", "static", "hybrid"} => RepsAgree

\* What run_cache prints is about one trace: each access counted once, and repetitions that
\* differ in time only.
ReportsSound == Accounted /\ OrderedRepsAgree

\* The replay ends.
Finishes == <>(pc \in {"done", "failed"})

=============================================================================
