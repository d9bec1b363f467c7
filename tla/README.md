# TLA+ verification of MPEqs

MPEqs is a set of tools for running mixture-of-experts language models whose experts do
not fit in memory. A trace of routing decisions is recorded (`moetrace`), the trace is
turned into an order of the experts on disk that makes their reads contiguous (`coact`), a
model file is rewritten into that order in place (`ggufperm`), and reading it back under a
memory budget is measured (`fetchbench`). Beside them stand a library of exact equation
solvers, unit conversions and a restricted interpreter (`python/mpeqs`), and a program that
measures distances between matrices (`matstruct`), and some two hundred experiments around language
models, a few of which keep a state worth getting right (`experiments/loopmem`).

The modules here model the parts of that code that change persistent files, share state
between threads, join what arrives in callbacks, keep accounts over long sequences of calls, or
compute something that a second, slower definition can check. TLC checks them on small
instances; TLAPS proves the ones named under *Proofs* for every instance.

Contents: [Inventory](#inventory), [Modules](#modules-and-their-code), [Runs](#runs),
[Bounds](#bounds), [Fairness](#fairness), [Abstractions](#abstractions),
[Findings](#findings), [Proofs](#proofs), [Only model-checked](#only-model-checked),
[Not modelled](#not-modelled), [Plan](#plan), [Running](#running).

## Inventory

### How the parts interact

```
 moetrace --trace file--> coact --layout.json--> ggufperm --rewrites--> model.gguf
    ^                       |                       |                      |
    |                       |                       +--sidecar (layout)    | gguf (tensor table)
 llama.cpp callbacks        +-- cost model, layouts --> fetchbench <-------+--reads

 a request --> mpeqs run2 --> solvers, search, calculus (symbolic, dual numbers, interpreter)
                        \--> units (one global graph)   pyspell (one shared store, threads)
```

The programs are separate processes that meet in files. The gguf crate (a header parser) tells
`ggufperm` and `fetchbench` where the experts of a layer lie. The layout document of coact
(`layout.rs`) is both the order a user asks for and the record, kept in a sidecar beside
the model, of the order the file is in. Nothing locks either file. Two chains cross several
parts and are modelled as compositions: from the callbacks through the two trace streams to
what coact loads (`MoeTrace` with `TraceReader`), and from the tensor table through the layout
search to the bytes a replay reads (`FetchPath`). `mpeqs` is one process; its solvers are
stateless, its unit graph and its store of functions are global.

### Components

| Component | State | Operations | What is hard | What makes it correct |
|---|---|---|---|---|
| ggufperm: `permute_tensor` (`ggufperm/src/main.rs:148-189`) | the tensor on disk, `visited`, the loop's slot, two block buffers | one cycle-following rewrite in place | a cycle overwrites a slot that is still needed; a failure between two writes | the tensor ends permuted; no slot is written twice; a failure loses at most one block |
| ggufperm: commands (`ggufperm/src/main.rs:66-354`) | model file, sidecar, a temporary file shared by all reverts | `init`, `apply`, `apply --dry-run`, `revert`, `verify --hash` | the file and the sidecar are two files that no operation changes together; commands run concurrently; a process dies anywhere | sidecar and file agree; the recorded hash is that of the download; revert says success only over the original bytes |
| coact: layouts (`coact/src/layout.rs`, `cost.rs:99-131`) | none of its own | load, save, validate, compose by `slot_of` | `fs::write` truncates before it writes; orientation of a permutation | what is loaded is a permutation or an error |
| coact: fetch cost (`coact/src/cost.rs:65-198`) | none | `max_gap`, `plan`, `evaluate` | rounding of the break-even gap | no other grouping costs less; the cost predicted is the cost of what is read |
| fetchbench: grouping (`cache.rs:285-324`, `main.rs:335-485`) | loop state | `runs`, `split_at_limit`, `build_ranges` | off-by-one at gaps and limits; several tensors and batches | each wanted slot is read once, within the limit; each wanted byte of each tensor once a batch |
| fetchbench: expert cache (`cache.rs:64-240`, `main.rs:747-1021`) | entries with ticks, pinned set, bytes used, aged scores, counters | `observe`, `touch`, `insert_with`, `insert_by_score`, `pin`, `preload`, `run_cache` | bytes counted by hand on four paths; eviction inside a request; ageing over long traces; repetitions | accounts equal what is resident; the budget; what is requested is in memory when it is used |
| fetchbench: threaded reads (`main.rs:491-525`, `nocache.rs:50-80`) | shared index and sum, per-thread position | `read_all`, `read_range` | threads; short reads; end of file; an error in one thread | every range once, sum exact, returns |
| fetchbench: calibrate, replay, reports | none | timing, printing | none beyond the above | |
| gguf (`crates/gguf`) | a parsed header | parse, validate, choose expert tensors, strides | tables with overlaps or odd sizes | slices of different experts are disjoint and exhaust the tensor |
| moetrace (`moetrace.c`) | pending layer, ids, norms, token base, record buffer, two output streams | one callback per tensor of a ubatch | the order of callbacks; a new ubatch is inferred; a failed decode; two streams with two budgets | each record joins ids, weights and norms of one token and layer; the streams stay aligned |
| coact: trace reader (`trace.rs`) | none | `load`, `load_raw` | truncated files, records out of layer order | a short file is refused; what is loaded is complete, in order |
| coact: layout search (`cluster.rs`) | graph, partial orders, the order held and its cost | `kernighan_lin`, `bisect`, `chain_order`, `greedy_refine`, `relocate`, `build` | small or disconnected graphs; a cost updated beside the order it belongs to | every proposal is a permutation; refinement ends at a local optimum no worse than its seeds |
| coact: analysis, reweighting, projection | none | statistics | floating point | |
| matstruct: hub labels, landmarks | matrices of small integers and floats | min-plus products, squaring | two formulas for the same distance | upper bounds never undercut the distance |
| matstruct: graphs, neighbours, metrics | none | measurement | floating point | |
| ballast | one allocation | hold memory | none | |
| mpeqs: PySpell (`pyspell.py`) | a cache of defined names under a lock, one store for all threads | `shared`, `define`, `call`, `prove_bijective` | the first use by two threads; the lock on an error path; the name is the key, the source is not | one store; a name never changes its meaning; locks come back |
| mpeqs: units (`units.py`) | a module-global conversion graph | `factor`, `path`, `compare`, `audit` | `audit` swaps the global graph while others convert; two ways that disagree | an answer is a product along a path of the graph; the audit puts the graph back and complains exactly |
| mpeqs: calculus (`calculus.py`) | a block interpreter with a budget | evaluation, symbolic derivative and simplification, dual numbers, polynomial integrals | the budget; `0^x`, `x^0`; loops that return, break or run out | the two derivatives agree; simplification keeps the value; a block runs as Python runs it |
| mpeqs: solvers (`solvers.py`, `solvers2.py`, `solvers3.py`, `__init__.py`) | none | some forty solvers over integers, fractions and polynomials; search over tuples; `run2`, which finds the solver meant | closed formulas at boundaries; requests that name the wrong solver; searches that stop at a budget | answers equal the definition; what has no answer is refused |
| experiments: work record (`loopmem/workpad.py`) | rows with operands, versions and stale marks; a memory of attempts | `append`, `undo`, `patch` | a correction marks rows transitively; keys name rows that change or go away | what is not stale follows from its operands; each row is consumed once; an attempt is known only on the premise it was made on |
| experiments: equation memory (`eqbricks.py`, `eqmemory.py`) | a store of roads under prefixes of signatures, bits added to the signature | moves, three fixed roads, `lookup`, `store_at`, `refine`, audits | keys are split and the signature grows while equations are served | every answer is exact; keys stay prefix-free; what was learnt is found again |
| experiments: brick routing (`bricks.py`, `bricks2.py`, `bricks3.py`, `brickassume.py`) | a frontier of types; a ledger of assumptions | `lift`, `route2`; `lazy_convert`, an answer and the reruns it causes | affine bricks, units below the line; several questions on one path | all roads agree; the default is the least; what is settled is final |
| experiments: islands (`islands.py`) | values, names being worked out; two rims of types | `solve_graph`, `route` | cycles, diamonds, missing names; the rim that ends first | an answer solves the system, a refusal names the culprit; a road can be driven |
| experiments: the rest, scripts, Makefile | | | outside the programs | |

The hazards, one by one and with their lines, are the `hazards` list of `PROJECT.json`; each
names the properties below that would catch it going wrong, or says why none does.

## Modules and their code

| Module | Models | State and actions |
|---|---|---|
| `PermuteTensor` | `permute_tensor` | `file` is the tensor on disk, `s`, `cur`, `visited`, `saved`, `block`, `moved` the locals, `pc` the point reached. `Skip`, `ReadSaved`, `ReadBlock`, `WriteBlock`, `WriteSaved`, `Finish` are the statements that touch the file or end a pass; `Fail` is an error or a kill at any read or write, which may tear the slot being written. `written` and `old` are history. |
| `CycleOrder` | the same function as an operator | `Permute`: the result. `CrashImages`: every tensor a failure can leave, computed from the order in which cycles and slots are visited. |
| `GgufPerm` | the commands | One process per command. A step is one file operation (test, load, hash, rewrite of one tensor, truncate, write, remove). `Fail` ends a process anywhere; inside a rewrite it leaves one of `CycleOrder!CrashImages`. |
| `Relabelling` | what `GgufPerm` promises | All tensors of a model and the recorded order change in one instant. |
| `GroupRuns` | `max_gap`, the loop of `plan`, `runs` and `build_ranges`, then `split_at_limit` | One pass of a loop per step: `Begin`, `Bridge`, `Cut`, `LastRun`, then `SplitRead`. The code has this loop three times; the map names all three. |
| `ExpertCache` | `Lru`, `preload`, `run_cache` | `setup` is the command line (trace, sizes, budget, policy). `recency` is the map of entries in the order of their ticks. A request of one token and layer is touched expert by expert (`Hit`, `Miss`, each with `Observe`), then admitted newcomer by newcomer (`Pass`, `Evict`, `Refuse`, `Insert`), then read. `Preload` builds a fresh cache, `Report` ends a repetition. |
| `ReadAll` | `read_all`, `read_range` | One process per worker: `Take` (fetch_add on the index), `Pread` (which may be short), `RangeDone` (fetch_add on the sum), `PreadFails`; `Join` is the end of the scope. |
| `GgufTable` | `validate`, the choice of expert tensors, strides | Operators over a table of tensors with offsets and sizes. |
| `FetchCost` | `plan` and `evaluate` | Their results as expressions; `GroupRuns` has the loop. |
| `LayoutSeeds` | `kernighan_lin`, `bisect`, `chain_order`, `frequency_order`, the graph of a trace | Operators; `bisect` returns the set of orders that some Fiedler vector leads to. |
| `LayoutSearch` | `greedy_refine` and how `build` seeds it | `p` is the order held, `best` its recorded cost, `sweep`, `improved`, `todo` the loop. `Seed`, `TrySwap`, `StartMoves`, `TryMove`, `EndSweep`. The cost is a parameter. |
| `FetchPath` | from the model file to the reads | `Open` (validate and choose tensors, or refuse), `Search` (a step of `LayoutSearch`), `StartReplay`, `StartBatch`, `Group` (a step of `GroupRuns`, by `INSTANCE`), `Emit` (the ranges of each run in each tensor), `EndReplay`. |
| `MoeTrace` | `moetrace_run`, the callback and `effective_max_tokens` | One step per callback: `Decode` sets the tensors of a ubatch to be computed, `TraceCb` handles the first that is left in the order `Before` (`Topk`, `WeightsFlushed`, `WeightsStashed`, `Down`, `Ignored`, `OutOfMemoryIn`), `DecodeReturns`, `DecodeFails`, `NextChunk`, `Cleanup`. The content of a tensor is where it came from: a layer and a token. |
| `TraceReader` | `Trace::load` | An operator over the trace `MoeTrace` leaves; `OfLayer` pushes the records of one layer. |
| `Units` | `units.py` | `graph` is the module's global: the set of its half-edges, each with its place, the list of a node being those at it in the order of their places. `Ask`, `Resolve` (one name per step), `Walk` (one node of the queue per step), `Unconnected` for a caller; `Audit`, then `Save`, `Swap`, a call and `Restore` for each entry of the table. |
| `PySpell` | the shared store and its users | `SharedTest`, `SharedOpen`, `SharedReturn` (the double-checked lock), `DefineEnter`, `DefineLocked`, `Query`, `CreateLens`; `ran` records what each call executed. |
| `Fractions` | the arithmetic of `fractions.Fraction` | External to the repository; reduced pairs. |
| `NumberSolvers`, `AlgebraSolvers`, `SeriesSolvers` | `solvers.py`, `solvers2.py`, `solvers3.py` | Each solver as an operator from a request to an outcome (an answer or a refusal), next to the definition it is compared with. |
| `SearchSolvers` | search over integer tuples, with objective and aggregate | The scan, its budgets, the choice among hits. |
| `Calculus`, `SpellInterpreter` | `calculus.py` | Symbolic derivatives and simplification, dual numbers; blocks with assignments, branches, loops, `break`, `continue`, `return` and a budget. |
| `Dispatch` | `run2` and the two machines of `__init__.py` | `Solve`, `Calculate`, `Again`: a request is sent to the solver it names, to one its shape fits, or refused. |
| `WorkPad` | `workpad.py` | `rows` is the record, `explored` the attempts by key. `PadAppend` (accepted or refused, if not tried before), `PadUndo`, `PadPatch` with all it marks and frees. |
| `EqMemory` | `eqmemory.py` and the moves and fixed roads of `eqbricks.py` | An equation is four fractions. `store` and `minted`; an equation is a `Miss`, `Hard` (the road fails), `Served`, or `Soft` (an audit finds a cheaper road). |
| `BrickRoute` | `lift`, `route2` | `frontier` and `seen`, one step of the search per step (`Expand`). |
| `BrickLedger` | `lazy_convert` and the driver of `brickassume.py` | `Convert` for each path, then `Settle` with its reruns. |
| `IslandGraph` | `solve_graph` | The recursion of `resolve` as `stack`; `Refer`, `Evaluate`, `RunMachine`. |
| `IslandRoute` | `route` of `islands.py` and its table | `Forward`, `Backward`, `Meet`. |
| `MCMpeqs` | one Python process, which uses mpeqs or runs an experiment | The conversion graph, the store, the solvers and the experiments share no state, so `which` picks the one a behaviour exercises; every part's actions, properties and fairness are kept. |
| `*Proofs` | | theorems and their proofs |
| `FiniteFacts` | | what the proofs need to know of finite sums and orders, of the cycles of a permutation, and of `CycleOrder` |
| `MC*` | | instances for TLC |

The modules compose as follows.

* `GgufPerm` uses `CycleOrder` for the effect of one tensor's rewrite, complete or interrupted.
  That this is what `permute_tensor` does is checked in run `permute_tensor` and proved: `Rewritten`
  says what is there at the end, `OnlyCrashImages` that at every step the tensor is one of the images. `GgufPerm`
  implements `Relabelling` under the mapping `BytesBar`, `OrderBar`: a command takes effect when
  it empties the old sidecar, and tensors rewritten before that count as undone. This too is proved.
* `FetchPath` extends `LayoutSearch`, instantiates `GroupRuns` and uses `GgufTable`, `FetchCost` and
  `LayoutSeeds`. That it implements `LayoutSearch!SearchSpec` is proved.
* `MoeTrace` is joined with `TraceReader`: what a run leaves, complete or cut short by a
  failure, is what the reader is given.
* `ExpertCache` admits the wanted slots in ascending order, each once, which is what `GroupRuns`
  shows of runs and reads; `ReadAll` reads the ranges `GroupRuns` and `FetchPath` produce, and,
  more generally, any ranges.

* A machine in `IslandGraph` is a request to `run2`, which is module `Dispatch`; here it answers or
  refuses.

Definitions whose comment begins with *Mutant* are plausible mistakes in the definition
below them. They are used by no specification; replacing the definition by its mutant makes
TLC report the property the mutant is listed with.

## Runs

| Run | Instance | Shows |
|---|---|---|
| `permute_tensor` | every permutation of 4 slots, every content of 4 blocks, a failure at any read or write | `Rewritten` (on Ok: the order and the count printed), `FailureContained` (each slot but one is old or final, one block at most is lost), `OnlyCrashImages`, `WriteOnce` |
| `ggufperm_quiet` | 2 processes, 2 models of 2 layers of 3 experts, at most one command per model, no failure | `SidecarTrue` (the sidecar names the order the file is in; no command raises a false alarm), `ImplementsRelabelling`; the temporary file that all reverts share does no harm here, because the identity is the same document but for its hash, and a foreign hash is refused |
| `ggufperm_crash` | 1 model, 2 failures anywhere, commands rerun at will | `BaselineKept`, `LossBounded` (each failure costs at most one block, however often commands are rerun over a half-rewritten file), `RevertHonest`, `RevertSucceeds` |
| `group_runs` | every set of slots below 8, 18 cost models, 3 limits | `Grouped` (nothing missed, runs worth reading and apart), `Cheapest` (against the cheapest of all groupings), `SplitExact` |
| `cache` | every trace of 4 tokens of 2 of 3 experts replayed twice; the same with misses skipped; every trace of 3 tokens over 3 layers with slabs of 1, 3 and 9 units; all five policies | `BudgetKept` (the budget is passed only where nothing but pinned slabs is left), `RequestServed`, `ReportsSound` (each access is a hit, a fetch or a skip; the ordered policies repeat their counts), `HottestStays`, `Finishes` |
| `read_all` | every plan of up to 3 ranges that overlap, straddle or lie behind the end of the file, 1 to 3 threads, 2 errors | `ReadOnce`, `LostOnlyByErrors`, `Returns` |
| `moe_trace` | texts of 5 tokens in ubatches of 2, seven models, every kind of limit, with and without contributions and vectors, two faults | `Traced` (records join what belongs together; the two streams stay aligned; what is missing was cut by a limit or a failure), `LoadedRight` (what coact loads is in layer order, even and whole) |
| `fetch_path` | 108 tensor tables, layers of 3 and 4 experts searched, 5 and 6 proposed, 4 replays | `SeedsSound`, `LayoutSound`, `FetchedAsPlanned` (the bytes wanted are read once a batch, token by token at the cost predicted, in batches at no more) |
| `mpeqs` | a caller beside an auditor over six tables; two threads on the spell store; some two thousand requests; or one experiment: five calls on a record of two givens, six of eight equations with any audits, every pair of 22 types over three dimensions, two conversions over any paths of three bricks with any answer, every system of three definitions, every list of three types | `ConversionsDerived`, `AuditExact`; `NamesForGood`; `AsMeant`, `SolversExact` (`SearchComplete` among its parts), `CalculusAgrees`; `RecordSound`, `MemorySound`, `LedgerSound`, `ResolvedRight`, `WaysFound` (their parts below); `EveryCallReturns` |
| `ggufperm_crash_step` | one failure | a counterexample to `InStep` |
| `ggufperm_init_race` | two processes on one model | a counterexample to `BaselineKept` |
| `read_all_errors` | two threads, one error | a counterexample to `EveryRangeIssued` |

The properties of the experiments are conjunctions of named parts:

* `RecordSound`: a row that is not stale holds what its operator makes of its operands now
  (`ValueFollows`); unless a stale row was corrected itself, nothing live rests on a stale row
  (`NothingLeftStanding`) and a row is consumed exactly if one live row is derived from it
  (`ConsumedOnce`); what is known of an attempt was tried on the values its operands hold now, unless
  one took the number of a row undone (`PremiseKept`). The two exceptions are under *Findings*.
* `MemorySound`: the three fixed roads end in the same solution (`RoadsLand`); every answer is exact,
  whatever road was offered (`AnswersExact`); no key begins another (`PrefixFree`); an entry serves
  the equation it was made from at the best price (`LearntStays`); a key for each miss and each split
  (`OneKeyEach`). That a road that fails can be told from the one it was learnt on is not so
  (`FailuresSplit`, under *Findings*).
* `LedgerSound`: what is assumed is the least any answer gives (`DefaultLowest`), what carries no
  pending flag is final (`SettledIsFinal`), and the ledger holds what a rerun gives where one question
  is open (`CounterfactualExact`).
* `ResolvedRight`: an answer solves the system of definitions (`AnswerSolves`), a refusal names what is
  wrong (`RefusalNamesCulprit`). That resolving them ends is part of `EveryCallReturns`.
* `WaysFound`: all roads over bricks to a type agree with the true conversion (`RouteExact`), and there
  is one exactly where there is a conversion (`RoadIffConvertible`); a road over machines can be driven
  (`RoadDelivers`), and none is denied that the machines allow (`NoRouteNone`).

The type invariants are invariants of their own (`TypeOK` in `read_all`, `MpeqsTypeOK`) or the first
conjunct of another property (`BudgetKept`, `Traced`, `LossBounded`). Deadlock is checked in the
`ggufperm` runs: a user can always start a command. The other runs model functions that return, or
a bounded number of calls, so their cfgs switch it off.

## Bounds

* **Four slots** are the least with two cycles of length two, a cycle beside a fixed point,
  and a cycle of four; with four blocks the contents include all-different and partly equal
  ones. The proofs remove the bound.
* **Three experts** in `ggufperm_quiet` and `ggufperm_crash` give permutations that are not
  their own inverse, without which a layout composed the wrong way round goes unnoticed. Two
  layers tell a layer's permutation from its neighbour's; two models are needed for the
  shared temporary file to be anybody else's.
* **`MaxFailures = 2`**: a second failure hits a file the first left half-rewritten. The
  layouts offered generate all orders, and include one document for each of apply's checks
  that must refuse it (`Refused`).
* **Slots below 8**, gaps 0 to 5: every gap below, at and above the break-even, in the
  middle and at both ends; byte cost 0 (no bridging), quotients exact and rounded.
* **Caches** of two or three slabs with one pinned: everything evictable, nothing evictable
  and a newcomer larger than the budget all occur. Three tokens over three layers are nine
  accesses, three halvings of the scores and, with `DropDen = 4`, dropped scores.
* **Files** of 5 bytes in units of 2 with buffers of up to 8 bytes, `MaxThreads = 3`,
  `MaxErrors = 2`: ranges begin and end off the boundary, the file ends off it, a range needs
  several preads, and one worker is left after two errors.
* **`fetch_path`**: four experts are the least with two non-trivial halves; bisection and chaining
  are also tried on six, and on five with nothing to learn from. The tables include overlaps, gaps
  too wide for the alignment, tensors behind the end of the file, and a size that three does not
  divide. `Outermost` stands for the shuffle that orders the trials: in it and its reverse every
  pair comes before and after every other. Replays take three tokens in batches of 1 and of 2, the
  last one short, with the gap of the cost model or a fixed one.
* **`moe_trace`**: five tokens at `NUbatch = 2`, `NCtx = 4` give two chunks, a full and a short
  ubatch, and a limit inside, at and behind each of them. Two faults: a failure after a failure.
* **`mpeqs`**: `MaxCalls = 2` conversions beside one audit, `MaxJobs = 2` spells per thread,
  `MaxStores = 2` (a second store would show). The tables hold a tree with an island, entries that
  disagree, cycles, a chain, a pair written twice, ways of different length. The solvers' own limits
  are constants: `SpellBudget = 60`, `TupleBudget = 40` and `MaxIterations = 10` are reached by some
  requests and not by others; `MaxFactorN = 2000`, `MaxDivisors = 8` and `AreaDigits = 100` bound what
  is factored, scanned and squared; one float grain is 1/1024. `MaxRepairs = 1` lets a request be
  sent once more under a wrong name.

* **Experiments**: `MaxPadCalls = 5` calls on a record of two givens, one of which (`MaxRefused = 1`) is
  refused and remembered, allow a row over a row over a row, a correction of each and one more call.
  `MaxSolves = 6` equations fill the store, split keys and add bits; the eight there are differ in every bit
  of the signature and of the library, four of them, and two others, agree in the four bits there are at first,
  and two of these four in all of the library too. Every
  conversion of a rate needs at most six of the ten steps of `route2`. Three bricks cross two questions
  with a plain one between them, or one twice; two computations (`Computations`) share questions or
  do not. Three definitions make a cycle of three, a diamond and a cycle beside the answer. The search over
  types ends within its six rounds; its budget of 20000 cells is above what six rounds can ask for
  and is left out.

`MaxFailures`, `MaxErrors`, `MaxFaults`, `MaxCalls`, `MaxJobs`, `MaxPadCalls`, `MaxSolves`, tokens and repetitions are the only
bounds on behaviours; the rest are sizes. In `ggufperm_crash` and `ggufperm_quiet` commands may be
started without limit.

## Fairness

* `ExpertCache`: weak fairness of the function's own steps. It is sequential code in a thread that
  the scheduler runs.
* `GgufPerm`: weak fairness of `Step(p)` for each process: a started command keeps running.
  Nothing obliges a user to start one, and nothing obliges a failure to happen.
  `RevertSucceeds` starts from a revert under way.
* `ReadAll`: weak fairness of each worker and of the join. A pread returns; nothing is
  assumed about how much it reads, except that it reads something before the end of the file.
* `Units`, `PySpell`: weak fairness of each thread inside a call. It is enough although threads
  wait for locks: a thread that holds one gives it back by steps of its own, and the number of calls
  is bounded, so no thread can be overtaken for ever.
* `IslandGraph`: weak fairness of its steps, for the same reason as `ExpertCache`.
* `PermuteTensor`, `GroupRuns`, `MoeTrace`, `LayoutSearch`, `FetchPath` and the other modules of the
  experiments state none: their loops run
  over finite lists, and nothing about their ending is checked but what they return.

## Abstractions

* SHA-256 is injective: the hash of a file is its content (with the model's name).
* In `GgufPerm` the rewrite of one tensor is one step, checked against `PermuteTensor` as
  described above. What a concurrent reader sees inside a tensor is therefore not modelled.
  Layers whose permutation is the identity are skipped by the code and rewritten without
  effect by the model.
* A failure is an error return or a kill of the process: what was written stays. Loss of power,
  where the file system may reorder writes, is not modelled; `sync_all` therefore
  has no effect here.
* A JSON document is a value, absent, or torn (does not parse).
* Costs are integers, and so are the weights of the co-activation graph: counts, without the
  weighting by gates and the sharpening. A score is a multiple of `1 / Scale`, exact for the halvings
  a bounded trace allows; the code's `f64` is exact for these too.
* The Fiedler vector is any vector: `bisect` is checked for every first split, refined by
  `kernighan_lin`. Random layouts, a baseline for comparison, are represented by the reverse order.
* Ticks are replaced by the order they induce. The iteration order of a `HashMap`, which
  Rust seeds anew for each map, is a nondeterministic choice.
* `ExpertCache!ReadFails` is the read error of a single thread, which ends the replay; with
  several threads an error is only printed (`ReadAll`), which for the cache is a `Read`.
* Sizes in a tensor table do not wrap, and `split_at_limit`'s truncation of the limit in slots to
  32 bits is left out; both matter from 2^32 on.
* In `MoeTrace` the tensors of a ubatch arrive in the order of llama.cpp's graph, layer by layer, which
  the repository relies on and does not fix; a value read from a tensor is the pair of layer and token
  it was computed for, and a buffer that was not filled holds `Junk`.
* In `mpeqs` numbers are exact fractions, as in the code; a float answer is taken as the multiple
  of `1 / FloatGrain` next to it. Requests are records, not text: parsing and formatting are left out.
* In `WorkPad` what a model proposes is any step. Whether an equation is audited in `EqMemory` is a choice, not a draw of a quarter.
* In `BrickRoute` the transform kept for a type, of the several found in one step, is any of them. Rates
  are small numbers in place of the real ones; the units are those of the registry.
* In `IslandGraph` a value is a number or an answer in words, of which the words matter that an expression
  finds in it; references of one length are followed in any order (the code orders them by length only);
  whether a text without names is arithmetic, and whether it then divides by zero, is open. `IslandRoute` has
  the code's table, with one machine for those that eat and leave the same.
* Time, bandwidth and printed reports are left out.

## Findings

Each is a violation run whose trace is a behaviour of the code:

1. `ggufperm_crash_step`: tensors are rewritten in place, then the sidecar is saved
   (`ggufperm/src/main.rs:264`). A failure in between leaves a permuted file under the old
   sidecar, although the comment at `:273` says they are never out of step. A later `apply` composes
   with the wrong order and reports success.
2. `ggufperm_init_race`: `init` tests for a sidecar (`:106`), hashes for minutes, then
   writes. A second `init` and an `apply` in between make it record the hash of the permuted file
   as the original one, over what `:108` calls a known-good baseline.
3. `read_all_errors`: with several threads a read error is printed and dropped (`main.rs:515`); the
   caller gets `Ok` and divides the planned bytes by the time of part of the plan (`:616`).

The following disagreements are stated as definitions that do not hold of the code; each is seen by
adding the definition to the INVARIANTS of the run named, two of them with another constant besides.

| Definition | Run | What the code does |
|---|---|---|
| `RepsAgree` | `cache` | The random victim is an index into the keys of a `HashMap`, whose order differs from map to map (`cache.rs:195`), so repetitions do not have "identical" hit counts (`fetchbench/src/main.rs:903`). |
| `CompleteIfReported` | `moe_trace` | An allocation that fails turns recording off for the rest of the run (`overflow`), and the run still returns the number of records; only a failed decode is reported "so the caller does not treat a truncated run as complete" (`moetrace.c:519-523`). |
| `MaxTokensKept` | `moe_trace` | With `--vecs`, the smaller of `--max-tokens` and `--vec-tokens` is the limit of both streams (`moetrace/src/main.rs:100-108`); with `--vec-tokens 0`, "no limit", that is 0, and `--max-tokens` is ignored. |
| `CallRunsItsSource` | `mpeqs` | The store remembers functions by name: a second source with the same name is never compiled, and a call runs the first (`pyspell.py:150`). |
| `AuditReportsDisagreement` | `mpeqs` | The audit removes an entry together with its twin, so a pair written twice with different factors is not reported (`units.py:33-36`). |
| `DivisionExact` | `mpeqs` | Integer literals are wrapped as fractions so that `/` is exact (`solvers2.py:73`, `:132`), variables of a search are not: the quotient of two of them is a float. |
| `AreasExact` | `mpeqs` | Under the title "exact coordinate geometry", the area of a triangle given by its sides is cut to six digits, or called irrational when only its square is not whole (`solvers2.py:377`, `:410-417`). |
| `NeverGuesses` | `mpeqs` | `run2` sends a request that the solver it names refuses to another whose keys fit, and gives that answer, although `__init__.py:4-6` says the library never guesses and that a refusal is the signal. |
| `NothingEverStanding` | `mpeqs` | `patch` clears the mark of the row it corrects without asking whether its operands are stale (`workpad.py:173`): a row that rests on a stale row is live again, although "nothing derived from it is quietly left standing" (`:163-164`). |
| `TriedOnThese` | `mpeqs` | `undo` gives the number of the row it drops to the next row, version 0, while the memory of attempts keeps the keys of the old one (`workpad.py:155`): a step never tried is refused as tried "on the CURRENT premise" (`:100`). |
| `FailuresSplit` | `mpeqs` | An equation on which a stored road fails is searched again and the store is not split, when no bit of the library tells it from the one the road was learnt on; `run_stream` drops the verdict of `refine` (`eqmemory.py:175`), although it is "re-search, split" (`:29`), and searches again whenever such an equation comes. 5/6 x + 1/2 = 1/2 x + 5/2 after 5/6 x + 1/2 = 1/3 x + 5/2 is one; both are among those `gen_plain` draws, for which one road is said to be best (`:12`). |
| `MintsCounted` | `mpeqs` | A split below the fourth bit is reported as a bit minted, also when none was (`eqmemory.py:144`), against the count it reports (`:272-273`). |
| `CoversCompounds` | `mpeqs` with `BrickTypes <- MCRatios` | Units that cancel on the way leave a type no brick leaves (`bricks.py:70`): there is no route from ml/litre to gallon/litre, nor from g/kg to ounce/kg, though the facts "cover unbounded compound space" (`:61-62`). |
| `EveryCounterfactual` | `mpeqs` | The value of the other branch is carried over later two-sided edges as they are quoted (`brickassume.py:60-62`), not at the lower side as the comment above says, and the rerun does not reproduce it "to the digit" (`:22`). |
| `MissingIsMissing` | `mpeqs` | A definition that names itself is said not to be defined (`islands.py:187`, `:206`). |
| `CycleIsCycle` | `mpeqs` with `Bodies <- MCSlotBodies` | The name of a slot counts as a reference (`islands.py:170`, against `:167`), and a system that has an answer is refused as circular. |
| `EachConsumedOnce` | `mpeqs` | A machine that eats two dates is taken with one held (`islands.py:251`), although "each island [is] consumed once" (`:24`). |

Smaller ones met on the way, without a definition:

* fetchbench: `insert_with` gives up making room when everything resident is pinned and inserts all
  the same (`cache.rs:193`), though its comment at `:176` says it evicts until it fits; `BudgetKept`
  shows that this is the only way over the budget. The comment at `cache.rs:36` says that what
  hybrid does not pin is evicted at random, the code evicts by recency. The comments at
  `cache.rs:3-6` and `main.rs:973` count on the neighbours read between two wanted slots being admitted
  for free, while `runs` is called with a gap of 0 over the misses alone.
* ggufperm: a document with a layer the model does not have is accepted, and saved with it;
  `is_identity` looks at that layer too, so `verify --hash` may call an untouched file out of step. The
  documents of coact have no such layer, and `TargetsAssumption` excludes them.
* moetrace: with contributions, a model whose weights tensor is turned down by the callback leaves
  stashed ids without weights; `RecordsJoin` states the exception.
* units: two audits at once can leave an edge out of the graph for good, since each restores
  the copy it took. The run therefore has one auditor.
* solvers: the check digit of `luhn` is computed of a number that has it already and is always 0; the
  verification of a sequence of four terms compares nothing; Roman numerals accept "IC"; motion from
  a negative speed without acceleration is mistreated; a partition counts equal parts twice when
  they are listed twice; an objective that divides by zero drops the hit without a word; a numeral
  such as "1e5" is read as a fraction; `gcd` refuses a fraction that is whole.
* calculus: at 0, `x^0` is refused by the symbolic derivative and differentiated by the dual
  numbers; a `return` without a value, or a `break` outside a loop, ends a block quietly.

## Proofs

Checked by TLAPS for every value of the constants that meets the named assumptions.

### Induction over data

The theorems of the library that state induction take a predicate as a parameter, and no installed
prover instantiates one. Where a fact about a sum or an iteration needs induction, `FiniteFacts` and the
proofs that use it argue by a smallest counterexample instead: the numbers, or the subsets
of a finite set, for which the claim fails are a set, and if it is not empty it has a minimal element
(`NatLessThanWellFounded`, `FS_StrictSubsetOrderingWellFounded`). What is proved there of every finite
set and permutation:

* the sum over a set, which the models take by folding, adds up over a partition and one element
  at a time, and is monotone; sums of sums and of products, and what it counts;
* a finite set with a total order has a first element, and the number of elements before one is its
  place (`PlacesAre`, `MaxIs`);
* the orbit of a slot under a permutation returns to it, visits no slot twice before, and is
  the cycle `CycleOrder` computes; cycles are disjoint and each has a leader; rewriting in the
  order of the cycles gives `Permute`, which only moves blocks, and wherever the rewriting is stopped
  all blocks but one are still there (`PermutesOnto`, `RewriteMoves`, `ImageLosesOne`, `CrashLosesOne`).

### From one write to the promise of the commands

**`PermuteTensorProofs`**, from `NAssumption` (`N` is a natural number) and `TornAssumption` (a
torn slot is no block): `TypeCorrect`, `PermutedTheorem`, `RewrittenTheorem`,
`FailureContainedTheorem`, `PartlyPermutedTheorem`, `AtMostOneLostTheorem`, `MovedExactTheorem`,
`WriteOnceTheorem`, `OnlyCrashImagesTheorem`. None of these is inductive, for they do not say why the
slot about to be overwritten has been copied. The invariant `Core` follows the cycles: outside a cycle
`visited` is closed under the permutation in both directions (`VisitedClosed`); inside one it is closed
but for one open edge, from the last slot visited to the slot `Head` to be filled next (`Chain`). The
permutation being injective, `Head` is unvisited, hence still holds its old block, unless it is the start
of the cycle, whose block is in `saved`. There is one lemma per action; `FailContents` adds the
failure, at which one block at most is in memory only. For `OnlyCrashImages` the invariant
also says where on the cycle the loop is (`Trail`): the slots written are those of the cycles
before `s` and the first slots of the path from `s`, up to the one in transit.

**`GgufPermProofs`** has three parts, for any number of processes, models, experts, layers, tensors
and failures. The assumptions are `ModelsAssumption` (there is a model to name), `MarkersAssumption` (a
document is no marker), `SizeAssumption`, `MaxFailuresAssumption` and `TargetsAssumption` (what is passed to apply parsed, holds
permutations and names layers of the model).

* *What survives failures*, with one command at a time on a model (`OnePerModel`):
  `BaselineKeptTheorem`, `RevertHonestTheorem`. The hash is taken once, by `init`, while there is no
  sidecar; until there is one nothing may write the file (`Unrecorded`), and nobody else is at
  work on it (`Exclusive`), so it is the hash of the download. Each process is then shown to carry
  that hash from the sidecar it read to the one it writes (`Trusted`). Nothing about the effect of a
  rewrite is needed. `ggufperm_init_race` shows that `OnePerModel` is necessary.
* *What failures lose*: `LossBoundedTheorem`, which does without `OnePerModel`. By itself the bound is not
  inductive: it holds because every document on disk or in the hands of a command is a permutation
  (`Sound`), so that each rewrite, of blocks in whatever order earlier failures and other commands left
  them, moves blocks and loses none, and one that stops holds all blocks but one (`CrashLosesOne`).
  With `OnlyCrashImagesTheorem` this reaches from the single read and write of `permute_tensor` to any
  history of commands.
* *When nothing fails*, with `OnePerModel`: `SidecarTrueTheorem`, `RelabellingTheorem`. The invariant
  adds how far each process has come (`Working`): while a command rewrites, tensors below `k` are in the
  new order and the others in the old (`Halfway`), and at the end the temporary file, though shared, was
  refused or held the identity. `RewritesTensor` shows that with the delta `apply` computes, `Permute`
  turns the current order into the target, `UndoneIs` that the mapping can undo it. The
  refinement mapping then is the order in the sidecar, or the one being written to it, with the
  bytes of that order (`OrderSeen`, `BytesSeen`), so a step matters only if it empties a sidecar
  (`StepRefines`).

### Reading

**`FetchbenchProofs`**, of `ExpertCache` and `ReadAll`. First, from `SetupsAssumption` (sizes of slabs, numbers of slots, tokens and
repetitions are positive, budgets natural numbers; any trace): `CacheInvariant`, `BudgetKeptTheorem`,
`RequestServedTheorem`, `AccountedTheorem`, `ReportsSoundTheorem`, `HottestStaysTheorem`. The bytes in use are the sum of the
sizes of what is resident, kept through each path that changes one of them (`Budget`); that
making room ends with a fit, or with nothing but pinned slabs, rests on the sum over a subset being
smaller. For `RequestServed` the invariant says that the slabs the current request has touched are the
most recent ones (`Served`), so that a victim among them would mean that all that is left, with the
newcomer, is within the request or pinned, and fits. The property is stated of the requests that fit as
a whole, skipped experts included: it does not suffice that those worth a fetch fit, because an expert
of small mass that is a hit becomes recent as well and may push out one that is wanted.
`HottestStays` needs that scores are compared as they are at the eviction, in a step that ages none.
`ReportsSound` compares repetitions that are not in memory together. Under `lru`, `static` and `hybrid` a
step of the replay depends on nothing but the cache, the counts and the place in the trace (`Snap`; the
clock and the scores decide nothing), so it is a function, `Follow`. The invariant (`Replays`) says that what
is in hand, and what each report holds, is reached by applying `Follow` to the start (`IsRun`); two runs
that end in a report are one run (`RunsAgree`, at the first step where they would differ).

Of `ReadAll`, for every number of workers and ranges and any file: `TypeCorrect`,
`NothingTwiceTheorem`, `LostOnlyByErrorsTheorem`, `ReadOnceTheorem`. The shared index hands each range to
one worker, so a range is drawn, finished, or in the hands of one worker. The second invariant counts:
the ranges lost and the workers stopped each inject into the errors, so with a worker left every range
is read or lost by an error. The third (`Summed`) is the shared sum: it is the sum of what the file
has in the finished ranges, since a worker adds its own sum in the step that finishes its
range, and that is the whole of the range when the loop around `pread` ends.

**`GroupRunsProofs`**, from the assumptions that slot lists ascend and that costs and limits are
natural numbers: `TypeCorrect`, `NoneMissedTheorem`, `RunsWorthReadingTheorem`, `RunsApartTheorem`,
together `GroupedTheorem`; `SplitExactTheorem`; `CheapestTheorem`. The invariant says of the run being built what is
claimed of the finished ones (`Building`), and of the run being split that the reads so far cover
exactly its slots before the next read (`Splitting`, `ReadsCover`); `EmitRun` and `EmitCovers` are
the steps that turn the one into the other. That no grouping is cheaper needs a second invariant, of
sums: what the runs read and the gaps cut out add up to the stretch from the first slot to the last
(`Measured`). Any other grouping adds up to the same stretch (`GroupsSize`, by induction on its cuts:
undoing the first one joins two groups and spans the gap between them, `Joined`), so two groupings
compare by their fetches and the gaps they leave out, and cutting at exactly the gaps that cost more than a
fetch is best (`BestCuts`, position by position, with `GapWorth` for the rounding of `max_gap`).
A last section collects what the loop comes to when it ends (`Outcome`), for the composition to use.

**`FetchPathProofs`**, from `JobsAssumption` (layers have experts), `CostAssumption` (costs are
natural numbers) and `SeedsAssumption` (what is proposed is an order):
`LayoutSoundTheorem`, `NeverRisesTheorem` of the search alone, the first of three parts. The inductive
invariant has two parts. `Held`: the order held is a permutation, and its recorded cost is its cost.
`Tried`: as long as the sweep has not improved, no exchange or move it has tried improves on the order
held; an improvement resets the claim together with the flag, so a sweep without one has tried them
all. That exchanging two slots and moving one keep a permutation is proved of both operators. Second, of
the composition, `SearchesTheorem` (every step is a step of the search or leaves it alone), and through
it `LayoutSoundInPath`; `RefinedIsOrder` (a replay begins only with a finished search).

The last two assumptions are about constants that `build` gives values: `SearchCost`, `Chain` and
`Mincuts`. Of these values they are theorems, from `TraceAssumption` (a trace names experts the
model has; `trace.rs` refuses another) and `ModelAssumption` (costs are natural numbers, and so are the sizes and
offsets of tensors, as the header parser leaves them, whether or not the table is one to accept):

* `CostsAreNumbers`: sums of naturals over the tokens, each of which needs the slot below a slot, the
  greatest of a finite set, to exist and to lie below.
* `ProposalsAreOrders`, for `chain_order`: what extends the path is a strongest option, which
  exists because options compare by a total order (`StrongestIs`; fractions with denominators above zero
  compare transitively, `AtLeastOrders`), and is not placed yet, because fewer than n experts cannot cover
  them (`ExtendedIs`). For `bisect`: both sides of a split are smaller than the whole, so the recursion
  has a value for each set of nodes (`LaidExists`), and two lists of disjoint sets, one after the other,
  list their union (`ListsJoin`). Neither uses anything of the Fiedler vector.
* `SeedsSoundTheorem`: besides, an exchange of `kernighan_lin` takes exactly its gain off the cut
  (`ExchangeGains`: the edge between the two, counted in both externals, stays cut), and only gains
  above zero are taken, so no number of rounds adds to it. The cut is a sum over pairs; `CrossSum` takes the
  row and the column of one node out of it.

The third part is the replay: `FetchedAsPlannedTheorem`, with `ReplaysAssumption` besides (batch size, gap
and number of tokens are natural numbers, or the gap is not given).

* *The right bytes* (`BytesWantedTheorem`). `PathInv` has the loop of `GroupRuns` inside, with the
  invariant `GroupRunsProofs` proves of it, taken over by `INSTANCE`: either it rests, or it groups
  the slots of the batch in hand (`Rested`, `Grouping`). `Outcome` then makes the ranges of a batch slices of
  the weight tensors, apart from each other, that cover the slots of the batch in each (`Fetches`). That
  slices of different tensors are apart is where `validate` is needed: it compares each tensor only with its
  neighbour in the order of offsets, which keeps all of them apart (`TensorsApart`: the first tensor to
  begin too early would follow one that does not), and inside the file (`TensorsInFile`).
* *At the cost counted.* The account kept beside (`Ledger`, `Paid`): what has been issued for the batches
  finished is at most what coact charges for their tokens, and the same if each token is a batch. Both
  programs derive the greatest gap worth reading over from the same numbers (`SameGap`), and the reads of
  a batch cost what coact would charge if the batch were one token (`EmitPays`). For more tokens than one it then suffices
  that reading two sets of slots together never costs more than reading them apart (`Together`, slot by
  slot): a gap that is read over costs at most a fetch (`GapPays`). `BatchesReach` shows that the last
  batch ends where `--tokens` does, short batch or not.

### The trace

**`MoeTraceProofs`**, from `TraceAssumption` (layers are numbers, the text has a length, ubatch and
context are not empty; any command line, negative limits included): `TraceInvariant`, `TracedTheorem`,
`LoadedRightTheorem`. The callback sees one tensor at a time and neither the token nor the ubatch it
belongs to. The inductive invariant (`TraceInv`, in eight parts) therefore relates what it infers to
the loops it cannot see:

* `Based`: the inferred token number is the position of the loop, or lags behind it by the ubatch
  that has just ended, until the first layer of the next one arrives. This is where the order of the tensors
  (`Ordered`) is needed, and that a layer whose ids are turned down does not move the number in either place.
* `Pending`: what is pending is of the ubatch in hand, and so are the first entries of the buffers, which
  only ever grow; a layer the callback understands stays pending until the tensor that completes its
  records. Hence `Joined`.
* `Aligned`: while nothing has failed the vectors are as many as the records, and afterwards the stream that
  fell short stays behind.
* `Counted`: the records of a layer carry the tokens 0, 1, 2, ..., up to the ubatch or to its end
  depending on whether its last tensor has been handled; two layers are never more than a ubatch apart.
  A ubatch adds its records to its own layer and to no other (`OfLayerRun`, by induction on the records).

`Traced` and `LoadedRight` follow at the end of a run: `RecordedIsComplete` turns counts into the set of
records asked for, and `LoadIs` shows that a file `load` accepts is the whole of what was written.

### mpeqs and the work record

**`MpeqsProofs`**, of six parts, each a process of its own.

* `PySpell`, for any number of threads, calls and sources: `NamesForGoodTheorem`. A store is opened only
  under the lock and only while there is none, because the test for `None` is repeated under it; a
  name enters `defined` in the step that adds its function, under the store's lock; hence the
  store is one and a name keeps its meaning.
* `WorkPad`, for any operators, givens and number of calls: `RecordSoundTheorem`. Not inductive as it
  stands: that a row is consumed once, and that nothing live stands on a stale row, survive an
  undo or a correction only because of all rows derived from one row only the latest can be live
  (`PadReused`), and that a key of today's versions was noted on today's values needs that versions only
  go up and that a key never names a version still to come (`PadKeys`).
* `IslandGraph`, for any definitions, machines and lengths of names: `ResolvedTheorem`. The calls of
  `resolve` are a chain: each is for a name in the text of the one below it, so all rest on the name
  asked for, and a name met again among them rests on itself (`Calls`). What a call has done with
  has a value, or is the call above (`DoneWith`), so that when nothing is left to refer to, all that is put in
  is there; a value, once made, is what its definition makes of values that do not change (`Settled`).
  When the last call returns, the names with a value are closed under references, and the name asked for
  rests on no other (`RestsOnWithin`). The hypothesis, `NamesApart`, is that no slot, and no word an answer is
  made of, is called like a definition, as in the run; without it a system is refused as circular that is
  not (`CycleIsCycle`, under Findings).
* `Units`, for any table and any number of calls, from `TablesAssumption` (a table is not empty, and its factors
  are above zero: `_graph` refuses others), `RequestsAssumption` (what `Fraction` parses is in lowest terms) and
  `ThreadsAssumption` (a thread converts or audits): `AnswersDerivedTheorem`, and with one auditor at most
  `ConversionsTheorem` and `AuditTheorem`. It rests on three groups of lemmas.
  *Fractions*: the recursion of gcd has a value, which is the greatest common divisor (`GcdIs`); a fraction made of
  two integers is in lowest terms and has their value (`FracIs`), one value is one fraction (`Same`), so that
  products commute, associate and are undone by inverses. *Ways*: they are made hop by hop (`WaysInduct`); each
  has a factor above zero; a way parts at any of its nodes (`WaysPart`), so that in a table that agrees with itself
  the factors are a potential and `compare` has the same sign in any unit (`Potential`, `ComparisonIs`). *The walk*:
  on a graph that stays, what left the queue leads nowhere new, each way found is a shortest, and the
  queue is in the order of their lengths, which differ by one at most (`Bfs`, kept by `BfsGoesOn`).

  The invariant says of every call, whatever becomes of the graph, that it holds ways through the whole table
  (`Going`); that is kept on any part of it, for any number of audits, and is all `AnswersDerived` needs. Shortest
  answers and final refusals need that the graph stays one during the call (`Exact`). So for these the invariant
  has besides where the audit is (`AuditorAt`): the graph is whole while it rests, lacks exactly the entry it derives
  while it does, and `saved` is whole then; its own call is exact on the graph it made; and no audit
  has been under way of a call that is not marked `disturbed`. With two auditors this is false, as the hazard at
  `units.py:285` says: one saves the other's smaller graph and puts it back last.
* `BrickLedger`, for any registry, paths, input and number of computations, from `QuotesAssumption` (a brick leads
  from one type to another, by a scale above zero, and `Fraction`s are in lowest terms; `registry3` declares no
  other, and a scale of zero could not be worked backwards): `LedgerSoundTheorem`. Both sides of a quote keep the
  order of amounts (`ThisSideIs`, `OtherSideIs`, on `TimesKeepsOrder` and `PlusKeepsOrder`), so that the lower
  side, taken at each open question, stays below whatever any answers would give, to the end of the path
  (`ConvertedLowest`); a greedy choice is a least one only because of this. The invariant `LedgerIInv` is that
  a result is what its path gives under the answer there is, that it is pending on exactly the crossings
  still open, and that the ledger has an entry for every crossing made, and no others. From the last follows that
  an answer reruns all that cross the edge, in either direction or twice, and that what it skips would come out the
  same (`SameConverted`). `CounterfactualExact` needs that the rest of the path is walked as quoted by a rerun
  too (`RerunIs`), which is so when it asks no second question: `EveryCounterfactual`, the claim for
  all paths, is false (Findings).
* `EqMemory`, for any equations, answered in any order, from `EquationsAssumption` (an equation is four fractions in
  lowest terms, and x does not cancel: `gen_plain` draws no other): `MemorySoundTheorem`, and of its steps
  `TiesTrueTheorem`. A move leaves the solution as it is (`ScaleIs`, `GatherXIs`, `GatherCIs`, on the algebra of
  fractions), so a road lands when it ends gathered and divided: the three fixed roads do (`StrategyRoadIs`), and
  of the roads of `search` at least one (`SureRoadLands`), so that there is a best one and it lands (`SearchIs`).
  Cleared of denominators first, a state stays whole until it is divided, because the common multiple is one of
  each denominator (`LcmOfIs`, `ClearedIs`, `WholeBoth`). The invariant of the memory (`Keyed`) is that a key begins
  the signature of its entry's example and no other key. An added bit keeps it since signatures only grow
  at the end (`SigGrows`, which the mutant breaks); a miss since `store_at` goes down until no key is below
  and none above serves it (`StoredAtIs`); a split since both new keys are below the old one and differ (`SplitKeeps`). Hence
  an example finds its own entry again, however its key was split since. When `refine` gives up, all bits of the library
  agree, those minted because the signatures do (`NearTieIs`).

## Only model-checked

* Liveness (`RevertSucceeds`, `Finishes`, `Returns`, `EveryCallReturns`): the prover does not
  handle fairness and `ENABLED`.
* The solvers, the calculus and the interpreter of `mpeqs` are recursive over their data, with
  `RECURSIVE` operators, whose modules the SMT backend does not enter.
* The walk of `bricks.py` and the two walks of `islands.py` (`WaysFound`): proofs are possible, and were left
  for the ones above. `MpeqsTypeOK` says of the parts of one run that they do not mix; the proofs have the
  types of each part.

## Not modelled

* matstruct (hub labels, landmarks, graphs, metrics), coact's analysis, reweighting and projection:
  functions of floating-point matrices, without state. What they promise rests on `f32`.
* fetchbench's `calibrate` and the reports of `replay`; `ballast`; printing everywhere: time and
  output, no state.
* `load_raw` of coact (it trusts a header), the byte-level header parser of gguf.
* mpeqs: `convert` and `formula` (text in, text out), calendar arithmetic but for counting leap
  years, the best rational of `approx`, percentage reports and deviations, the option that
  switches repair off, `check_residual`, and all parsing and formatting.
* `iterate.py`, a random driver of the record of `WorkPad`, whose appends and undos are among those
  the run takes in any order; `pingpong` of `eqbricks.py`, a search from both ends of an equation.
* The rest of `experiments/`: one-off scripts that draw questions, ask a language
  model and count its answers. `experiments/loopmem/solvers.py`, `solvers2.py` and `solvers3.py` are
  byte-for-byte the files of `python/mpeqs` that are modelled. Of `bricks2.py`, `bricks3.py` and
  `bricksolve.py`, `all_roads`, `classify` and `binary_solve` are pure functions over a table of rates
  without a state.
* `scripts/` and the Makefile: a checker of the numbers quoted in the documents, and glue.

Most lines of the repository are in the last two groups, so the share of all lines that a
definition stands for is small; of the programs in `crates/`, of `python/mpeqs` and of the experiments named above it
is most of what decides or changes anything.

## Plan

Done: the modules and proofs above. What would come next, the most useful first:

1. `HubLabels`: base cells, factored rows and squaring against the distance of the graph, with exact
   numbers in place of `f32`.
2. Proofs: `WaysFound` and what else is about the walks of `bricks.py` and `islands.py`.
3. `load_raw` beside `TraceReader`, over the vector stream of a failed run.

## Running

```
cd tla
tlc -workers 2 -config permute_tensor.cfg MCPermuteTensor
tlapm PermuteTensorProofs.tla
```

Each cfg is for the module that `PROJECT.json` lists with its run. The longest passing runs
(`mpeqs`, `fetch_path`) take between one and four minutes.
