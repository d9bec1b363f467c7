----------------------------- MODULE FetchPath -----------------------------
(***************************************************************************)
(* From a routing trace to the bytes that are read: a model file is opened *)
(* (GgufTable), the layout of a layer searched (LayoutSearch, from the     *)
(* seeds of LayoutSeeds at the cost of FetchCost) and the trace replayed   *)
(* under one of the layouts saved: build_ranges of                         *)
(* crates/fetchbench/src/main.rs groups the slots of each batch of tokens  *)
(* into runs (GroupRuns) and asks for their bytes in every weight tensor.  *)
(* coact and fetchbench are two programs that agree on all of this without *)
(* sharing more than the cost model.                                       *)
(***************************************************************************)
EXTENDS LayoutSearch, LayoutSeeds, FetchCost, GgufTable, Sequences

CONSTANT Replays    \* --batch, --max-gap (or NoGap) and --tokens of fetchbench replay

\* A job is [n, table, trace, every, most, sweeps, cm].  Each token holds experts of the model:
\* coact refuses a trace that names another.
ASSUME TraceAssumption == \A j \in Jobs : j.trace \in Seq(SUBSET Slots(j))
ASSUME ModelAssumption ==
    \A j \in Jobs :
        /\ j.most \in Nat /\ j.cm.fetch \in Nat /\ j.cm.byte \in Nat
        /\ j.table.dataOffset \in Nat /\ j.table.fileSize \in Nat
        /\ j.table.tensors \in Seq([kind : STRING, rel : Nat, nbytes : Nat, lastDim : Nat])

\* The value of --max-gap where it is not given.
NoGap == -1
ASSUME ReplaysAssumption ==
    \A args \in Replays : args.batch \in Nat /\ args.gap \in Nat \cup {NoGap} /\ args.tokens \in Nat

VARIABLES
    phase,          \* "open", "search", "replay", "refused" or "replayed"
    replay, layout, \* what is replayed: arguments and order
    b,              \* the batch
    ranges,         \* reads asked for, with their batch
    slots, cost, limit, i, start, prev, runs, r, a, reads, pc   \* of GroupRuns

groupVars == <<slots, cost, limit, i, start, prev, runs, r, a, reads, pc>>
replayVars == <<replay, layout, b, ranges, groupVars>>
vars == <<searchVars, phase, replayVars>>

WeightsOf(j) == Weights(j.table, j.n)
GeomOf(j) ==
    LET stride == [x \in WeightsOf(j) |-> Stride(j.table, x)]
    IN  [tensors |-> Cardinality(WeightsOf(j)), bytes |-> MapThenSumSet(LAMBDA x : stride[x], WeightsOf(j))]

\* Cost of LayoutSearch.
SearchCost(j, order) == Evaluate(SearchTokens(j), order, GeomOf(j), j.cm)

G == INSTANCE GroupRuns WITH Inputs <- {}, Costs <- {}, Limits <- {0}

NoReplay == [batch |-> 0, gap |-> NoGap, tokens |-> 0]
Init ==
    /\ SearchInit
    /\ phase = "open"
    /\ replay = NoReplay /\ layout = NoOrder /\ b = 0 /\ ranges = << >>
    /\ slots = << >> /\ cost = [fetch |-> 0, byte |-> 0] /\ limit = 0
    /\ i = 1 /\ start = 0 /\ prev = 0 /\ runs = << >> /\ r = 1 /\ a = 0 /\ reads = << >> /\ pc = "done"

\* Gguf::open, MoeModel::from_gguf, and the strides that geometry and bytes_per_expert ask for.
Opens ==
    /\ Validate(job.table)
    /\ ExpertTensors(job.table, job.n) # {}
    /\ \A x \in WeightsOf(job) : HasStride(job.table, x)

Open ==
    /\ phase = "open"
    /\ phase' = IF Opens THEN "search" ELSE "refused"
    /\ UNCHANGED <<searchVars, replayVars>>

Search == phase = "search" /\ SearchNext /\ UNCHANGED <<phase, replayVars>>

-----------------------------------------------------------------------------
\* The layouts build saves: identity, random (here the reverse), frequency, mincut, chain
\* and the refined one.
Saved ==
    {[x \in Slots(job) |-> x], [x \in Slots(job) |-> job.n - 1 - x],
     FrequencyOrder(job), mincut, Chain(job), p}

StartReplay ==
    /\ phase = "search" /\ stage = "done"
    /\ \E order \in Saved, args \in Replays : layout' = order /\ replay' = args
    /\ b' = 0 /\ ranges' = << >>
    /\ phase' = "replay"
    /\ UNCHANGED <<searchVars, groupVars>>

\* The tokens of batch k: the trace may end before it does.
BatchTokens(k) ==
    {x \in DOMAIN job.trace :
        /\ k * replay.batch < x /\ x <= (k + 1) * replay.batch
        /\ x <= replay.tokens}
BatchCount == LET size == Max({replay.batch, 1}) IN (replay.tokens + size - 1) \div size
BatchSlots(k) == UNION {SlotsOf(job.trace[x], layout) : x \in BatchTokens(k)}

\* The cost model handed to the grouping is the one whose max_gap is --max-gap, if given.
GroupCost ==
    IF replay.gap = NoGap
    THEN [fetch |-> GeomOf(job).tensors * job.cm.fetch, byte |-> GeomOf(job).bytes * job.cm.byte]
    ELSE [fetch |-> replay.gap, byte |-> 1]

\* The next batch: its slots sorted and without duplicates; none, nothing to read.
StartBatch ==
    /\ phase = "replay" /\ pc = "done" /\ b < BatchCount /\ runs = << >>
    /\ b' = b + 1
    /\ IF BatchSlots(b) = {} THEN UNCHANGED groupVars
       ELSE /\ slots' = InOrder(BatchSlots(b)) /\ cost' = GroupCost
            /\ i' = 1 /\ pc' = "begin"
            /\ UNCHANGED <<limit, start, prev, runs, r, a, reads>>
    /\ UNCHANGED <<searchVars, phase, replay, layout, ranges>>

Group == phase = "replay" /\ G!Next /\ UNCHANGED <<searchVars, phase, replay, layout, b, ranges>>

\* The weight tensors in the order of the table.
WeightList == InOrder(WeightsOf(job))
RangeOf(run, x) ==
    [batch |-> b, offset |-> Offset(job.table, x) + run[1] * Stride(job.table, x),
     len |-> (run[2] - run[1] + 1) * Stride(job.table, x)]

\* emit: each run in every weight tensor.
Emit ==
    /\ phase = "replay" /\ pc = "done" /\ runs # << >>
    /\ LET width == Len(WeightList)
       IN  ranges' = ranges \o
               [k \in 1 .. Len(reads) * width |->
                   RangeOf(reads[((k - 1) \div width) + 1], WeightList[((k - 1) % width) + 1])]
    /\ runs' = << >> /\ reads' = << >> /\ r' = 1
    /\ UNCHANGED <<searchVars, phase, replay, layout, b, slots, cost, limit, i, start, prev, a, pc>>

EndReplay ==
    /\ phase = "replay" /\ pc = "done" /\ runs = << >> /\ b = BatchCount
    /\ phase' = "replayed"
    /\ UNCHANGED <<searchVars, replayVars>>

Next == Open \/ Search \/ StartReplay \/ StartBatch \/ Group \/ Emit \/ EndReplay
Spec == Init /\ [][Next]_vars

-----------------------------------------------------------------------------
RangesOf(k) == {x \in DOMAIN ranges : ranges[x].batch = k}
Reads(byte, x) == ranges[x].offset <= byte /\ byte < ranges[x].offset + ranges[x].len
BytesOf(x, slot) ==
    LET first == Offset(job.table, x) + slot * Stride(job.table, x)
    IN  first .. first + Stride(job.table, x) - 1

\* Each byte of an expert that a batch routes to is read once, in each weight tensor, where the
\* layout says it is; no byte is read twice for a batch; and what is read besides belongs to
\* experts' slices of the weight tensors, never to another tensor or to what lies behind the
\* file's end.
BytesWanted ==
    phase = "replayed" =>
        /\ \A k \in 1 .. BatchCount : \A x \in WeightsOf(job) : \A slot \in BatchSlots(k - 1) :
               \A byte \in BytesOf(x, slot) : Cardinality({z \in RangesOf(k) : Reads(byte, z)}) = 1
        /\ \A k \in 1 .. BatchCount : \A y, z \in RangesOf(k) : y < z =>
               \A byte \in ranges[y].offset .. ranges[y].offset + ranges[y].len - 1 : ~Reads(byte, z)
        /\ \A z \in DOMAIN ranges : \A byte \in ranges[z].offset .. ranges[z].offset + ranges[z].len - 1 :
               /\ byte < job.table.fileSize
               /\ \E x \in WeightsOf(job) : \E slot \in Slots(job) : byte \in BytesOf(x, slot)
               /\ \A x \in DOMAIN job.table.tensors \ WeightsOf(job) :
                      byte < Offset(job.table, x) \/ byte >= job.table.dataOffset + End(job.table, x)

\* "this optimises what fetchbench will actually time": token by token, fetchbench issues the
\* reads coact counted; in batches it never pays more.
Issued ==
    LET transfer == [x \in DOMAIN ranges |-> ranges[x].len * job.cm.byte]
    IN  Len(ranges) * job.cm.fetch + MapThenSumSet(LAMBDA x : transfer[x], DOMAIN ranges)
Predicted ==
    Evaluate(SubSeq(job.trace, 1, Min({replay.tokens, Len(job.trace)})), layout, GeomOf(job), job.cm)
PredictionKept ==
    phase = "replayed" /\ replay.gap = NoGap =>
        /\ replay.batch = 1 => Issued = Predicted
        /\ replay.batch > 1 => Issued <= Predicted

\* What coact lays out is what fetchbench reads, at the cost coact counted.
FetchedAsPlanned == BytesWanted /\ PredictionKept

\* The orders proposed are permutations, whatever graph and Fiedler vector; bisection exchanges
\* nodes in pairs that do not add to the cut.
SeedsSound ==
    stage = "seed" =>
        LET tokens == TrainTokens(job)
            nodes == Slots(job)
        IN  /\ IsOrder(job, FrequencyOrder(job))
            /\ \A side \in Halves(nodes) :
                   LET better == KernighanLin(tokens, nodes, side)
                   IN  /\ Cardinality(better) = Cardinality(side)
                       /\ CutOf(tokens, nodes, better) <= CutOf(tokens, nodes, side)
=============================================================================
