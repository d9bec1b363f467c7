------------------------------ MODULE MoeTrace ------------------------------
(***************************************************************************)
(* moetrace (crates/moetrace): llama.cpp evaluates a text ubatch by ubatch *)
(* and calls trace_cb after every tensor of interest.  The callback keeps  *)
(* the expert ids of the tensor that came first, joins them with what the  *)
(* later tensors of the same layer bring, and appends one record per token *)
(* and layer to the trace; with --vecs it also appends one vector per      *)
(* record to a second stream.  coact reads both back (module TraceReader). *)
(*                                                                         *)
(* A tensor's content is represented by its origin: <<l, t>> stands for    *)
(* what layer l computed for token t of the text, so that a record made of *)
(* values of different tokens or layers is seen.                           *)
(***************************************************************************)
EXTENDS Integers, Sequences, FiniteSets, TraceReader

CONSTANTS MoeLayers,   \* the layers that have experts
          TextTokens,  \* tokens in the text
          NUbatch,     \* --ubatch
          NCtx,        \* --n-ctx
          Arguments,   \* the command lines considered
          Models,      \* for each model, the tensors that are not as trace_cb expects
          MaxFaults    \* allocations, writes and decodes that may fail

ASSUME TraceAssumption ==
    /\ MoeLayers \subseteq Nat
    /\ TextTokens \in Nat /\ MaxFaults \in Nat
    /\ NUbatch \in Nat \ {0} /\ NCtx \in Nat \ {0}
    /\ Arguments \subseteq
           [contrib : BOOLEAN, vecs : BOOLEAN, max_tokens : Int, vec_tokens : Int, chunk : Int]

VARIABLES args,          \* the command line
          unfit,         \* the tensors trace_cb turns down
          pc,            \* "decode", "graph", "cleanup", "done"
          start, p,      \* first token of the chunk and of the ubatch
          todo,          \* tensors of the ubatch that are still to be evaluated
          last_layer, token_base, last_ubatch_tokens, pend_layer, pend_tokens,
          ids, pend_ids, pend_w, overflow,        \* trace_ctx
          out,           \* records written to the trace
          vec, vec_out,  \* vectors written, and whether their stream is open
          decode_failed,
          faults,        \* failures so far
          short,         \* a record did not reach the file
          file           \* what is on disk in the end

ctx == <<last_layer, token_base, last_ubatch_tokens, pend_layer, pend_tokens,
         ids, pend_ids, pend_w>>
driver == <<start, p, decode_failed>>
vars == <<args, unfit, pc, todo, ctx, overflow, out, vec, vec_out, driver, faults, short, file>>

Junk == <<-1, -1>>
NoNorm == <<-2, -2>>
None == -1

Least(a, b) == IF a < b THEN a ELSE b

(***************************************************************************)
(* The command line: one limit for both streams, so that they stop at the  *)
(* same token.                                                             *)
(***************************************************************************)

EffectiveMaxTokens(a) ==
    IF ~a.vecs THEN a.max_tokens
    ELSE IF a.max_tokens > 0 THEN Least(a.max_tokens, a.vec_tokens) ELSE a.vec_tokens

\* Mutant: the trace keeps the limit it was given.
RecordLimitUntied(a) == a.max_tokens

RecordLimit(a) == EffectiveMaxTokens(a)
VectorLimit(a) == EffectiveMaxTokens(a)

ChunkTokens(a) == IF a.chunk <= 0 \/ a.chunk > NCtx THEN NCtx ELSE a.chunk

WantContrib == args.contrib \/ args.vecs

Wanted == IF RecordLimit(args) > 0 THEN Least(TextTokens, RecordLimit(args)) ELSE TextTokens

(***************************************************************************)
(* One evaluation of the graph.                                            *)
(***************************************************************************)

\* The tensors of one ubatch that the callback asks for, and the order they are computed in:
\* layer by layer.
Graph == [kind : IF WantContrib THEN {"topk", "weights", "down"} ELSE {"topk", "weights"},
          layer : MoeLayers]

Rank(kind) == CASE kind = "topk" -> 0 [] kind = "weights" -> 1 [] kind = "down" -> 2

Before(t, u) ==
    \/ t.layer < u.layer
    \/ t.layer = u.layer /\ Rank(t.kind) < Rank(u.kind)

ChunkEnd == Least(start + ChunkTokens(args), Wanted)

UbatchTokens == Least(NUbatch, ChunkEnd - p)

\* What the tensor of layer l holds, one entry per token whose output was asked for: the
\* batch asks for all of them.
Content(l) == [i \in 1 .. UbatchTokens |-> <<l, p + i - 1>>]

\* Writing over the front of a buffer that is only ever enlarged.
Overwrite(buffer, new) == new \o SubSeq(buffer, Len(new) + 1, Len(buffer))
At(buffer, i) == IF i <= Len(buffer) THEN buffer[i] ELSE Junk

TypeOK ==
    /\ pc \in {"decode", "graph", "cleanup", "done"}
    /\ {start, p} \subseteq Nat
    /\ token_base \in 0 .. Wanted
    /\ {last_ubatch_tokens, pend_tokens} \subseteq 0 .. NUbatch
    /\ {last_layer, pend_layer} \subseteq MoeLayers \cup {None}
    /\ \A i \in 1 .. Len(out) : out[i].layer \in MoeLayers
    /\ faults \in 0 .. MaxFaults

Init ==
    /\ args \in Arguments
    /\ unfit \in Models
    /\ pc = "decode" /\ start = 0 /\ p = 0
    /\ todo = {}
    /\ last_layer = None /\ token_base = 0 /\ last_ubatch_tokens = 0
    /\ pend_layer = None /\ pend_tokens = 0
    /\ ids = << >> /\ pend_ids = << >> /\ pend_w = << >>
    /\ overflow = FALSE
    /\ out = << >> /\ vec = << >> /\ vec_out \in {FALSE, args.vecs}
    /\ decode_failed = FALSE
    /\ faults = 0 /\ short = FALSE
    /\ file = NoFile

-----------------------------------------------------------------------------
\* The loops over chunks and ubatches.

Decode ==
    /\ pc = "decode" /\ p < ChunkEnd /\ ~overflow
    /\ todo' = Graph
    /\ pc' = "graph"
    /\ UNCHANGED <<args, unfit, ctx, overflow, out, vec, vec_out, driver, faults, short, file>>

DecodeReturns ==
    /\ pc = "graph" /\ todo = {}
    /\ p' = p + NUbatch
    /\ pc' = "decode"
    /\ UNCHANGED <<args, unfit, todo, ctx, overflow, out, vec, vec_out, start, decode_failed,
                   faults, short, file>>

\* llama_decode gives up, at any point of the graph.
DecodeFails ==
    /\ pc = "graph" /\ faults < MaxFaults
    /\ faults' = faults + 1
    /\ decode_failed' = TRUE
    /\ pc' = "cleanup"
    /\ UNCHANGED <<args, unfit, todo, ctx, overflow, out, vec, vec_out, start, p, short, file>>

NextChunk ==
    /\ pc = "decode" /\ (p >= ChunkEnd \/ overflow)
    /\ IF start + ChunkTokens(args) < Wanted /\ ~overflow
       THEN /\ start' = start + ChunkTokens(args) /\ p' = start + ChunkTokens(args)
            /\ pc' = "decode"
       ELSE /\ pc' = "cleanup" /\ UNCHANGED <<start, p>>
    /\ UNCHANGED <<args, unfit, todo, ctx, overflow, out, vec, vec_out, decode_failed,
                   faults, short, file>>

-----------------------------------------------------------------------------
\* trace_cb.

Tensor(kind, l) == [kind |-> kind, layer |-> l]

Called(kind, l) ==
    /\ pc = "graph" /\ Tensor(kind, l) \in todo
    /\ todo' = todo \ {Tensor(kind, l)}
    /\ \A u \in todo' : Before(Tensor(kind, l), u)
    /\ UNCHANGED <<args, unfit, pc, driver, file>>

Fits(kind, l) == <<kind, l>> \notin unfit

\* realloc returns NULL: the rest of the run is not recorded.
OutOfMemory ==
    /\ faults < MaxFaults
    /\ faults' = faults + 1
    /\ overflow' = TRUE

\* A tensor the callback returns from without doing anything.
Ignored(kind, l, ignore) ==
    /\ Called(kind, l)
    /\ ignore
    /\ UNCHANGED <<ctx, overflow, out, vec, vec_out, faults, short>>

\* A layer index that does not increase begins a new ubatch.
\* Mutant: a repeated layer does not begin one.
AdvanceStrict(l) ==
    token_base' = token_base + (IF l < last_layer THEN last_ubatch_tokens ELSE 0)

Advance(l) ==
    token_base' = token_base + (IF l <= last_layer THEN last_ubatch_tokens ELSE 0)

Topk(l) ==
    /\ Called("topk", l)
    /\ Fits("topk", l)
    /\ Advance(l)
    /\ last_layer' = l
    /\ last_ubatch_tokens' = Len(Content(l))
    /\ \/ /\ ~overflow /\ Fits("stride", l)
          /\ ids' = Overwrite(ids, Content(l))
          /\ pend_layer' = l /\ pend_tokens' = Len(Content(l))
          /\ UNCHANGED <<overflow, faults>>
       \/ /\ overflow \/ ~Fits("stride", l)
          /\ pend_layer' = None
          /\ UNCHANGED <<ids, pend_tokens, overflow, faults>>
       \/ /\ ~overflow /\ OutOfMemory
          /\ pend_layer' = None
          /\ UNCHANGED <<ids, pend_tokens>>
    /\ UNCHANGED <<pend_ids, pend_w, out, vec, vec_out, short>>

Cost(k, n) == IF k < n THEN 1 ELSE 0

\* How many of the pending tokens lie below a limit of either stream.
Below(limit) ==
    IF limit <= 0 THEN pend_tokens
    ELSE Cardinality({i \in 0 .. pend_tokens - 1 : token_base + i < limit})

Record(l, i, id, w, norm) ==
    [layer |-> l, token |-> token_base + i - 1, ids |-> id, w |-> w, norm |-> norm]

\* Append the records of the pending tokens.  The token limit or a short write ends it; the
\* caller has already used up `spent' failures in this call.
Flush(records, spent) ==
    LET n == Below(RecordLimit(args))
    IN  \E k \in 0 .. n :
        /\ faults' = faults + spent + Cost(k, n)
        /\ faults' <= MaxFaults
        /\ out' = out \o SubSeq(records, 1, k)
        /\ overflow' = (k < pend_tokens)
        /\ short' = (short \/ k < n)
        /\ pend_layer' = None
        /\ UNCHANGED <<last_layer, token_base, last_ubatch_tokens, pend_tokens, ids, pend_ids, pend_w>>

\* Without --contrib the weights complete the record.
WeightsFlushed(l) ==
    /\ Called("weights", l)
    /\ ~WantContrib /\ ~overflow /\ pend_layer = l /\ Fits("weights", l)
    /\ Flush([i \in 1 .. pend_tokens |-> Record(l, i, At(ids, i), Content(l)[i], NoNorm)], 0)
    /\ UNCHANGED <<vec, vec_out>>

Stash(l) ==
    /\ pend_ids' = Overwrite(pend_ids, SubSeq(ids, 1, pend_tokens))
    /\ pend_w' = Overwrite(pend_w, Content(l))

\* With it they are kept beside a copy of the ids until ffn_moe_down arrives.
WeightsStashed(l) ==
    /\ Called("weights", l)
    /\ WantContrib /\ ~overflow /\ pend_layer = l /\ Fits("weights", l)
    /\ Stash(l)
    /\ UNCHANGED <<last_layer, token_base, last_ubatch_tokens, pend_layer, pend_tokens, ids,
                   overflow, out, vec, vec_out, faults, short>>

JoinedRecords(l) ==
    [i \in 1 .. pend_tokens |-> Record(l, i, At(pend_ids, i), At(pend_w, i), Content(l)[i])]

Vectors(l) == SubSeq(Content(l), 1, Below(VectorLimit(args)))

\* The vectors first, then the records.  A short write closes the vector stream for good.
Down(l) ==
    /\ Called("down", l)
    /\ ~overflow /\ pend_layer = l /\ Fits("down", l)
    /\ \/ /\ vec_out
          /\ \E k \in 0 .. Len(Vectors(l)) :
             /\ vec' = vec \o SubSeq(Vectors(l), 1, k)
             /\ vec_out' = (k = Len(Vectors(l)))
             /\ Flush(JoinedRecords(l), Cost(k, Len(Vectors(l))))
       \/ /\ ~vec_out
          /\ UNCHANGED <<vec, vec_out>>
          /\ Flush(JoinedRecords(l), 0)

\* An allocation fails while a weights or down tensor is handled; for the record buffer
\* that is after the vectors have been written.
OutOfMemoryIn(kind, l) ==
    /\ Called(kind, l)
    /\ ~overflow /\ pend_layer = l /\ Fits(kind, l)
    /\ OutOfMemory
    /\ vec' \in IF kind = "down" /\ vec_out THEN {vec, vec \o Vectors(l)} ELSE {vec}
    /\ UNCHANGED <<ctx, out, vec_out, short>>

TraceCb(l) ==
    \/ Ignored("topk", l, ~Fits("topk", l))
    \/ Topk(l)
    \/ \E kind \in {"weights", "down"} :
          \/ Ignored(kind, l, overflow \/ pend_layer # l \/ ~Fits(kind, l))
          \/ OutOfMemoryIn(kind, l)
    \/ WeightsFlushed(l)
    \/ WeightsStashed(l)
    \/ Down(l)

-----------------------------------------------------------------------------
\* Both headers are patched with the counts and the files closed.  What stdio still
\* buffered is lost on a full disk, now or earlier: fewer records reach the file than the
\* header counts.
Cleanup ==
    /\ pc = "cleanup"
    /\ pc' = "done"
    /\ \E k \in 0 .. Len(out) :
       /\ k = Len(out) \/ short \/ faults < MaxFaults
       /\ short' = (short \/ k < Len(out))
       /\ faults' = IF k < Len(out) /\ ~short THEN faults + 1 ELSE faults
       /\ file' = [n_records |-> Len(out), records |-> SubSeq(out, 1, k)]
    /\ UNCHANGED <<args, unfit, todo, ctx, overflow, out, vec, vec_out, driver>>

\* What moetrace_run returns: main fails on a negative code or on zero.
Rc == IF decode_failed THEN -4 ELSE Len(out)

Next ==
    \/ Decode \/ DecodeReturns \/ DecodeFails \/ NextChunk
    \/ \E l \in MoeLayers : TraceCb(l)
    \/ Cleanup

Spec == Init /\ [][Next]_vars

-----------------------------------------------------------------------------
\* A record is made of what one layer computed for one token, the one it is labelled with,
\* unless the model's weights tensor was turned down: then the ids and weights of an
\* earlier tensor are still in the stash (trace_cb over two or three tensors, with the
\* token number inferred from the order of the layers).
RecordsJoin ==
    \A i \in 1 .. Len(out) :
        LET r == out[i] IN
        \/ /\ {r.ids, r.w} = {<<r.layer, r.token>>}
           /\ r.norm \in {NoNorm, <<r.layer, r.token>>}
        \/ WantContrib /\ <<"weights", r.layer>> \in unfit

\* The i-th vector belongs to the i-th record, as load_raw and reweight take for granted,
\* whatever the limits on the command line and wherever either stream falls short.
StreamsAligned ==
    \A i \in 1 .. Least(Len(out), Len(vec)) : vec[i] = <<out[i].layer, out[i].token>>

\* A run that returns without an error code has recorded every token asked for in every
\* layer the callback understands, unless it gave up recording (moetrace_run, overflow).
Recorded == {l \in MoeLayers : \A k \in {"topk", "stride", "weights", "down"} :
                 \/ <<k, l>> \notin unfit
                 \/ k = "down" /\ ~WantContrib
                 \/ k = "weights" /\ WantContrib}

CompleteUnlessCut ==
    pc = "done" /\ Rc >= 0 /\ ~overflow =>
        {<<out[i].layer, out[i].token>> : i \in 1 .. Len(out)} = Recorded \X (0 .. Wanted - 1)

\* What a run leaves behind is right line by line and, unless it says so, complete; what is kept
\* on the way stays in its range.
Traced == TypeOK /\ RecordsJoin /\ StreamsAligned /\ CompleteUnlessCut

\* The same without that exception (moetrace.c: a failure is reported "so the caller does not
\* treat a truncated run as complete").
CompleteIfReported ==
    pc = "done" /\ Rc > 0 =>
        {<<out[i].layer, out[i].token>> : i \in 1 .. Len(out)} = Recorded \X (0 .. Wanted - 1)

\* A trace that Trace::load accepts lists in every layer the tokens 0, 1, 2, ... in order:
\* load drops the token numbers and counts on it, also after a failed decode or a full disk.
LoadedInOrder ==
    pc = "done" /\ Loads(file) =>
        \A l \in DOMAIN Load(file) : \A k \in 1 .. Len(Load(file)[l]) : Load(file)[l][k].token = k - 1

\* The layers of a trace that loads differ by one ubatch at most, and only if a failure cut
\* the run short; consumers index every layer by the same token.
LayersEven ==
    pc = "done" /\ Loads(file) =>
        \A l, m \in DOMAIN Load(file) :
            \/ Len(Load(file)[l]) = Len(Load(file)[m])
            \/ faults > 0 /\ Len(Load(file)[l]) - Len(Load(file)[m]) <= NUbatch

\* load never returns records the run did not write, nor fewer than the header promises.
LoadedWhole ==
    pc = "done" /\ Loads(file) =>
        \A l \in DOMAIN Load(file) :
            Load(file)[l] = OfLayer(out, l)

\* What coact makes of a trace, complete or cut short, it may index by layer and token.
LoadedRight == LoadedInOrder /\ LayersEven /\ LoadedWhole

\* With a token limit on the command line no later token is recorded (main.rs: "Stop after
\* this many tokens").
MaxTokensKept == args.max_tokens > 0 => \A i \in 1 .. Len(out) : out[i].token < args.max_tokens
=============================================================================
