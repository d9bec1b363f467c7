--------------------------- MODULE MoeTraceProofs ---------------------------
(***************************************************************************)
(* What moetrace writes and coact loads, for every model, text, ubatch     *)
(* size, command line and failure.                                         *)
(*                                                                         *)
(* The callback knows neither the token nor the ubatch: it infers both     *)
(* from the order in which tensors arrive.  The invariant says where the   *)
(* loops outside are while it does, so that what is pending is of the      *)
(* ubatch in hand, and counts the records of each layer.                   *)
(***************************************************************************)
EXTENDS MoeTrace, FiniteFacts, SequenceTheorems

-----------------------------------------------------------------------------
(* The records of one layer, as Trace::load collects them *)

\* The function of OfLayer.
Kept(g, s, l, m) ==
    g = [n \in 0 .. m |->
            IF n = 0 THEN << >>
            ELSE IF s[n].layer = l THEN Append(g[n - 1], s[n]) ELSE g[n - 1]]

\* The recursive definition unfolds.
LEMMA OfLayerIs == ASSUME NEW s, NEW l PROVE OfLayer(s, l) = (CHOOSE g : Kept(g, s, l, Len(s)))[Len(s)]
BY DEF OfLayer, Kept

\* There is such a function for every length (by the smallest length that had none).
LEMMA KeptExists == ASSUME NEW s, NEW l, NEW n \in Nat PROVE \E g : Kept(g, s, l, n)
<1> DEFINE Bad == {m \in Nat : ~ \E g : Kept(g, s, l, m)}
<1>1. SUFFICES ASSUME Bad # {} PROVE FALSE
  OBVIOUS
<1>2. PICK m \in Bad : \A r \in Bad : m <= r
  <2>1. Bad \in SUBSET Nat
    OBVIOUS
  <2> QED
    BY <1>1, <2>1, SmallestNat
<1>3. m # 0
  <2>1. Kept([i \in 0 .. 0 |-> << >>], s, l, 0)
    BY DEF Kept
  <2> QED
    BY <2>1
<1>4. m \in Nat /\ m - 1 \in Nat /\ m - 1 \notin Bad
  BY <1>2, <1>3
<1>5. PICK g : Kept(g, s, l, m - 1)
  BY <1>4
<1>6. PICK h : h = [i \in 0 .. m |->
           IF i < m THEN g[i]
           ELSE IF s[m].layer = l THEN Append(g[m - 1], s[m]) ELSE g[m - 1]]
  OBVIOUS
<1>7. \A i \in 0 .. m - 1 : h[i] = g[i]
  BY <1>4, <1>6
<1>8. \A i \in 0 .. m : h[i] = IF i = 0 THEN << >>
           ELSE IF s[i].layer = l THEN Append(h[i - 1], s[i]) ELSE h[i - 1]
  <2> TAKE i \in 0 .. m
  <2>1. CASE i < m
    <3>1. h[i] = g[i] /\ (i # 0 => h[i - 1] = g[i - 1])
      BY <1>4, <1>7, <2>1
    <3>2. g[i] = IF i = 0 THEN << >>
           ELSE IF s[i].layer = l THEN Append(g[i - 1], s[i]) ELSE g[i - 1]
      <4>1. i \in 0 .. m - 1
        BY <1>4, <2>1
      <4> QED
        BY <1>5, <4>1 DEF Kept
    <3> QED
      BY <3>1, <3>2
  <2>2. CASE i = m
    BY <1>3, <1>4, <1>6, <1>7, <2>2
  <2> QED
    BY <1>4, <2>1, <2>2
<1>9. h = [i \in 0 .. m |-> IF i = 0 THEN << >>
           ELSE IF s[i].layer = l THEN Append(h[i - 1], s[i]) ELSE h[i - 1]]
  <2>1. DOMAIN h = 0 .. m /\ h = [i \in 0 .. m |-> h[i]]
    BY <1>6
  <2> QED
    BY <1>8, <2>1
<1> QED
  BY <1>2, <1>9 DEF Kept

\* Two of them agree as far as both go, and as far as their sequences do.
Same(s, t, n) == \A i \in 1 .. n : s[i] = t[i]

\* It depends only on the records so far.
LEMMA KeptAgree ==
    ASSUME NEW s, NEW t, NEW l, NEW n \in Nat, NEW m \in Nat, n <= m, Same(s, t, n),
           NEW g, Kept(g, s, l, n), NEW h, Kept(h, t, l, m)
    PROVE  g[n] = h[n]
<1> DEFINE Bad == {i \in 0 .. n : g[i] # h[i]}
<1>1. SUFFICES ASSUME Bad # {} PROVE FALSE
  OBVIOUS
<1>2. PICK i \in Bad : \A r \in Bad : i <= r
  <2>1. Bad \in SUBSET Nat
    OBVIOUS
  <2> QED
    BY <1>1, <2>1, SmallestNat
<1>3. i \in 0 .. n /\ i \in 0 .. m
  BY <1>2
<1>4. /\ g[i] = IF i = 0 THEN << >> ELSE IF s[i].layer = l THEN Append(g[i - 1], s[i]) ELSE g[i - 1]
      /\ h[i] = IF i = 0 THEN << >> ELSE IF t[i].layer = l THEN Append(h[i - 1], t[i]) ELSE h[i - 1]
  BY <1>3 DEF Kept
<1>5. i # 0 => s[i] = t[i] /\ g[i - 1] = h[i - 1]
  BY <1>2, <1>3 DEF Same
<1> QED
  BY <1>2, <1>4, <1>5

\* No records, none of any layer.
LEMMA OfLayerEmpty == ASSUME NEW l PROVE OfLayer(<< >>, l) = << >>
<1>1. Len(<< >>) = 0
  OBVIOUS
<1>2. PICK g : g = (CHOOSE f : Kept(f, << >>, l, 0))
  OBVIOUS
<1>3. Kept(g, << >>, l, 0)
  BY <1>2, KeptExists
<1>4. g[0] = << >>
  BY <1>3 DEF Kept
<1> QED
  BY <1>1, <1>2, <1>4, OfLayerIs

\* A record is added to its own layer.
LEMMA OfLayerAppend ==
    ASSUME NEW R, NEW s \in Seq(R), NEW x \in R, NEW l
    PROVE  OfLayer(Append(s, x), l) = IF x.layer = l THEN Append(OfLayer(s, l), x) ELSE OfLayer(s, l)
<1>1. PICK n \in Nat : n = Len(s)
  OBVIOUS
<1>2. PICK t : t = Append(s, x)
  OBVIOUS
<1>3. Len(t) = n + 1 /\ t[n + 1] = x /\ Same(s, t, n)
  BY <1>1, <1>2, AppendProperties DEF Same
<1>4. PICK g : g = (CHOOSE f : Kept(f, s, l, n))
  OBVIOUS
<1>5. PICK h : h = (CHOOSE f : Kept(f, t, l, n + 1))
  OBVIOUS
<1>6. Kept(g, s, l, n) /\ Kept(h, t, l, n + 1)
  <2>1. n + 1 \in Nat
    OBVIOUS
  <2> QED
    BY <1>4, <1>5, <2>1, KeptExists
<1>7. g[n] = h[n]
  <2>1. n + 1 \in Nat /\ n <= n + 1
    OBVIOUS
  <2> QED
    BY <1>3, <1>6, <2>1, KeptAgree
<1>8. h[n + 1] = IF t[n + 1].layer = l THEN Append(h[n], t[n + 1]) ELSE h[n]
  <2>1. PICK k \in Nat : k = n + 1
    OBVIOUS
  <2>2. k \in 0 .. k /\ k # 0 /\ k - 1 = n /\ Kept(h, t, l, k)
    BY <1>6, <2>1
  <2>3. h[k] = IF t[k].layer = l THEN Append(h[k - 1], t[k]) ELSE h[k - 1]
    BY <2>2 DEF Kept
  <2> QED
    BY <2>1, <2>2, <2>3
<1>9. OfLayer(s, l) = g[n] /\ OfLayer(t, l) = h[n + 1]
  BY <1>1, <1>3, <1>4, <1>5, OfLayerIs
<1> QED
  BY <1>2, <1>3, <1>7, <1>8, <1>9

\* What the reader keeps of a layer is what the file has of it.
Extract(c, s, l) ==
    /\ \A k \in 1 .. Len(c) : c[k].layer = l /\ \E i \in 1 .. Len(s) : s[i] = c[k]
    /\ \A i \in 1 .. Len(s) : s[i].layer = l => \E k \in 1 .. Len(c) : c[k] = s[i]

\* This stays so when a record is added to the trace.
LEMMA ExtractAppend ==
    ASSUME NEW R, NEW s \in Seq(R), NEW x \in R, NEW l, NEW c \in Seq(R), Extract(c, s, l)
    PROVE  Extract(IF x.layer = l THEN Append(c, x) ELSE c, Append(s, x), l)
<1>1. PICK t : t = Append(s, x)
  OBVIOUS
<1>2. PICK n \in Nat : n = Len(s)
  OBVIOUS
<1>3. Len(t) = n + 1 /\ t[n + 1] = x /\ \A i \in 1 .. n : t[i] = s[i]
  BY <1>1, <1>2, AppendProperties
<1>4. CASE x.layer # l
  <2>1. Extract(c, t, l)
    <3>1. \A k \in 1 .. Len(c) : c[k].layer = l /\ \E i \in 1 .. n : s[i] = c[k]
      BY <1>2 DEF Extract
    <3>2. \A k \in 1 .. Len(c) : c[k].layer = l /\ \E i \in 1 .. Len(t) : t[i] = c[k]
      BY <1>3, <3>1
    <3>3. \A i \in 1 .. n : t[i] = s[i] /\ (s[i].layer = l => \E k \in 1 .. Len(c) : c[k] = s[i])
      BY <1>2, <1>3 DEF Extract
    <3>4. \A i \in 1 .. Len(t) : t[i].layer = l => \E k \in 1 .. Len(c) : c[k] = t[i]
      BY <1>3, <1>4, <3>3
    <3> QED
      BY <3>2, <3>4 DEF Extract
  <2> QED
    BY <1>1, <1>4, <2>1
<1>5. CASE x.layer = l
  <2>1. PICK d : d = Append(c, x)
    OBVIOUS
  <2>2. PICK m \in Nat : m = Len(c)
    OBVIOUS
  <2>3. Len(d) = m + 1 /\ d[m + 1] = x /\ \A i \in 1 .. m : d[i] = c[i]
    BY <2>1, <2>2, AppendProperties
  <2>4. \A k \in 1 .. Len(d) : d[k].layer = l /\ \E i \in 1 .. Len(t) : t[i] = d[k]
    <3> TAKE k \in 1 .. Len(d)
    <3>1. CASE k \in 1 .. m
      <4>1. d[k] = c[k] /\ c[k].layer = l /\ \E i \in 1 .. n : s[i] = c[k]
        BY <1>2, <2>2, <2>3, <3>1 DEF Extract
      <4> QED
        BY <1>3, <4>1
    <3>2. CASE k = m + 1
      <4>1. d[k] = x /\ n + 1 \in 1 .. Len(t)
        BY <1>3, <2>3, <3>2
      <4> QED
        BY <1>3, <1>5, <4>1
    <3> QED
      BY <2>3, <3>1, <3>2
  <2>5. \A i \in 1 .. Len(t) : t[i].layer = l => \E k \in 1 .. Len(d) : d[k] = t[i]
    <3> TAKE i \in 1 .. Len(t)
    <3>1. CASE i \in 1 .. n
      <4>1. t[i] = s[i] /\ (s[i].layer = l => \E k \in 1 .. m : c[k] = s[i])
        BY <1>2, <1>3, <2>2, <3>1 DEF Extract
      <4> QED
        BY <2>3, <4>1
    <3>2. CASE i = n + 1
      <4>1. t[i] = x /\ m + 1 \in 1 .. Len(d)
        BY <1>3, <2>3, <3>2
      <4> QED
        BY <2>3, <4>1
    <3> QED
      BY <1>3, <3>1, <3>2
  <2>6. Extract(d, t, l)
    BY <2>4, <2>5 DEF Extract
  <2> QED
    BY <1>1, <1>5, <2>1, <2>6
<1> QED
  BY <1>4, <1>5

\* What coact pushes for a layer are the records of that layer.
LEMMA OfLayerIn ==
    ASSUME NEW R, NEW s \in Seq(R), NEW l
    PROVE  OfLayer(s, l) \in Seq(R) /\ Extract(OfLayer(s, l), s, l)
<1> DEFINE Good(t) == OfLayer(t, l) \in Seq(R) /\ Extract(OfLayer(t, l), t, l)
           Bad == {m \in Nat : \E t \in Seq(R) : Len(t) = m /\ ~Good(t)}
<1>1. SUFFICES ASSUME Bad # {} PROVE FALSE
  <2>1. Len(s) \in Nat
    OBVIOUS
  <2> QED
    BY <1>1, <2>1
<1>2. PICK m \in Bad : \A r \in Bad : m <= r
  <2>1. Bad \in SUBSET Nat
    OBVIOUS
  <2> QED
    BY <1>1, <2>1, SmallestNat
<1>3. PICK t \in Seq(R) : Len(t) = m /\ ~Good(t)
  BY <1>2
<1>4. CASE t = << >>
  <2>1. OfLayer(t, l) = << >> /\ Len(<< >>) = 0 /\ << >> \in Seq(R)
    BY <1>4, OfLayerEmpty
  <2>2. Extract(<< >>, << >>, l)
    BY <2>1 DEF Extract
  <2> QED
    BY <1>3, <1>4, <2>1, <2>2
<1>5. CASE t # << >>
  <2>1. PICK u \in Seq(R), x \in R : t = Append(u, x)
    BY <1>5, SequenceEmptyOrAppend
  <2>2. Len(u) \in Nat /\ Len(u) < m
    BY <1>3, <2>1, AppendProperties
  <2>3. Good(u)
    BY <1>2, <2>2
  <2>4. OfLayer(t, l) = IF x.layer = l THEN Append(OfLayer(u, l), x) ELSE OfLayer(u, l)
    BY <2>1, OfLayerAppend
  <2>5. OfLayer(t, l) \in Seq(R)
    BY <2>3, <2>4, AppendProperties
  <2>6. Extract(OfLayer(t, l), t, l)
    BY <2>1, <2>3, <2>4, ExtractAppend
  <2> QED
    BY <1>3, <2>5, <2>6
<1> QED
  BY <1>4, <1>5

\* Appending to the second of two sequences.
AppendsLast(s, e, x) == Append(s \o e, x) = s \o Append(e, x)

LEMMA AppendConcat ==
    ASSUME NEW R, NEW s \in Seq(R), NEW e \in Seq(R), NEW x \in R
    PROVE  AppendsLast(s, e, x)
<1>1. PICK y \in Seq(R) : y = <<x>>
  <2>1. <<x>> \in Seq(R)
    OBVIOUS
  <2> QED
    BY <2>1
<1>2. s \o e \in Seq(R)
  BY ConcatProperties
<1>3. Append(e, x) = e \o y /\ Append(s \o e, x) = (s \o e) \o y
  BY <1>1, <1>2, AppendIsConcat
<1>4. (s \o e) \o y = s \o (e \o y)
  BY ConcatAssociative
<1> QED
  BY <1>3, <1>4 DEF AppendsLast

\* After s, the records c add themselves to layer l and nothing to another.
Continues(s, c, l, m) == OfLayer(s \o c, m) = IF m = l THEN OfLayer(s, m) \o c ELSE OfLayer(s, m)

\* One record more after a run of records of one layer.
LEMMA OneMore ==
    ASSUME NEW R, NEW s \in Seq(R), NEW e \in Seq(R), NEW x \in R, NEW m,
           Continues(s, e, x.layer, m)
    PROVE  Continues(s, Append(e, x), x.layer, m)
<1>1. OfLayer(s, m) \in Seq(R)
  BY OfLayerIn
<1>2. s \o e \in Seq(R)
  BY ConcatProperties
<1>3. AppendsLast(s, e, x) /\ AppendsLast(OfLayer(s, m), e, x)
  BY <1>1, AppendConcat
<1>5. OfLayer(Append(s \o e, x), m)
         = IF x.layer = m THEN Append(OfLayer(s \o e, m), x) ELSE OfLayer(s \o e, m)
  BY <1>2, OfLayerAppend
<1> QED
  BY <1>3, <1>5 DEF AppendsLast, Continues

\* A run of records of one layer is appended to that layer and to no other.
AllOf(c, l) == \A i \in 1 .. Len(c) : c[i].layer = l

\* A run of records of one layer adds to that layer, in its order.
LEMMA OfLayerRun ==
    ASSUME NEW R, NEW s \in Seq(R), NEW c \in Seq(R), NEW l, AllOf(c, l), NEW m
    PROVE  Continues(s, c, l, m)
<1> DEFINE Good(d) == Continues(s, d, l, m)
           Bad == {n \in Nat : \E d \in Seq(R) : Len(d) = n /\ AllOf(d, l) /\ ~Good(d)}
<1>1. SUFFICES ASSUME Bad # {} PROVE FALSE
  <2>1. Len(c) \in Nat
    OBVIOUS
  <2> QED
    BY <1>1, <2>1
<1>2. PICK n \in Bad : \A r \in Bad : n <= r
  <2>1. Bad \in SUBSET Nat
    OBVIOUS
  <2> QED
    BY <1>1, <2>1, SmallestNat
<1>3. PICK d \in Seq(R) : Len(d) = n /\ AllOf(d, l) /\ ~Good(d)
  BY <1>2
<1>4. OfLayer(s, m) \in Seq(R)
  BY OfLayerIn
<1>5. CASE d = << >>
  <2>1. s \o d = s /\ OfLayer(s, m) \o d = OfLayer(s, m)
    BY <1>4, <1>5, ConcatEmptySeq
  <2> QED
    BY <1>3, <2>1 DEF Continues
<1>6. CASE d # << >>
  <2>1. PICK e \in Seq(R), x \in R : d = Append(e, x)
    BY <1>6, SequenceEmptyOrAppend
  <2>2. Len(e) \in Nat /\ Len(e) < n /\ Len(d) = Len(e) + 1 /\ d[Len(e) + 1] = x
        /\ \A i \in 1 .. Len(e) : d[i] = e[i]
    BY <1>3, <2>1, AppendProperties
  <2>3. AllOf(e, l) /\ x.layer = l
    BY <1>3, <2>2 DEF AllOf
  <2>4. Good(e)
    BY <1>2, <2>2, <2>3
  <2>5. Continues(s, Append(e, x), x.layer, m)
    BY <2>3, <2>4, OneMore
  <2> QED
    BY <1>3, <2>1, <2>3, <2>5
<1> QED
  BY <1>5, <1>6

-----------------------------------------------------------------------------
(* The invariant *)

\* Contents, and records made of them.
Origin == Int \X Int
Entries == [layer : MoeLayers, token : Nat, ids : Origin, w : Origin, norm : Origin]

\* The ranges of the variables, and the origins the buffers are filled with.
Typed ==
    /\ args \in Arguments
    /\ pc \in {"decode", "graph", "cleanup", "done"}
    /\ start \in Nat /\ p \in Nat
    /\ last_layer \in MoeLayers \cup {None} /\ pend_layer \in MoeLayers \cup {None}
    /\ token_base \in 0 .. Wanted
    /\ last_ubatch_tokens \in 0 .. NUbatch /\ pend_tokens \in 0 .. NUbatch
    /\ ids \in Seq(Origin) /\ pend_ids \in Seq(Origin) /\ pend_w \in Seq(Origin)
    /\ overflow \in BOOLEAN /\ vec_out \in BOOLEAN /\ decode_failed \in BOOLEAN
    /\ out \in Seq(Entries) /\ vec \in Seq(Origin)
    /\ faults \in 0 .. MaxFaults

\* The layers whose expert ids the callback takes, and those it has taken in this graph.
Fitting == {l \in MoeLayers : Fits("topk", l)}
Seen(kind, l) == Tensor(kind, l) \notin todo
Reached == {l \in Fitting : Seen("topk", l)}

\* The tensor that completes a record, and the tokens the loops have been through.
Final == IF WantContrib THEN "down" ELSE "weights"
Fed == Least(p, ChunkEnd)

\* Within a graph the tensors come in order.
Ordered ==
    pc = "graph" =>
        /\ p < ChunkEnd
        /\ todo \subseteq Graph
        /\ \A t \in todo, u \in Graph : Before(t, u) => u \in todo

\* The token number inferred from the order of the layers is the one the loops are at: before
\* the first layer of a graph it is still to move on, after it has.
Behind ==
    /\ token_base + last_ubatch_tokens = Fed
    /\ Fed = 0 => last_layer = None
    /\ Fed # 0 => last_layer \in MoeLayers /\ \A m \in Fitting : m <= last_layer

\* Once a layer has been reached it is at the ubatch in hand.
UpToDate ==
    /\ token_base = p
    /\ last_ubatch_tokens = UbatchTokens
    /\ last_layer \in Reached /\ \A m \in Reached : m <= last_layer

\* Which of the two holds; with no layer to take ids from the token number never moves.
Based ==
    /\ Fitting = {} /\ pc \in {"decode", "graph"} =>
          last_layer = None /\ token_base = 0 /\ last_ubatch_tokens = 0
    /\ Fitting # {} /\ pc = "decode" => Behind
    /\ Fitting # {} /\ pc = "graph" => IF Reached = {} THEN Behind ELSE UpToDate

\* What is pending, and what is kept of it, is of the ubatch in hand.
Holds(b, l) == Len(b) >= UbatchTokens /\ \A i \in 1 .. UbatchTokens : b[i] = <<l, p + i - 1>>

\* The layer that is pending is the one whose ids were taken last; a layer the callback
\* understands is pending from its ids to the tensor that completes its records.
Pending ==
    /\ pend_layer # None => pend_layer \in Fitting /\ Fits("stride", pend_layer)
    /\ pc = "graph" /\ pend_layer # None /\ Seen("topk", pend_layer) =>
          pend_tokens = UbatchTokens /\ Holds(ids, pend_layer)
    /\ pc = "graph" /\ pend_layer # None /\ Seen("topk", pend_layer) /\ Seen("weights", pend_layer)
       /\ WantContrib /\ Fits("weights", pend_layer) /\ ~overflow =>
          Holds(pend_ids, pend_layer) /\ Holds(pend_w, pend_layer)
    /\ pc = "graph" /\ ~overflow =>
          \A l \in Recorded : Seen("topk", l) /\ ~Seen(Final, l) => pend_layer = l

\* The record of a token that is made of what its layer computed for it.
Joined(r) ==
    \/ {r.ids, r.w} = {<<r.layer, r.token>>} /\ r.norm \in {NoNorm, <<r.layer, r.token>>}
    \/ WantContrib /\ <<"weights", r.layer>> \in unfit

JoinedAll == \A i \in 1 .. Len(out) : Joined(out[i])

\* The vector stream keeps up with the records for as long as it is open.
Aligned ==
    /\ StreamsAligned
    /\ ~overflow => Len(vec) <= Len(out)
    /\ ~overflow /\ vec_out => Len(vec) = Len(out)
    /\ vec_out => args.vecs

\* How far each layer has been recorded.
Count(l) == Len(OfLayer(out, l))

\* A layer the callback understands is recorded up to the ubatch, and within the graph up to
\* its end as soon as the tensor that completes its records has been handled.
Full(l) ==
    /\ pc = "decode" => Count(l) = Fed
    /\ pc = "graph" => Count(l) = IF Seen(Final, l) THEN p + UbatchTokens ELSE p
    /\ pc \in {"cleanup", "done"} /\ ~decode_failed => Count(l) = Wanted

\* The records of each layer count the tokens from 0, and the layers are a ubatch apart at most.
Counted ==
    /\ \A l \in MoeLayers \ Recorded : Count(l) = 0
    /\ ~overflow => \A l \in Recorded : Full(l)
    /\ \A l, m \in Recorded : Count(l) <= Count(m) + NUbatch
    /\ \A l \in MoeLayers : \A k \in 1 .. Count(l) : OfLayer(out, l)[k].token = k - 1
    /\ overflow \/ decode_failed => faults > 0

\* The file is a prefix of what was written, under a header that counts all of it.
Filed ==
    pc = "done" =>
        \E k \in 0 .. Len(out) : file = [n_records |-> Len(out), records |-> SubSeq(out, 1, k)]

\* The inductive invariant.
TraceInv ==
    Typed /\ Ordered /\ Based /\ Pending /\ JoinedAll /\ Aligned /\ Counted /\ Filed

-----------------------------------------------------------------------------
(* Limits and ubatches *)

\* A command line of the instance.
LEMMA ArgsTyped ==
    ASSUME args \in Arguments
    PROVE  /\ args.vecs \in BOOLEAN /\ args.contrib \in BOOLEAN
           /\ args.max_tokens \in Int /\ args.vec_tokens \in Int /\ args.chunk \in Int
BY TraceAssumption

\* Both streams have one limit, and what is wanted stays below it.
LEMMA Limits ==
    ASSUME args \in Arguments
    PROVE  /\ RecordLimit(args) \in Int /\ VectorLimit(args) = RecordLimit(args)
           /\ Wanted \in Nat /\ (RecordLimit(args) > 0 => Wanted <= RecordLimit(args))
           /\ ChunkTokens(args) \in Nat \ {0}
           /\ WantContrib \in BOOLEAN
<1>1. RecordLimit(args) \in Int /\ VectorLimit(args) = RecordLimit(args)
  BY ArgsTyped DEF RecordLimit, VectorLimit, EffectiveMaxTokens, Least
<1>2. Wanted \in Nat /\ (RecordLimit(args) > 0 => Wanted <= RecordLimit(args))
  BY <1>1, TraceAssumption DEF Wanted, Least
<1>3. ChunkTokens(args) \in Nat \ {0}
  BY ArgsTyped, TraceAssumption DEF ChunkTokens
<1> QED
  BY <1>1, <1>2, <1>3, ArgsTyped DEF WantContrib

\* The loops over chunks and ubatches stay within what is wanted.
LEMMA Chunks ==
    ASSUME args \in Arguments, start \in Nat, p \in Nat
    PROVE  /\ ChunkEnd \in Nat /\ ChunkEnd <= Wanted
           /\ Fed \in 0 .. Wanted
           /\ p < ChunkEnd => /\ Fed = p /\ UbatchTokens \in 1 .. NUbatch
                              /\ p + UbatchTokens <= Wanted
                              /\ p + UbatchTokens = Least(p + NUbatch, ChunkEnd)
<1>1. ChunkEnd \in Nat /\ ChunkEnd <= Wanted
  BY Limits DEF ChunkEnd, Least
<1>2. Fed \in 0 .. Wanted /\ (p < ChunkEnd => Fed = p)
  BY <1>1, Limits DEF Fed, Least
<1>3. ASSUME p < ChunkEnd
      PROVE  UbatchTokens \in 1 .. NUbatch /\ p + UbatchTokens <= Wanted
             /\ p + UbatchTokens = Least(p + NUbatch, ChunkEnd)
  BY <1>1, <1>3, Limits, TraceAssumption DEF UbatchTokens, Least
<1> QED
  BY <1>1, <1>2, <1>3

\* No pending token is beyond a limit that what is wanted respects.
LEMMA BelowAll ==
    ASSUME token_base \in Nat, pend_tokens \in Nat, NEW limit \in Int,
           limit > 0 => token_base + pend_tokens <= limit
    PROVE  Below(limit) = pend_tokens
<1>1. CASE limit <= 0
  BY <1>1 DEF Below
<1>2. CASE limit > 0
  <2>1. {i \in 0 .. pend_tokens - 1 : token_base + i < limit} = 0 .. pend_tokens - 1
    BY <1>2
  <2>2. Cardinality(0 .. pend_tokens - 1) = pend_tokens
    BY FS_Interval
  <2> QED
    BY <1>2, <2>1, <2>2 DEF Below
<1> QED
  BY <1>1, <1>2

\* A tensor of the ubatch has one entry for each of its tokens.
LEMMA ContentIs ==
    ASSUME UbatchTokens \in Nat, p \in Nat, NEW l \in MoeLayers
    PROVE  /\ Content(l) \in Seq(Origin)
           /\ Len(Content(l)) = UbatchTokens
           /\ \A i \in 1 .. UbatchTokens : Content(l)[i] = <<l, p + i - 1>>
BY TraceAssumption DEF Content, Origin

\* Writing over a buffer leaves the new content in front.
LEMMA OverwriteIs ==
    ASSUME NEW b \in Seq(Origin), NEW c \in Seq(Origin)
    PROVE  /\ Overwrite(b, c) \in Seq(Origin)
           /\ Len(Overwrite(b, c)) >= Len(c)
           /\ \A i \in 1 .. Len(c) : Overwrite(b, c)[i] = c[i]
<1>1. PICK d : d = SubSeq(b, Len(c) + 1, Len(b))
  OBVIOUS
<1>2. \A i \in Len(c) + 1 .. Len(b) : b[i] \in Origin
  BY ElementOfSeq
<1>3. d \in Seq(Origin) /\ Len(d) \in Nat
  BY <1>1, <1>2, SubSeqProperties
<1> QED
  BY <1>1, <1>3, ConcatProperties DEF Overwrite

\* Nothing changes the command line or the model.
LEMMA Settled == ASSUME [Next]_vars PROVE args' = args /\ unfit' = unfit
BY DEF Next, vars, Decode, DecodeReturns, DecodeFails, NextChunk, TraceCb, Ignored, Topk, OutOfMemoryIn,
       WeightsFlushed, WeightsStashed, Down, Called, Cleanup

-----------------------------------------------------------------------------
(* Steps, and the order of the tensors *)

\* Neither does what is defined by them.
LEMMA SettledOps ==
    ASSUME args' = args, unfit' = unfit
    PROVE  /\ Wanted' = Wanted /\ WantContrib' = WantContrib /\ Graph' = Graph
           /\ Fitting' = Fitting /\ Final' = Final /\ Recorded' = Recorded
           /\ RecordLimit(args)' = RecordLimit(args) /\ ChunkTokens(args)' = ChunkTokens(args)
           /\ \A kind, l : Fits(kind, l)' = Fits(kind, l)
BY DEF Wanted, WantContrib, Graph, Fitting, Final, Recorded, RecordLimit, ChunkTokens, Fits, EffectiveMaxTokens, Least

\* The ubatch in hand stays while its graph is evaluated.
LEMMA Steady ==
    ASSUME args' = args, start' = start, p' = p
    PROVE  /\ ChunkEnd' = ChunkEnd /\ UbatchTokens' = UbatchTokens /\ Fed' = Fed
           /\ \A l : Content(l)' = Content(l)
BY DEF ChunkEnd, UbatchTokens, Fed, Content, Least, Wanted, RecordLimit, ChunkTokens, EffectiveMaxTokens

\* The tensor of a callback leaves the graph, and no other does.
LEMMA CalledFacts ==
    ASSUME Ordered, NEW l \in MoeLayers, NEW kind, Called(kind, l)
    PROVE  /\ pc = "graph" /\ pc' = "graph" /\ p < ChunkEnd
           /\ args' = args /\ unfit' = unfit /\ start' = start /\ p' = p
           /\ decode_failed' = decode_failed /\ file' = file
           /\ Tensor(kind, l) \in Graph /\ ~Seen(kind, l)
           /\ \A k, m : Seen(k, m)' <=> Seen(k, m) \/ (k = kind /\ m = l)
           /\ \A k, m : Tensor(k, m) \in Graph /\ Before(Tensor(k, m), Tensor(kind, l)) => Seen(k, m)
           /\ \A k, m : Tensor(k, m) \in Graph /\ Before(Tensor(kind, l), Tensor(k, m)) => ~Seen(k, m)
<1>1. /\ pc = "graph" /\ pc' = "graph" /\ p < ChunkEnd
      /\ args' = args /\ unfit' = unfit /\ start' = start /\ p' = p
      /\ decode_failed' = decode_failed /\ file' = file
      /\ Tensor(kind, l) \in Graph /\ ~Seen(kind, l)
  BY DEF Ordered, Called, driver, Seen
<1>2. \A k, m : Tensor(k, m) = Tensor(kind, l) <=> k = kind /\ m = l
  BY DEF Tensor
<1>3. \A k, m : Seen(k, m)' <=> Seen(k, m) \/ (k = kind /\ m = l)
  BY <1>2 DEF Called, Seen, Tensor
<1>4. \A x \in Graph : ~(Before(x, Tensor(kind, l)) /\ Before(Tensor(kind, l), x)) /\ ~Before(x, x)
  BY <1>1, TraceAssumption DEF Before, Graph, Rank
<1>5. \A k, m : Tensor(k, m) \in Graph /\ Before(Tensor(k, m), Tensor(kind, l)) => Seen(k, m)
  BY <1>1, <1>4 DEF Called, Seen
<1>6. \A k, m : Tensor(k, m) \in Graph /\ Before(Tensor(kind, l), Tensor(k, m)) => ~Seen(k, m)
  BY <1>1 DEF Called, Seen, Ordered
<1> QED
  BY <1>1, <1>3, <1>5, <1>6

\* A callback takes the expert ids of a layer or leaves the token count alone.
LEMMA OtherThanTopk ==
    ASSUME NEW l \in MoeLayers, TraceCb(l)
    PROVE  \/ Topk(l)
           \/ \E kind : /\ Called(kind, l) /\ (kind = "topk" => ~Fits("topk", l))
                        /\ UNCHANGED <<last_layer, token_base, last_ubatch_tokens>>
<1>1. ASSUME NEW kind \in {"topk", "weights", "down"}, NEW ignore, Ignored(kind, l, ignore)
      PROVE  Called(kind, l) /\ UNCHANGED <<last_layer, token_base, last_ubatch_tokens>>
  BY <1>1 DEF Ignored, ctx
<1>2. ASSUME NEW kind \in {"weights", "down"}, OutOfMemoryIn(kind, l)
      PROVE  Called(kind, l) /\ UNCHANGED <<last_layer, token_base, last_ubatch_tokens>>
  BY <1>2 DEF OutOfMemoryIn, ctx
<1>3. ASSUME WeightsFlushed(l) \/ WeightsStashed(l)
      PROVE  Called("weights", l) /\ UNCHANGED <<last_layer, token_base, last_ubatch_tokens>>
  BY <1>3 DEF WeightsFlushed, WeightsStashed, Flush
<1>4. ASSUME Down(l)
      PROVE  Called("down", l) /\ UNCHANGED <<last_layer, token_base, last_ubatch_tokens>>
  BY <1>4 DEF Down, Flush
<1>5. CASE Ignored("topk", l, ~Fits("topk", l))
  BY <1>1, <1>5 DEF Ignored
<1>6. CASE \E kind \in {"weights", "down"} :
              \/ Ignored(kind, l, overflow \/ pend_layer # l \/ ~Fits(kind, l))
              \/ OutOfMemoryIn(kind, l)
  BY <1>1, <1>2, <1>6
<1> QED
  BY <1>3, <1>4, <1>5, <1>6 DEF TraceCb

\* Tensors come layer by layer (the order llama.cpp computes them in).
LEMMA OrderedStep == ASSUME TraceInv, [Next]_vars PROVE Ordered'
<1>0. args' = args /\ unfit' = unfit /\ Graph' = Graph /\ Ordered
  BY Settled, SettledOps DEF TraceInv
<1>1. CASE \E l \in MoeLayers : TraceCb(l)
  <2>0. PICK l \in MoeLayers : \E kind : Called(kind, l)
    BY <1>1, OtherThanTopk DEF Topk
  <2>1. PICK kind : Called(kind, l)
    BY <2>0
  <2>2. start' = start /\ p' = p /\ p < ChunkEnd /\ Tensor(kind, l) \in Graph
    BY <1>0, <2>1, CalledFacts
  <2>3. ChunkEnd' = ChunkEnd
    BY <1>0, <2>2, Steady
  <2>4. \A x \in Graph : ~(Before(x, Tensor(kind, l)) /\ Before(Tensor(kind, l), x))
    BY <2>2, TraceAssumption DEF Before, Graph, Rank
  <2>5. \A t \in todo', u \in Graph : Before(t, u) => u \in todo'
    BY <1>0, <2>1, <2>4 DEF Called, Ordered
  <2> QED
    BY <1>0, <2>1, <2>2, <2>3, <2>5 DEF Called, Ordered
<1>2. CASE Decode
  <2>1. start' = start /\ p' = p /\ p < ChunkEnd /\ todo' = Graph
    BY <1>2 DEF Decode, driver
  <2>2. ChunkEnd' = ChunkEnd
    BY <1>0, <2>1, Steady
  <2> QED
    BY <1>0, <2>1, <2>2 DEF Ordered
<1>3. CASE DecodeReturns \/ DecodeFails \/ NextChunk \/ Cleanup
  BY <1>3 DEF DecodeReturns, DecodeFails, NextChunk, Cleanup, Ordered
<1>4. CASE UNCHANGED vars
  <2>1. start' = start /\ p' = p /\ todo' = todo /\ pc' = pc
    BY <1>4 DEF vars, driver
  <2>2. ChunkEnd' = ChunkEnd
    BY <1>0, <2>1, Steady
  <2> QED
    BY <1>0, <2>1, <2>2 DEF Ordered
<1> QED
  BY <1>1, <1>2, <1>3, <1>4 DEF Next

-----------------------------------------------------------------------------
(* The inferred token number *)

\* Taking the expert ids of a layer moves the count to the ubatch in hand, once.
LEMMA TopkCounts ==
    ASSUME TraceInv, NEW l \in MoeLayers, Topk(l)
    PROVE  UpToDate' /\ Reached' # {} /\ token_base' \in 0 .. Wanted
<1>0. Typed /\ Ordered /\ Based /\ Called("topk", l) /\ Fits("topk", l) /\ Advance(l)
      /\ last_layer' = l /\ last_ubatch_tokens' = Len(Content(l))
  BY DEF TraceInv, Topk
<1>1. /\ pc = "graph" /\ p < ChunkEnd
      /\ args' = args /\ unfit' = unfit /\ start' = start /\ p' = p
      /\ ~Seen("topk", l)
      /\ \A k, m : Seen(k, m)' <=> Seen(k, m) \/ (k = "topk" /\ m = l)
      /\ \A k, m : Tensor(k, m) \in Graph /\ Before(Tensor(k, m), Tensor("topk", l)) => Seen(k, m)
      /\ \A k, m : Tensor(k, m) \in Graph /\ Before(Tensor("topk", l), Tensor(k, m)) => ~Seen(k, m)
  BY <1>0, CalledFacts
<1>2. /\ Fitting' = Fitting /\ UbatchTokens' = UbatchTokens /\ Fed = p
      /\ UbatchTokens \in 1 .. NUbatch /\ p + UbatchTokens <= Wanted /\ p \in Nat /\ Wanted \in Nat
  BY <1>0, <1>1, SettledOps, Steady, Chunks, Limits DEF Typed
<1>3. l \in Fitting /\ Fitting \subseteq MoeLayers /\ Reached \subseteq Fitting
  BY <1>0 DEF Fitting, Reached
<1>4. Reached' = Reached \cup {l}
  BY <1>1, <1>2, <1>3 DEF Reached
<1>5. \A m \in MoeLayers : Tensor("topk", m) \in Graph
  BY DEF Tensor, Graph
<1>6. \A m \in MoeLayers : (m < l => Seen("topk", m)) /\ (l < m => ~Seen("topk", m))
  <2>1. \A m \in MoeLayers : (m < l => Before(Tensor("topk", m), Tensor("topk", l)))
                             /\ (l < m => Before(Tensor("topk", l), Tensor("topk", m)))
    BY DEF Tensor, Before
  <2> QED
    BY <1>1, <1>5, <2>1
<1>7. last_ubatch_tokens' = UbatchTokens
  <2>1. UbatchTokens \in Nat
    BY <1>2
  <2> QED
    BY <1>0, <1>2, <2>1, ContentIs
<1>8. token_base \in Nat /\ last_ubatch_tokens \in Nat
  BY <1>0, <1>2, TraceAssumption DEF Typed
<1>9. l \in Nat /\ \A m \in MoeLayers : m \in Nat
  BY TraceAssumption
<1>10. CASE Reached = {}
  <2>1. Behind
    BY <1>0, <1>1, <1>3, <1>10 DEF Based
  <2>2. \A m \in Fitting : l <= m
    BY <1>3, <1>6, <1>9, <1>10 DEF Reached
  <2>3. token_base' = p
    <3>1. CASE p = 0
      <4>1. last_layer = -1 /\ token_base = 0
        BY <1>2, <1>8, <2>1, <3>1 DEF Behind, None
      <4> QED
        BY <1>0, <1>9, <3>1, <4>1 DEF Advance
    <3>2. CASE p # 0
      <4>1. last_layer \in Nat /\ l <= last_layer /\ token_base + last_ubatch_tokens = p
        BY <1>2, <1>3, <1>9, <2>1, <3>2 DEF Behind
      <4> QED
        BY <1>0, <4>1 DEF Advance
    <3> QED
      BY <3>1, <3>2
  <2>4. \A m \in Reached' : m <= l
    BY <1>4, <1>9, <1>10
  <2> QED
    BY <1>0, <1>1, <1>2, <1>4, <1>7, <2>3, <2>4 DEF UpToDate
<1>11. CASE Reached # {}
  <2>1. UpToDate
    BY <1>0, <1>1, <1>3, <1>11 DEF Based
  <2>2. last_layer \in MoeLayers /\ Seen("topk", last_layer)
    BY <2>1, <1>3 DEF UpToDate, Reached
  <2>3. last_layer < l
    BY <1>1, <1>6, <1>9, <2>2
  <2>4. token_base' = p
    BY <1>0, <1>2, <1>9, <2>1, <2>2, <2>3 DEF Advance, UpToDate
  <2>5. \A m \in Reached' : m <= l
    <3>1. \A m \in Reached : m <= last_layer /\ m \in Nat
      BY <1>3, <1>9, <2>1 DEF UpToDate
    <3> QED
      BY <1>4, <1>9, <2>2, <2>3, <3>1
  <2> QED
    BY <1>0, <1>1, <1>2, <1>4, <1>7, <2>4, <2>5 DEF UpToDate
<1> QED
  BY <1>10, <1>11

\* The token number inferred from the order of the layers follows the loops.
LEMMA BasedStep == ASSUME TraceInv, [Next]_vars PROVE Based' /\ token_base' \in 0 .. Wanted'
<1>0. args' = args /\ unfit' = unfit /\ Fitting' = Fitting /\ Wanted' = Wanted /\ ChunkTokens(args)' = ChunkTokens(args)
      /\ Typed /\ Ordered /\ Based
  BY Settled, SettledOps DEF TraceInv
<1>1. ASSUME UNCHANGED <<last_layer, token_base, last_ubatch_tokens>>
      PROVE  token_base' \in 0 .. Wanted'
  BY <1>0, <1>1 DEF Typed
<1>2. ASSUME NEW l \in MoeLayers, Topk(l)
      PROVE  Based' /\ token_base' \in 0 .. Wanted'
  <2>1. UpToDate' /\ Reached' # {} /\ token_base' \in 0 .. Wanted
    BY <1>2, TopkCounts
  <2>2. Fitting' # {}
    BY <2>1 DEF Reached
  <2>3. pc' = "graph"
    BY <1>2 DEF Topk, Called
  <2> QED
    BY <1>0, <2>1, <2>2, <2>3 DEF Based
<1>3. ASSUME NEW l \in MoeLayers, NEW kind, Called(kind, l), kind = "topk" => ~Fits("topk", l),
             UNCHANGED <<last_layer, token_base, last_ubatch_tokens>>
      PROVE  Based'
  <2>1. pc = "graph" /\ pc' = "graph" /\ start' = start /\ p' = p
        /\ \A k, m : Seen(k, m)' <=> Seen(k, m) \/ (k = kind /\ m = l)
    BY <1>0, <1>3, CalledFacts
  <2>2. Reached' = Reached
    BY <1>0, <1>3, <2>1 DEF Reached, Fitting
  <2>3. Fed' = Fed /\ UbatchTokens' = UbatchTokens
    BY <1>0, <2>1, Steady
  <2>4. Behind' = Behind /\ UpToDate' = UpToDate
    BY <1>0, <1>3, <2>1, <2>2, <2>3 DEF Behind, UpToDate
  <2> QED
    BY <1>0, <1>3, <2>1, <2>2, <2>4 DEF Based
<1>4. CASE \E l \in MoeLayers : TraceCb(l)
  BY <1>1, <1>2, <1>3, <1>4, OtherThanTopk
<1>5. CASE Decode
  <2>1. start' = start /\ p' = p /\ todo' = Graph /\ pc = "decode" /\ pc' = "graph" /\ p < ChunkEnd
        /\ UNCHANGED <<last_layer, token_base, last_ubatch_tokens>>
    BY <1>5 DEF Decode, driver, ctx
  <2>2. Fed' = Fed
    BY <1>0, <2>1, Steady
  <2>3. Reached' = {}
    BY <1>0, <2>1 DEF Reached, Seen, Graph, Tensor, Fitting
  <2>4. Behind' = Behind
    BY <1>0, <2>1, <2>2 DEF Behind
  <2> QED
    BY <1>0, <1>1, <2>1, <2>3, <2>4 DEF Based
<1>6. CASE DecodeReturns
  <2>1. start' = start /\ p' = p + NUbatch /\ todo = {} /\ pc = "graph" /\ pc' = "decode"
        /\ UNCHANGED <<last_layer, token_base, last_ubatch_tokens>>
    BY <1>6 DEF DecodeReturns, ctx
  <2>2. Reached = Fitting
    BY <2>1 DEF Reached, Seen
  <2>3. ChunkEnd' = ChunkEnd
    BY <1>0, <2>1 DEF ChunkEnd
  <2>4. p < ChunkEnd
    BY <1>0, <2>1 DEF Ordered
  <2>5. p \in Nat /\ UbatchTokens \in 1 .. NUbatch /\ Fed' = p + UbatchTokens
    <3>1. Fed' = Least(p + NUbatch, ChunkEnd)
      BY <2>1, <2>3 DEF Fed
    <3> QED
      BY <1>0, <2>4, <3>1, Chunks DEF Typed
  <2>6. CASE Fitting # {}
    <3>1. UpToDate
      BY <1>0, <2>1, <2>2, <2>6 DEF Based
    <3>2. last_layer \in MoeLayers /\ (\A m \in Fitting : m <= last_layer)
          /\ token_base + last_ubatch_tokens = p + UbatchTokens
      BY <2>2, <3>1 DEF UpToDate, Fitting
    <3>3. Behind'
      BY <1>0, <2>1, <2>5, <3>2, TraceAssumption DEF Behind
    <3> QED
      BY <1>0, <1>1, <2>1, <2>6, <3>3 DEF Based
  <2>7. CASE Fitting = {}
    BY <1>0, <1>1, <2>1, <2>7 DEF Based
  <2> QED
    BY <2>6, <2>7
<1>7. CASE NextChunk
  <2>1. pc = "decode" /\ UNCHANGED <<last_layer, token_base, last_ubatch_tokens>>
    BY <1>7 DEF NextChunk, ctx
  <2>2. CASE pc' = "cleanup"
    BY <1>0, <1>1, <2>1, <2>2 DEF Based
  <2>3. CASE pc' # "cleanup"
    <3>1. start + ChunkTokens(args) < Wanted /\ start' = start + ChunkTokens(args) /\ p' = start + ChunkTokens(args)
          /\ pc' = "decode" /\ p >= ChunkEnd
      BY <1>7, <2>3 DEF NextChunk
    <3>2. start \in Nat /\ p \in Nat /\ ChunkTokens(args) \in Nat \ {0} /\ Wanted \in Nat /\ ChunkEnd \in Nat
      BY <1>0, Chunks, Limits DEF Typed
    <3>3. Fed = start + ChunkTokens(args)
      BY <3>1, <3>2 DEF Fed, ChunkEnd, Least
    <3>4. Fed' = start + ChunkTokens(args)
      <4>1. ChunkEnd' = Least(start' + ChunkTokens(args), Wanted)
        BY <1>0 DEF ChunkEnd
      <4>2. ChunkEnd' \in Nat /\ ChunkEnd' > p'
        BY <3>1, <3>2, <4>1 DEF Least
      <4> QED
        BY <3>1, <3>2, <4>2 DEF Fed, Least
    <3>5. Behind' = Behind
      BY <1>0, <2>1, <3>3, <3>4 DEF Behind
    <3> QED
      BY <1>0, <1>1, <2>1, <3>1, <3>5 DEF Based
  <2> QED
    BY <2>2, <2>3
<1>8. CASE DecodeFails \/ Cleanup
  <2>1. pc' \in {"cleanup", "done"} /\ UNCHANGED <<last_layer, token_base, last_ubatch_tokens>>
    BY <1>8 DEF DecodeFails, Cleanup, ctx
  <2> QED
    BY <1>0, <1>1, <2>1 DEF Based
<1>9. CASE UNCHANGED vars
  <2>1. start' = start /\ p' = p /\ pc' = pc /\ todo' = todo
        /\ UNCHANGED <<last_layer, token_base, last_ubatch_tokens>>
    BY <1>9 DEF vars, driver, ctx
  <2>2. Fed' = Fed /\ UbatchTokens' = UbatchTokens /\ Reached' = Reached
    BY <1>0, <2>1, Steady DEF Reached, Seen
  <2>3. Behind' = Behind /\ UpToDate' = UpToDate
    BY <1>0, <2>1, <2>2 DEF Behind, UpToDate
  <2> QED
    BY <1>0, <1>1, <2>1, <2>2, <2>3 DEF Based
<1> QED
  BY <1>4, <1>5, <1>6, <1>7, <1>8, <1>9 DEF Next

-----------------------------------------------------------------------------
(* Records of a ubatch *)

\* When the weights or the output of the pending layer arrive, everything kept of it is of
\* the ubatch in hand, and no limit cuts into that ubatch.
LEMMA PendingNow ==
    ASSUME TraceInv, NEW l \in MoeLayers, NEW kind \in {"weights", "down"}, Called(kind, l), pend_layer = l
    PROVE  /\ l \in Fitting /\ Fits("stride", l)
           /\ pend_tokens = UbatchTokens /\ token_base = p
           /\ UbatchTokens \in 1 .. NUbatch /\ p + UbatchTokens <= Wanted /\ p \in Nat
           /\ Below(RecordLimit(args)) = UbatchTokens /\ Below(VectorLimit(args)) = UbatchTokens
           /\ Holds(ids, l)
           /\ kind = "down" => WantContrib
           /\ kind = "down" /\ Fits("weights", l) /\ ~overflow => Holds(pend_ids, l) /\ Holds(pend_w, l)
<1>0. Typed /\ Ordered /\ Based /\ Pending
  BY DEF TraceInv
<1>1. /\ pc = "graph" /\ p < ChunkEnd /\ Tensor(kind, l) \in Graph
      /\ \A k, m : Tensor(k, m) \in Graph /\ Before(Tensor(k, m), Tensor(kind, l)) => Seen(k, m)
  BY <1>0, CalledFacts
<1>2. UbatchTokens \in 1 .. NUbatch /\ p + UbatchTokens <= Wanted /\ p \in Nat /\ Wanted \in Nat
      /\ RecordLimit(args) \in Int /\ VectorLimit(args) = RecordLimit(args)
      /\ (RecordLimit(args) > 0 => Wanted <= RecordLimit(args))
  BY <1>0, <1>1, Chunks, Limits DEF Typed
<1>3. Seen("topk", l)
  <2>1. Tensor("topk", l) \in Graph /\ Before(Tensor("topk", l), Tensor(kind, l))
    BY DEF Tensor, Graph, Before, Rank
  <2> QED
    BY <1>1, <2>1
<1>4. kind = "down" => Seen("weights", l)
  <2>1. kind = "down" => Tensor("weights", l) \in Graph /\ Before(Tensor("weights", l), Tensor(kind, l))
    BY DEF Tensor, Graph, Before, Rank
  <2> QED
    BY <1>1, <2>1
<1>5. l # None /\ l \in Nat
  BY TraceAssumption DEF None
<1>6. l \in Fitting /\ Fits("stride", l) /\ pend_tokens = UbatchTokens /\ Holds(ids, l)
  BY <1>0, <1>1, <1>3, <1>5 DEF Pending
<1>7. token_base = p
  <2>1. l \in Reached
    BY <1>3, <1>6 DEF Reached
  <2> QED
    BY <1>0, <1>1, <1>6, <2>1 DEF Based, UpToDate
<1>8. kind = "down" => WantContrib
  BY <1>1 DEF Graph, Tensor
<1>9. Below(RecordLimit(args)) = UbatchTokens
  <2>1. RecordLimit(args) > 0 => token_base + pend_tokens <= RecordLimit(args)
    BY <1>2, <1>6, <1>7, TraceAssumption
  <2>2. token_base \in Nat /\ pend_tokens \in Nat
    BY <1>2, <1>6, <1>7
  <2> QED
    BY <1>2, <1>6, <2>1, <2>2, BelowAll
<1>10. kind = "down" /\ Fits("weights", l) /\ ~overflow => Holds(pend_ids, l) /\ Holds(pend_w, l)
  BY <1>0, <1>1, <1>3, <1>4, <1>5, <1>8 DEF Pending
<1> QED
  BY <1>2, <1>6, <1>7, <1>8, <1>9, <1>10

\* The records made of an ubatch, and those of its first tokens.
Batch(records, l) ==
    /\ records \in Seq(Entries)
    /\ \A i \in 1 .. Len(records) :
          records[i].layer = l /\ records[i].token = p + i - 1 /\ Joined(records[i])

Written(l, k) == \E c \in Seq(Entries) : Len(c) = k /\ Batch(c, l) /\ out' = out \o c

\* So is a prefix of them.
LEMMA BatchPrefix ==
    ASSUME NEW records, NEW l, Batch(records, l), NEW k \in 0 .. Len(records)
    PROVE  Batch(SubSeq(records, 1, k), l) /\ Len(SubSeq(records, 1, k)) = k
<1>1. records \in Seq(Entries) /\ k \in Int /\ 1 \in Int /\ k <= Len(records) /\ k >= 0
  BY DEF Batch
<1>2. \A i \in 1 .. k : records[i] \in Entries
  BY <1>1, ElementOfSeq
<1>3. PICK c : c = SubSeq(records, 1, k)
  OBVIOUS
<1>4. c \in Seq(Entries) /\ Len(c) = k /\ \A i \in 1 .. k : c[i] = records[i]
  BY <1>1, <1>2, <1>3, SubSeqProperties
<1> QED
  BY <1>1, <1>3, <1>4 DEF Batch

\* What a flush leaves: some records of the batch, and a failure unless it is all of them.
LEMMA FlushWrites ==
    ASSUME TraceInv, NEW l, NEW records, Batch(records, l), Len(records) = UbatchTokens,
           pend_tokens = UbatchTokens, Below(RecordLimit(args)) = UbatchTokens, UbatchTokens \in Nat,
           NEW spent \in Nat, Flush(records, spent)
    PROVE  \E k \in 0 .. UbatchTokens :
              /\ Written(l, k) /\ overflow' = (k < UbatchTokens)
              /\ faults' \in 0 .. MaxFaults /\ (k < UbatchTokens => faults' > 0)
              /\ (faults > 0 => faults' > 0)
              /\ pend_layer' = None
              /\ UNCHANGED <<pend_tokens, ids, pend_ids, pend_w, last_layer, token_base, last_ubatch_tokens>>
<1>1. PICK k \in 0 .. UbatchTokens :
        /\ faults' = faults + spent + Cost(k, UbatchTokens)
        /\ faults' <= MaxFaults
        /\ out' = out \o SubSeq(records, 1, k)
        /\ overflow' = (k < pend_tokens)
        /\ pend_layer' = None
        /\ UNCHANGED <<pend_tokens, ids, pend_ids, pend_w, last_layer, token_base, last_ubatch_tokens>>
  BY DEF Flush
<1>2. faults \in 0 .. MaxFaults
  BY DEF TraceInv, Typed
<1>3. faults' \in 0 .. MaxFaults /\ (k < UbatchTokens => faults' > 0) /\ (faults > 0 => faults' > 0)
  BY <1>1, <1>2, TraceAssumption DEF Cost
<1>4. Written(l, k)
  <2>1. Batch(SubSeq(records, 1, k), l) /\ Len(SubSeq(records, 1, k)) = k
    BY BatchPrefix
  <2>2. SubSeq(records, 1, k) \in Seq(Entries)
    BY <2>1 DEF Batch
  <2> QED
    BY <1>1, <2>1, <2>2 DEF Written
<1> QED
  BY <1>1, <1>3, <1>4

\* A record of the right types is an entry.
LEMMA EntryIs ==
    ASSUME NEW l \in MoeLayers, NEW t \in Nat, NEW a \in Origin, NEW b \in Origin, NEW c \in Origin,
           NEW r, r = [layer |-> l, token |-> t, ids |-> a, w |-> b, norm |-> c]
    PROVE  r \in Entries /\ r.layer = l /\ r.token = t /\ r.ids = a /\ r.w = b /\ r.norm = c
BY DEF Entries

\* The two kinds of records.
LEMMA WeightsBatch ==
    ASSUME TraceInv, NEW l \in MoeLayers, Called("weights", l), pend_layer = l,
           NEW records, records = [i \in 1 .. pend_tokens |-> Record(l, i, At(ids, i), Content(l)[i], NoNorm)]
    PROVE  Batch(records, l) /\ Len(records) = UbatchTokens
<1>1. /\ pend_tokens = UbatchTokens /\ token_base = p /\ UbatchTokens \in Nat /\ p \in Nat
      /\ Holds(ids, l)
  BY PendingNow
<1>2. \A i \in 1 .. UbatchTokens : Content(l)[i] = <<l, p + i - 1>>
  BY <1>1, ContentIs
<1>3. \A i \in 1 .. UbatchTokens : At(ids, i) = <<l, p + i - 1>>
  BY <1>1 DEF Holds, At, TraceInv, Typed
<1>4. \A i \in 1 .. UbatchTokens : records[i] = [layer |-> l, token |-> p + i - 1, ids |-> <<l, p + i - 1>>,
                                               w |-> <<l, p + i - 1>>, norm |-> NoNorm]
  BY <1>1, <1>2, <1>3 DEF Record
<1>5. \A i \in 1 .. UbatchTokens : p + i - 1 \in Nat /\ <<l, p + i - 1>> \in Origin /\ NoNorm \in Origin
  BY <1>1, TraceAssumption DEF Origin, NoNorm
<1>6. \A i \in 1 .. UbatchTokens : records[i] \in Entries /\ Joined(records[i])
                               /\ records[i].layer = l /\ records[i].token = p + i - 1
  <2> TAKE i \in 1 .. UbatchTokens
  <2>1. PICK t \in Nat : t = p + i - 1
    BY <1>5
  <2>2. <<l, t>> \in Origin /\ NoNorm \in Origin
        /\ records[i] = [layer |-> l, token |-> t, ids |-> <<l, t>>, w |-> <<l, t>>, norm |-> NoNorm]
    BY <1>4, <1>5, <2>1
  <2>3. records[i] \in Entries /\ records[i].layer = l /\ records[i].token = t
        /\ records[i].ids = <<l, t>> /\ records[i].w = <<l, t>> /\ records[i].norm = NoNorm
    <3>1. PICK a \in Origin, c \in Origin : a = <<l, t>> /\ c = NoNorm
      BY <2>2
    <3>2. records[i] = [layer |-> l, token |-> t, ids |-> a, w |-> a, norm |-> c]
      BY <2>2, <3>1
    <3>3. records[i] \in Entries /\ records[i].layer = l /\ records[i].token = t
          /\ records[i].ids = a /\ records[i].w = a /\ records[i].norm = c
      BY <3>2, EntryIs
    <3> QED
      BY <3>1, <3>3
  <2>4. Joined(records[i])
    BY <2>3 DEF Joined
  <2> QED
    BY <2>1, <2>3, <2>4
<1>7. records \in [1 .. UbatchTokens -> Entries]
  BY <1>1, <1>6
<1>8. records \in Seq(Entries) /\ Len(records) = UbatchTokens
  BY <1>1, <1>7
<1> QED
  BY <1>6, <1>8 DEF Batch

\* The same for ffn_moe_down, whose records take ids and weights from the stash.
LEMMA DownBatch ==
    ASSUME TraceInv, NEW l \in MoeLayers, Called("down", l), pend_layer = l, ~overflow
    PROVE  Batch(JoinedRecords(l), l) /\ Len(JoinedRecords(l)) = UbatchTokens
<1>1. /\ pend_tokens = UbatchTokens /\ token_base = p /\ UbatchTokens \in Nat /\ p \in Nat
      /\ WantContrib
      /\ Fits("weights", l) => Holds(pend_ids, l) /\ Holds(pend_w, l)
  BY PendingNow
<1>2. \A i \in 1 .. UbatchTokens : Content(l)[i] = <<l, p + i - 1>>
  BY <1>1, ContentIs
<1>3. \A i \in 1 .. UbatchTokens : At(pend_ids, i) \in Origin /\ At(pend_w, i) \in Origin
                       /\ (Fits("weights", l) => At(pend_ids, i) = <<l, p + i - 1>> /\ At(pend_w, i) = <<l, p + i - 1>>)
  <2> TAKE i \in 1 .. UbatchTokens
  <2>1. pend_ids \in Seq(Origin) /\ pend_w \in Seq(Origin)
    BY DEF TraceInv, Typed
  <2>2. At(pend_ids, i) \in Origin /\ At(pend_w, i) \in Origin
    <3>1. Junk \in Origin /\ i \in Nat \ {0}
      BY <1>1 DEF Junk, Origin
    <3> QED
      BY <2>1, <3>1, ElementOfSeq DEF At
  <2>3. Fits("weights", l) => At(pend_ids, i) = <<l, p + i - 1>> /\ At(pend_w, i) = <<l, p + i - 1>>
    BY <1>1, <2>1 DEF At, Holds
  <2> QED
    BY <2>2, <2>3
<1>4. PICK records : records = JoinedRecords(l)
  OBVIOUS
<1>5. \A i \in 1 .. UbatchTokens : records[i] = [layer |-> l, token |-> p + i - 1, ids |-> At(pend_ids, i),
                                               w |-> At(pend_w, i), norm |-> <<l, p + i - 1>>]
  BY <1>1, <1>2, <1>4 DEF Record, JoinedRecords
<1>6. \A i \in 1 .. UbatchTokens : p + i - 1 \in Nat /\ <<l, p + i - 1>> \in Origin
  BY <1>1, TraceAssumption DEF Origin
<1>7. \A i \in 1 .. UbatchTokens : records[i] \in Entries
                               /\ records[i].layer = l /\ records[i].token = p + i - 1
                               /\ records[i].ids = At(pend_ids, i) /\ records[i].w = At(pend_w, i)
                               /\ records[i].norm = <<l, p + i - 1>>
  <2> TAKE i \in 1 .. UbatchTokens
  <2>1. PICK t \in Nat : t = p + i - 1
    BY <1>6
  <2>2. PICK a \in Origin, b \in Origin, c \in Origin :
           a = At(pend_ids, i) /\ b = At(pend_w, i) /\ c = <<l, p + i - 1>>
    BY <1>3, <1>6
  <2>3. records[i] = [layer |-> l, token |-> t, ids |-> a, w |-> b, norm |-> c]
    BY <1>5, <2>1, <2>2
  <2> QED
    BY <2>1, <2>2, <2>3, EntryIs
<1>8. \A i \in 1 .. UbatchTokens : Joined(records[i])
  <2> TAKE i \in 1 .. UbatchTokens
  <2>1. CASE Fits("weights", l)
    <3>1. records[i].ids = <<l, p + i - 1>> /\ records[i].w = <<l, p + i - 1>>
      BY <1>3, <1>7, <2>1
    <3> QED
      BY <1>7, <3>1 DEF Joined
  <2>2. CASE ~Fits("weights", l)
    BY <1>1, <1>7, <2>2 DEF Joined, Fits
  <2> QED
    BY <2>1, <2>2
<1>9. records \in [1 .. UbatchTokens -> Entries]
  BY <1>1, <1>4, <1>7 DEF JoinedRecords
<1>10. records \in Seq(Entries) /\ Len(records) = UbatchTokens
  BY <1>1, <1>9
<1> QED
  BY <1>4, <1>7, <1>8, <1>10 DEF Batch

\* The vectors of the first tokens of the ubatch.
Streamed(l, j) ==
    \E d \in Seq(Origin) : Len(d) = j /\ (\A i \in 1 .. j : d[i] = <<l, p + i - 1>>) /\ vec' = vec \o d

\* The vectors of a ubatch are those of its tokens.
LEMMA VectorsAre ==
    ASSUME UbatchTokens \in Nat, p \in Nat, NEW l \in MoeLayers, Below(VectorLimit(args)) = UbatchTokens
    PROVE  /\ Len(Vectors(l)) = UbatchTokens
           /\ \A j \in 0 .. UbatchTokens : vec' = vec \o SubSeq(Vectors(l), 1, j) => Streamed(l, j)
           /\ Vectors(l) = Content(l)
<1>1. PICK c \in Seq(Origin) : c = Content(l)
  BY ContentIs
<1>2. Len(c) = UbatchTokens /\ \A i \in 1 .. UbatchTokens : c[i] = <<l, p + i - 1>>
  BY <1>1, ContentIs
<1>3. Vectors(l) = c
  BY <1>1, <1>2, SubSeqFull DEF Vectors
<1>4. ASSUME NEW j \in 0 .. UbatchTokens, vec' = vec \o SubSeq(c, 1, j)
      PROVE  Streamed(l, j)
  <2>1. \A i \in 1 .. j : c[i] \in Origin
    BY <1>2, ElementOfSeq
  <2>2. PICK d : d = SubSeq(c, 1, j)
    OBVIOUS
  <2>3. j \in Int /\ 1 \in Int
    OBVIOUS
  <2>4. d \in Seq(Origin) /\ Len(d) = (IF 1 <= j THEN j - 1 + 1 ELSE 0) /\ \A i \in 1 .. j - 1 + 1 : d[i] = c[1 + i - 1]
    BY <2>1, <2>2, <2>3, SubSeqProperties
  <2>5. Len(d) = j /\ \A i \in 1 .. j : d[i] = c[i]
    BY <2>4
  <2>6. \A i \in 1 .. j : d[i] = <<l, p + i - 1>>
    <3> TAKE i \in 1 .. j
    <3>1. i \in 1 .. UbatchTokens
      OBVIOUS
    <3>2. d[i] = c[i] /\ c[i] = <<l, p + i - 1>>
      BY <1>2, <2>5, <3>1
    <3> QED
      BY <3>2
  <2>7. d \in Seq(Origin) /\ vec' = vec \o d
    BY <1>4, <2>2, <2>4
  <2> QED
    BY <2>5, <2>6, <2>7 DEF Streamed
<1> QED
  BY <1>1, <1>2, <1>3, <1>4

\* The last tensor of a layer writes the records of the ubatch, or the first of them.
LEMMA Completes ==
    ASSUME TraceInv, NEW l \in MoeLayers, WeightsFlushed(l) \/ Down(l)
    PROVE  /\ Called(Final, l) /\ ~overflow /\ pend_layer = l /\ l \in Recorded
           /\ \E k \in 0 .. UbatchTokens :
                 /\ Written(l, k) /\ overflow' = (k < UbatchTokens)
                 /\ faults' \in 0 .. MaxFaults /\ (k < UbatchTokens => faults' > 0)
                 /\ (faults > 0 => faults' > 0)
                 /\ pend_layer' = None
                 /\ UNCHANGED <<pend_tokens, ids, pend_ids, pend_w, last_layer, token_base, last_ubatch_tokens>>
           /\ \/ ~vec_out /\ UNCHANGED <<vec, vec_out>>
              \/ vec_out /\ \E j \in 0 .. UbatchTokens : Streamed(l, j) /\ vec_out' = (j = UbatchTokens)
<1>1. CASE WeightsFlushed(l)
  <2>1. Called("weights", l) /\ ~WantContrib /\ ~overflow /\ pend_layer = l /\ Fits("weights", l)
        /\ UNCHANGED <<vec, vec_out>>
    BY <1>1 DEF WeightsFlushed
  <2>2. PICK records : records = [i \in 1 .. pend_tokens |-> Record(l, i, At(ids, i), Content(l)[i], NoNorm)]
    OBVIOUS
  <2>3. Flush(records, 0)
    BY <1>1, <2>2 DEF WeightsFlushed
  <2>4. l \in Fitting /\ Fits("stride", l) /\ pend_tokens = UbatchTokens /\ UbatchTokens \in Nat
        /\ Below(RecordLimit(args)) = UbatchTokens
    BY <2>1, PendingNow
  <2>5. Batch(records, l) /\ Len(records) = UbatchTokens
    BY <2>1, <2>2, WeightsBatch
  <2>6. \E k \in 0 .. UbatchTokens :
                 /\ Written(l, k) /\ overflow' = (k < UbatchTokens)
                 /\ faults' \in 0 .. MaxFaults /\ (k < UbatchTokens => faults' > 0)
                 /\ (faults > 0 => faults' > 0)
                 /\ pend_layer' = None
                 /\ UNCHANGED <<pend_tokens, ids, pend_ids, pend_w, last_layer, token_base, last_ubatch_tokens>>
    BY <2>3, <2>4, <2>5, FlushWrites
  <2>7. l \in Recorded
    BY <2>1, <2>4 DEF Recorded, Fitting, Fits
  <2>8. ~vec_out
    BY <2>1 DEF TraceInv, Aligned, WantContrib
  <2>9. Final = "weights"
    BY <2>1 DEF Final
  <2> QED
    BY <2>1, <2>6, <2>7, <2>8, <2>9
<1>2. CASE Down(l)
  <2>1. Called("down", l) /\ ~overflow /\ pend_layer = l /\ Fits("down", l)
    BY <1>2 DEF Down
  <2>2. l \in Fitting /\ Fits("stride", l) /\ pend_tokens = UbatchTokens /\ UbatchTokens \in Nat /\ p \in Nat
        /\ Below(RecordLimit(args)) = UbatchTokens /\ Below(VectorLimit(args)) = UbatchTokens
        /\ WantContrib
    BY <2>1, PendingNow
  <2>3. Batch(JoinedRecords(l), l) /\ Len(JoinedRecords(l)) = UbatchTokens
    BY <2>1, DownBatch
  <2>4. /\ \E spent \in Nat : Flush(JoinedRecords(l), spent)
        /\ \/ ~vec_out /\ UNCHANGED <<vec, vec_out>>
           \/ vec_out /\ \E j \in 0 .. UbatchTokens : Streamed(l, j) /\ vec_out' = (j = UbatchTokens)
    <3>1. CASE vec_out
      <4>1. Len(Vectors(l)) = UbatchTokens
            /\ \A j \in 0 .. UbatchTokens : vec' = vec \o SubSeq(Vectors(l), 1, j) => Streamed(l, j)
        BY <2>2, VectorsAre
      <4>2. PICK j \in 0 .. UbatchTokens :
              /\ vec' = vec \o SubSeq(Vectors(l), 1, j)
              /\ vec_out' = (j = UbatchTokens)
              /\ Flush(JoinedRecords(l), Cost(j, UbatchTokens))
        BY <1>2, <3>1, <4>1 DEF Down
      <4>3. Cost(j, UbatchTokens) \in Nat
        BY DEF Cost
      <4> QED
        BY <3>1, <4>1, <4>2, <4>3
    <3>2. CASE ~vec_out
      BY <1>2, <3>2 DEF Down
    <3> QED
      BY <3>1, <3>2
  <2>5. \E k \in 0 .. UbatchTokens :
                 /\ Written(l, k) /\ overflow' = (k < UbatchTokens)
                 /\ faults' \in 0 .. MaxFaults /\ (k < UbatchTokens => faults' > 0)
                 /\ (faults > 0 => faults' > 0)
                 /\ pend_layer' = None
                 /\ UNCHANGED <<pend_tokens, ids, pend_ids, pend_w, last_layer, token_base, last_ubatch_tokens>>
    BY <2>2, <2>3, <2>4, FlushWrites
  <2>6. l \in Recorded /\ Final = "down"
    BY <2>1, <2>2 DEF Recorded, Fitting, Fits, Final
  <2> QED
    BY <2>1, <2>4, <2>5, <2>6
<1> QED
  BY <1>1, <1>2

\* The callbacks, by what they do.
Skipped(kind, l) ==
    /\ Called(kind, l)
    /\ IF kind = "topk" THEN ~Fits("topk", l) ELSE overflow \/ pend_layer # l \/ ~Fits(kind, l)
    /\ UNCHANGED <<ctx, overflow, out, vec, vec_out, faults>>

\* What a call of trace_cb can be.
LEMMA CallbackKinds ==
    ASSUME NEW l \in MoeLayers, TraceCb(l)
    PROVE  \/ Topk(l)
           \/ WeightsFlushed(l) \/ Down(l)
           \/ WeightsStashed(l)
           \/ \E kind \in {"topk", "weights", "down"} : Skipped(kind, l)
           \/ \E kind \in {"weights", "down"} : OutOfMemoryIn(kind, l)
BY DEF TraceCb, Ignored, Skipped

-----------------------------------------------------------------------------
(* What is pending *)

\* Where a callback stands among those of other layers.
LEMMA Around ==
    ASSUME Ordered, NEW l \in MoeLayers, NEW kind, Called(kind, l), NEW m \in MoeLayers, NEW k,
           Tensor(k, m) \in Graph
    PROVE  (m < l => Seen(k, m)) /\ (l < m => ~Seen(k, m))
<1>1. (m < l => Before(Tensor(k, m), Tensor(kind, l))) /\ (l < m => Before(Tensor(kind, l), Tensor(k, m)))
  BY DEF Tensor, Before
<1> QED
  BY <1>1, CalledFacts

\* A callback leaves the loops alone.
LEMMA InGraph ==
    ASSUME NEW l \in MoeLayers
    PROVE  Tensor("topk", l) \in Graph /\ Tensor("weights", l) \in Graph /\ Tensor(Final, l) \in Graph
BY DEF Tensor, Graph, Final

\* The expert ids begin a pending layer.
LEMMA PendingTopk == ASSUME TraceInv, NEW l \in MoeLayers, Topk(l) PROVE Pending'
<1>0. Typed /\ Ordered /\ Pending /\ Called("topk", l) /\ Fits("topk", l) /\ l # None /\ l \in Nat
  BY TraceAssumption DEF TraceInv, Topk, None
<1>1. /\ pc = "graph" /\ pc' = "graph" /\ p < ChunkEnd
      /\ args' = args /\ unfit' = unfit /\ start' = start /\ p' = p
      /\ ~Seen("topk", l)
      /\ \A k, m : Seen(k, m)' <=> Seen(k, m) \/ (k = "topk" /\ m = l)
      /\ \A k, m : Tensor(k, m) \in Graph /\ Before(Tensor("topk", l), Tensor(k, m)) => ~Seen(k, m)
  BY <1>0, CalledFacts
<1>2. /\ Fitting' = Fitting /\ UbatchTokens' = UbatchTokens /\ Final' = Final /\ Recorded' = Recorded
      /\ UbatchTokens \in 1 .. NUbatch /\ p \in Nat
      /\ \A kind, m : Fits(kind, m)' = Fits(kind, m)
  BY <1>0, <1>1, SettledOps, Steady, Chunks DEF Typed
<1>3. ~Seen("weights", l)'
  <2>1. Before(Tensor("topk", l), Tensor("weights", l))
    BY DEF Tensor, Before, Rank
  <2> QED
    BY <1>1, <2>1, InGraph
<1>4. pend_layer' \in {l, None}
  BY DEF Topk
<1>5. l \in Fitting
  BY <1>0 DEF Fitting
<1>6. pend_layer' = l =>
        Fits("stride", l) /\ ids' = Overwrite(ids, Content(l)) /\ pend_tokens' = Len(Content(l))
  BY <1>0 DEF Topk
<1>7. pend_layer' = l => pend_tokens' = UbatchTokens /\ Holds(ids, l)'
  <2>1. SUFFICES ASSUME pend_layer' = l PROVE pend_tokens' = UbatchTokens /\ Holds(ids, l)'
    OBVIOUS
  <2>2. PICK c \in Seq(Origin) : c = Content(l)
    BY <1>2, ContentIs
  <2>3. Len(c) = UbatchTokens /\ \A i \in 1 .. UbatchTokens : c[i] = <<l, p + i - 1>>
    BY <1>2, <2>2, ContentIs
  <2>4. ids \in Seq(Origin) /\ ids' = Overwrite(ids, c)
    BY <1>0, <1>6, <2>1, <2>2 DEF Typed
  <2>5. Len(ids') >= Len(c) /\ \A i \in 1 .. Len(c) : ids'[i] = c[i]
    BY <2>4, OverwriteIs
  <2> QED
    BY <1>1, <1>2, <1>6, <2>1, <2>2, <2>3, <2>5 DEF Holds
<1>8. ~overflow' /\ Fits("stride", l) => pend_layer' = l
  BY DEF Topk, OutOfMemory
<1>9. ASSUME ~overflow', NEW m \in Recorded, Seen("topk", m)', ~Seen(Final, m)'
      PROVE  pend_layer' = m
  <2>1. m \in MoeLayers /\ m \in Nat
    BY TraceAssumption DEF Recorded
  <2>2. CASE m = l
    <3>1. Fits("stride", l)
      BY <2>2 DEF Recorded, Fits
    <3> QED
      BY <1>8, <1>9, <2>2, <3>1
  <2>3. CASE m # l
    <3>1. Seen("topk", m) /\ ~Seen(Final, m)
      BY <1>1, <1>2, <1>9, <2>3
    <3>2. Tensor("topk", m) \in Graph /\ Tensor(Final, m) \in Graph
      BY <2>1, InGraph
    <3>3. ~(l < m) /\ ~(m < l)
      BY <1>0, <2>1, <3>1, <3>2, Around
    <3> QED
      BY <1>0, <2>1, <2>3, <3>3
  <2> QED
    BY <2>2, <2>3
<1> QED
  BY <1>1, <1>2, <1>3, <1>4, <1>5, <1>6, <1>7, <1>9 DEF Pending

\* The weights join them in the stash.
LEMMA PendingStashed == ASSUME TraceInv, NEW l \in MoeLayers, WeightsStashed(l) PROVE Pending'
<1>0. Typed /\ Ordered /\ Pending /\ Called("weights", l) /\ pend_layer = l /\ ~overflow /\ l # None /\ WantContrib
      /\ Stash(l) /\ UNCHANGED <<pend_layer, pend_tokens, ids, overflow>>
  BY TraceAssumption DEF TraceInv, WeightsStashed, None
<1>1. /\ pc = "graph" /\ pc' = "graph"
      /\ args' = args /\ unfit' = unfit /\ start' = start /\ p' = p
      /\ \A k, m : Seen(k, m)' <=> Seen(k, m) \/ (k = "weights" /\ m = l)
      /\ \A k, m : Tensor(k, m) \in Graph /\ Before(Tensor(k, m), Tensor("weights", l)) => Seen(k, m)
  BY <1>0, CalledFacts
<1>2. /\ Fitting' = Fitting /\ UbatchTokens' = UbatchTokens /\ Final' = Final /\ Recorded' = Recorded
      /\ \A kind, m : Fits(kind, m)' = Fits(kind, m)
  BY <1>1, SettledOps, Steady
<1>3. /\ pend_tokens = UbatchTokens /\ UbatchTokens \in 1 .. NUbatch /\ p \in Nat /\ Holds(ids, l)
  BY <1>0, PendingNow
<1>4. Holds(ids, l)'
  BY <1>0, <1>1, <1>2, <1>3 DEF Holds
<1>5. Holds(pend_w, l)'
  <2>1. PICK c \in Seq(Origin) : c = Content(l)
    BY <1>3, ContentIs
  <2>2. Len(c) = UbatchTokens /\ \A i \in 1 .. UbatchTokens : c[i] = <<l, p + i - 1>>
    BY <1>3, <2>1, ContentIs
  <2>3. pend_w \in Seq(Origin) /\ pend_w' = Overwrite(pend_w, c)
    BY <1>0, <2>1 DEF Typed, Stash
  <2>4. Len(pend_w') >= Len(c) /\ \A i \in 1 .. Len(c) : pend_w'[i] = c[i]
    BY <2>3, OverwriteIs
  <2> QED
    BY <1>1, <1>2, <2>2, <2>4 DEF Holds
<1>6. Holds(pend_ids, l)'
  <2>1. PICK c : c = SubSeq(ids, 1, UbatchTokens)
    OBVIOUS
  <2>2. UbatchTokens \in Nat /\ UbatchTokens <= Len(ids) /\ \A i \in 1 .. UbatchTokens : ids[i] \in Origin
    BY <1>0, <1>3, ElementOfSeq DEF Holds, Typed
  <2>3. c \in Seq(Origin) /\ Len(c) = UbatchTokens /\ \A i \in 1 .. UbatchTokens : c[i] = ids[i]
    <3>1. PICK n \in Int : n = UbatchTokens
      BY <2>2
    <3>2. \A i \in 1 .. n : ids[i] \in Origin
      BY <2>2, <3>1
    <3>3. 1 \in Int /\ c = SubSeq(ids, 1, n)
      BY <2>1, <3>1
    <3>4. c \in Seq(Origin) /\ Len(c) = (IF 1 <= n THEN n - 1 + 1 ELSE 0) /\ \A i \in 1 .. n - 1 + 1 : c[i] = ids[1 + i - 1]
      BY <3>2, <3>3, SubSeqProperties
    <3> QED
      BY <2>2, <3>1, <3>4
  <2>4. pend_ids \in Seq(Origin) /\ pend_ids' = Overwrite(pend_ids, c)
    BY <1>0, <1>3, <2>1 DEF Typed, Stash
  <2>5. Len(pend_ids') >= Len(c) /\ \A i \in 1 .. Len(c) : pend_ids'[i] = c[i]
    BY <2>3, <2>4, OverwriteIs
  <2>6. \A i \in 1 .. UbatchTokens : ids[i] = <<l, p + i - 1>>
    BY <1>3 DEF Holds
  <2> QED
    BY <1>1, <1>2, <2>3, <2>5, <2>6 DEF Holds
<1>7. Seen("topk", l)
  <2>1. Before(Tensor("topk", l), Tensor("weights", l))
    BY DEF Tensor, Before, Rank
  <2> QED
    BY <1>1, <2>1, InGraph
<1>8. Final = "down"
  BY <1>0 DEF Final
<1> QED
  BY <1>0, <1>1, <1>2, <1>3, <1>4, <1>5, <1>6, <1>7, <1>8 DEF Pending

\* What is pending, and what is kept of it, is of the ubatch in hand in every step.
LEMMA PendingStep == ASSUME TraceInv, [Next]_vars PROVE Pending'
<1>0. /\ args' = args /\ unfit' = unfit /\ Fitting' = Fitting /\ Final' = Final /\ Recorded' = Recorded /\ Graph' = Graph
      /\ \A kind, m : Fits(kind, m)' = Fits(kind, m)
      /\ WantContrib' = WantContrib
      /\ Typed /\ Ordered /\ Pending
  BY Settled, SettledOps DEF TraceInv
<1>1. ASSUME NEW l \in MoeLayers, WeightsFlushed(l) \/ Down(l)
      PROVE  Pending'
  <2>1. Called(Final, l) /\ ~overflow /\ pend_layer = l /\ pend_layer' = None
    BY <1>1, Completes
  <2>2. pc = "graph" /\ \A k, m : Seen(k, m)' <=> Seen(k, m) \/ (k = Final /\ m = l)
    BY <1>0, <2>1, CalledFacts
  <2>3. ASSUME NEW m \in Recorded, Seen("topk", m)', ~Seen(Final, m)'
        PROVE  FALSE
    <3>1. m # l /\ Final # "topk"
      BY <1>0, <2>2, <2>3 DEF Final
    <3>2. Seen("topk", m) /\ ~Seen(Final, m)
      BY <1>0, <2>2, <2>3, <3>1
    <3> QED
      BY <1>0, <2>1, <2>2, <3>1, <3>2 DEF Pending
  <2> QED
    BY <1>0, <2>1, <2>3 DEF Pending
<1>2. ASSUME NEW l \in MoeLayers, NEW kind \in {"topk", "weights", "down"}, Called(kind, l),
             UNCHANGED <<pend_layer, pend_tokens, ids>>, kind = "topk" => ~Fits("topk", l)
      PROVE  /\ pc = "graph" /\ \A k, m : Seen(k, m)' <=> Seen(k, m) \/ (k = kind /\ m = l)
             /\ pend_layer' # None => pend_layer' \in Fitting' /\ Fits("stride", pend_layer)'
             /\ pend_layer' # None => (Seen("topk", pend_layer)' <=> Seen("topk", pend_layer))
             /\ pend_layer' # None /\ Seen("topk", pend_layer)' =>
                   pend_tokens' = UbatchTokens' /\ Holds(ids, pend_layer)'
             /\ UbatchTokens' = UbatchTokens /\ p' = p
             /\ \A m \in Recorded : Seen("topk", m)' /\ ~Seen(Final, m)' => Seen("topk", m) /\ ~Seen(Final, m)
  <2>1. /\ pc = "graph" /\ \A k, m : Seen(k, m)' <=> Seen(k, m) \/ (k = kind /\ m = l)
        /\ start' = start /\ p' = p
    BY <1>0, <1>2, CalledFacts
  <2>2. UbatchTokens' = UbatchTokens
    BY <1>0, <2>1, Steady
  <2>3. \A m \in Fitting : Seen("topk", m)' <=> Seen("topk", m)
    BY <1>2, <2>1 DEF Fitting
  <2>4. \A m \in Recorded : m \in Fitting
    BY DEF Recorded, Fitting, Fits
  <2>5. pend_layer' # None => pend_layer' \in Fitting' /\ Fits("stride", pend_layer)'
    BY <1>0, <1>2 DEF Pending
  <2>6. pend_layer' # None => (Seen("topk", pend_layer)' <=> Seen("topk", pend_layer))
    BY <1>0, <1>2, <2>3, <2>5
  <2>7. pend_layer' # None /\ Seen("topk", pend_layer)' =>
                   pend_tokens' = UbatchTokens' /\ Holds(ids, pend_layer)'
    BY <1>0, <1>2, <2>1, <2>2, <2>6 DEF Pending, Holds
  <2> QED
    BY <1>0, <2>1, <2>2, <2>3, <2>4, <2>5, <2>6, <2>7
<1>3. ASSUME NEW l \in MoeLayers, NEW kind \in {"topk", "weights", "down"}, Skipped(kind, l)
      PROVE  Pending'
  <2>1. Called(kind, l) /\ UNCHANGED <<pend_layer, pend_tokens, ids, pend_ids, pend_w, overflow>>
        /\ (IF kind = "topk" THEN ~Fits("topk", l) ELSE overflow \/ pend_layer # l \/ ~Fits(kind, l))
    BY <1>3 DEF Skipped, ctx
  <2>2. ASSUME pend_layer' # None, Seen("topk", pend_layer)', Seen("weights", pend_layer)', WantContrib,
               Fits("weights", pend_layer), ~overflow
        PROVE  Holds(pend_ids, pend_layer)' /\ Holds(pend_w, pend_layer)'
    <3>1. Seen("weights", pend_layer) /\ Seen("topk", pend_layer)
      BY <1>2, <2>1, <2>2
    <3>2. Holds(pend_ids, pend_layer) /\ Holds(pend_w, pend_layer)
      BY <1>0, <1>2, <2>1, <2>2, <3>1 DEF Pending
    <3> QED
      BY <1>2, <2>1, <3>2 DEF Holds
  <2> QED
    BY <1>0, <1>2, <2>1, <2>2 DEF Pending
<1>4. ASSUME NEW l \in MoeLayers, NEW kind \in {"weights", "down"}, OutOfMemoryIn(kind, l)
      PROVE  Pending'
  <2>1. Called(kind, l) /\ UNCHANGED <<pend_layer, pend_tokens, ids, pend_ids, pend_w>> /\ overflow'
    BY <1>4 DEF OutOfMemoryIn, OutOfMemory, ctx
  <2> QED
    BY <1>2, <2>1 DEF Pending
<1>5. CASE \E l \in MoeLayers : TraceCb(l)
  BY <1>1, <1>3, <1>4, <1>5, CallbackKinds, PendingTopk, PendingStashed
<1>6. CASE Decode
  <2>1. todo' = Graph /\ pc' = "graph" /\ UNCHANGED <<pend_layer>>
    BY <1>6 DEF Decode, ctx
  <2>2. \A l \in MoeLayers : ~Seen("topk", l)'
    BY <2>1, InGraph DEF Seen
  <2>3. pend_layer' \in MoeLayers \cup {None} /\ \A l \in Recorded : l \in MoeLayers
    BY <1>0, <2>1 DEF Typed, Recorded
  <2> QED
    BY <1>0, <2>1, <2>2, <2>3 DEF Pending
<1>7. CASE DecodeReturns \/ DecodeFails \/ NextChunk \/ Cleanup
  <2>1. pc' # "graph" /\ UNCHANGED pend_layer
    BY <1>7 DEF DecodeReturns, DecodeFails, NextChunk, Cleanup, ctx
  <2> QED
    BY <1>0, <2>1 DEF Pending
<1>8. CASE UNCHANGED vars
  <2>1. UNCHANGED <<pc, todo, start, p, pend_layer, pend_tokens, ids, pend_ids, pend_w, overflow>>
    BY <1>8 DEF vars, ctx, driver
  <2>2. UbatchTokens' = UbatchTokens
    BY <1>0, <2>1, Steady
  <2> QED
    BY <1>0, <2>1, <2>2 DEF Pending, Holds, Seen
<1> QED
  BY <1>5, <1>6, <1>7, <1>8 DEF Next

-----------------------------------------------------------------------------
(* The two streams *)

\* Records are only written by the last tensor of a layer, vectors also just before the
\* memory for a record runs out.
LEMMA StreamSteps ==
    ASSUME TraceInv, [Next]_vars
    PROVE  \/ \E l \in MoeLayers : WeightsFlushed(l) \/ Down(l)
           \/ \E l \in MoeLayers, kind \in {"weights", "down"} : OutOfMemoryIn(kind, l)
           \/ UNCHANGED <<out, vec, vec_out>> /\ (overflow => overflow')
<1>1. ASSUME NEW l \in MoeLayers, TraceCb(l)
      PROVE  \/ WeightsFlushed(l) \/ Down(l)
             \/ \E kind \in {"weights", "down"} : OutOfMemoryIn(kind, l)
             \/ UNCHANGED <<out, vec, vec_out>> /\ (overflow => overflow')
  <2>1. Topk(l) => UNCHANGED <<out, vec, vec_out>> /\ (overflow => overflow')
    BY DEF Topk, OutOfMemory
  <2>2. WeightsStashed(l) => UNCHANGED <<out, vec, vec_out>> /\ (overflow => overflow')
    BY DEF WeightsStashed
  <2>3. \A kind : Skipped(kind, l) => UNCHANGED <<out, vec, vec_out>> /\ (overflow => overflow')
    BY DEF Skipped
  <2> QED
    BY <1>1, <2>1, <2>2, <2>3, CallbackKinds
<1>2. Decode \/ DecodeReturns \/ DecodeFails \/ NextChunk \/ Cleanup \/ UNCHANGED vars =>
        UNCHANGED <<out, vec, vec_out>> /\ (overflow => overflow')
  BY DEF Decode, DecodeReturns, DecodeFails, NextChunk, Cleanup, vars
<1> QED
  BY <1>1, <1>2 DEF Next

\* Each step writes records made of what their own layer computed for their own token.
LEMMA JoinedStep == ASSUME TraceInv, [Next]_vars PROVE JoinedAll' /\ out' \in Seq(Entries)
<1>0. args' = args /\ unfit' = unfit /\ WantContrib' = WantContrib /\ out \in Seq(Entries) /\ JoinedAll
  BY Settled, SettledOps DEF TraceInv, Typed
<1>2. ASSUME NEW l \in MoeLayers, WeightsFlushed(l) \/ Down(l)
      PROVE  JoinedAll' /\ out' \in Seq(Entries)
  <2>1. PICK k \in 0 .. UbatchTokens : Written(l, k)
    BY <1>2, Completes
  <2>2. PICK c \in Seq(Entries) : Len(c) = k /\ Batch(c, l) /\ out' = out \o c
    BY <2>1 DEF Written
  <2>3. out' \in Seq(Entries) /\ Len(out') = Len(out) + Len(c)
        /\ \A i \in 1 .. Len(out) + Len(c) : out'[i] = IF i <= Len(out) THEN out[i] ELSE c[i - Len(out)]
    BY <1>0, <2>2, ConcatProperties
  <2>4. \A i \in 1 .. Len(out') : Joined(out'[i])
    <3> TAKE i \in 1 .. Len(out')
    <3>1. CASE i <= Len(out)
      BY <1>0, <2>3, <3>1 DEF JoinedAll
    <3>2. CASE ~(i <= Len(out))
      <4>1. i - Len(out) \in 1 .. Len(c) /\ out'[i] = c[i - Len(out)]
        BY <1>0, <2>3, <3>2
      <4> QED
        BY <2>2, <4>1 DEF Batch
    <3> QED
      BY <3>1, <3>2
  <2> QED
    BY <1>0, <2>3, <2>4 DEF JoinedAll, Joined
<1>3. ASSUME out' = out
      PROVE  JoinedAll' /\ out' \in Seq(Entries)
  BY <1>0, <1>3 DEF JoinedAll, Joined
<1> QED
  BY <1>2, <1>3, StreamSteps DEF OutOfMemoryIn

\* Each step keeps the vector stream beside the records.
LEMMA AlignedStep == ASSUME TraceInv, [Next]_vars PROVE Aligned' /\ vec' \in Seq(Origin) /\ vec_out' \in BOOLEAN
<1>0. args' = args /\ out \in Seq(Entries) /\ vec \in Seq(Origin) /\ Len(out) \in Nat /\ Len(vec) \in Nat
      /\ Aligned /\ Ordered /\ vec_out \in BOOLEAN /\ overflow \in BOOLEAN
  BY Settled DEF TraceInv, Typed
<1>1. ASSUME NEW l \in MoeLayers, WeightsFlushed(l) \/ Down(l)
      PROVE  Aligned' /\ vec' \in Seq(Origin) /\ vec_out' \in BOOLEAN
  <2>1. Called(Final, l) /\ ~overflow /\ pend_layer = l
    BY <1>1, Completes
  <2>2. UbatchTokens \in Nat /\ p \in Nat
    BY <2>1, PendingNow DEF Final
  <2>3. PICK k \in 0 .. UbatchTokens : Written(l, k) /\ overflow' = (k < UbatchTokens)
    BY <1>1, Completes
  <2>4. PICK c \in Seq(Entries) : Len(c) = k /\ Batch(c, l) /\ out' = out \o c
    BY <2>3 DEF Written
  <2>5. Len(out') = Len(out) + k
        /\ \A i \in 1 .. Len(out) + k : out'[i] = IF i <= Len(out) THEN out[i] ELSE c[i - Len(out)]
    BY <1>0, <2>4, ConcatProperties
  <2>6. CASE ~vec_out /\ UNCHANGED <<vec, vec_out>>
    <3>1. Len(vec) <= Len(out) /\ \A i \in 1 .. Len(vec) : vec[i] = <<out[i].layer, out[i].token>>
      BY <1>0, <2>1 DEF Aligned, StreamsAligned, Least
    <3>2. Len(vec) <= Len(out') /\ \A i \in 1 .. Len(vec) : vec[i] = <<out'[i].layer, out'[i].token>>
      BY <1>0, <2>5, <3>1
    <3>3. StreamsAligned'
      BY <1>0, <2>5, <2>6, <3>2 DEF StreamsAligned, Least
    <3> QED
      BY <1>0, <2>6, <3>2, <3>3 DEF Aligned
  <2>7. CASE vec_out /\ \E j \in 0 .. UbatchTokens : Streamed(l, j) /\ vec_out' = (j = UbatchTokens)
    <3>1. PICK j \in 0 .. UbatchTokens : Streamed(l, j) /\ vec_out' = (j = UbatchTokens)
      BY <2>7
    <3>2. PICK d \in Seq(Origin) : Len(d) = j /\ (\A i \in 1 .. j : d[i] = <<l, p + i - 1>>) /\ vec' = vec \o d
      BY <3>1 DEF Streamed
    <3>3. vec' \in Seq(Origin) /\ Len(vec') = Len(vec) + j
          /\ \A i \in 1 .. Len(vec) + j : vec'[i] = IF i <= Len(vec) THEN vec[i] ELSE d[i - Len(vec)]
      BY <1>0, <3>2, ConcatProperties
    <3>4. Len(vec) = Len(out) /\ \A i \in 1 .. Len(vec) : vec[i] = <<out[i].layer, out[i].token>>
      BY <1>0, <2>1, <2>7 DEF Aligned, StreamsAligned, Least
    <3>5. ASSUME NEW i \in 1 .. Len(out) + k, i <= Len(out) + j
          PROVE  vec'[i] = <<out'[i].layer, out'[i].token>>
      <4>1. CASE i <= Len(out)
        <5>1. i \in 1 .. Len(vec) /\ i \in 1 .. Len(vec) + j
          BY <3>4, <3>5, <4>1
        <5>2. vec'[i] = vec[i] /\ vec[i] = <<out[i].layer, out[i].token>>
          BY <3>3, <3>4, <5>1
        <5>3. out'[i] = out[i]
          BY <2>5, <4>1
        <5> QED
          BY <5>2, <5>3
      <4>2. CASE i > Len(out)
        <5>1. PICK n : n = i - Len(out)
          OBVIOUS
        <5>2. n \in 1 .. k /\ n \in 1 .. j
          BY <1>0, <3>5, <4>2, <5>1
        <5>3. vec'[i] = d[n] /\ out'[i] = c[n]
          <6>1. i \in 1 .. Len(vec) + j /\ ~(i <= Len(vec)) /\ i - Len(vec) = n
            BY <1>0, <3>4, <3>5, <4>2, <5>1
          <6>2. vec'[i] = d[n]
            BY <3>3, <6>1
          <6>3. out'[i] = c[n]
            BY <2>5, <3>5, <4>2, <5>1
          <6> QED
            BY <6>2, <6>3
        <5>4. d[n] = <<l, p + n - 1>>
          BY <3>2, <5>2
        <5>5. c[n].layer = l /\ c[n].token = p + n - 1
          BY <2>4, <5>2 DEF Batch
        <5> QED
          BY <5>3, <5>4, <5>5
      <4> QED
        BY <1>0, <4>1, <4>2
    <3>6. StreamsAligned'
      BY <1>0, <2>5, <3>3, <3>4, <3>5 DEF StreamsAligned, Least
    <3>7. (~overflow' => ~(k < UbatchTokens)) /\ (vec_out' => j = UbatchTokens)
      BY ONLY <2>3, <3>1
    <3>10. Len(vec') = Len(out) + j /\ Len(out') = Len(out) + k
      BY <2>5, <3>3, <3>4
    <3>8. ~overflow' => Len(vec') <= Len(out')
      BY <1>0, <2>2, <3>7, <3>10
    <3>9. ~overflow' /\ vec_out' => Len(vec') = Len(out')
      BY <2>2, <3>7, <3>10
    <3> QED
      BY <1>0, <2>7, <3>1, <3>3, <3>6, <3>8, <3>9 DEF Aligned
  <2> QED
    BY <1>1, <2>6, <2>7, Completes
<1>2. ASSUME NEW l \in MoeLayers, NEW kind \in {"weights", "down"}, OutOfMemoryIn(kind, l)
      PROVE  Aligned' /\ vec' \in Seq(Origin) /\ vec_out' \in BOOLEAN
  <2>1. Called(kind, l) /\ ~overflow /\ pend_layer = l /\ overflow' /\ UNCHANGED <<out, vec_out>>
        /\ (vec' = vec \/ (vec_out /\ vec' = vec \o Vectors(l)))
    BY <1>2 DEF OutOfMemoryIn, OutOfMemory
  <2>2. UbatchTokens \in Nat /\ p \in Nat /\ Below(VectorLimit(args)) = UbatchTokens
    BY <2>1, PendingNow
  <2>3. PICK d \in Seq(Origin) : d = Vectors(l)
    BY <2>2, VectorsAre, ContentIs
  <2>4. vec' \in Seq(Origin) /\ \A i \in 1 .. Len(vec) : vec'[i] = vec[i]
    <3>1. vec \o d \in Seq(Origin) /\ \A i \in 1 .. Len(vec) + Len(d) :
            (vec \o d)[i] = IF i <= Len(vec) THEN vec[i] ELSE d[i - Len(vec)]
      BY <1>0, <2>3, ConcatProperties
    <3>2. Len(d) \in Nat
      BY <2>3
    <3>3. \A i \in 1 .. Len(vec) : (vec \o d)[i] = vec[i]
      BY <1>0, <3>1, <3>2
    <3> QED
      BY <1>0, <2>1, <2>3, <3>1, <3>3
  <2>5. \A i \in 1 .. Least(Len(out), Len(vec')) : i \in 1 .. Least(Len(out), Len(vec))
    <3>1. CASE vec' = vec
      BY <3>1
    <3>2. CASE vec_out
      <4>1. Len(vec) = Len(out)
        BY <1>0, <2>1, <3>2 DEF Aligned
      <4> QED
        BY <1>0, <2>4, <4>1 DEF Least
    <3> QED
      BY <2>1, <3>1, <3>2
  <2>6. StreamsAligned'
    <3>1. ASSUME NEW i \in 1 .. Least(Len(out), Len(vec'))
          PROVE  vec'[i] = <<out[i].layer, out[i].token>>
      <4>1. i \in 1 .. Least(Len(out), Len(vec)) /\ i \in 1 .. Len(vec)
        BY <1>0, <2>5 DEF Least
      <4> QED
        BY <1>0, <2>4, <4>1 DEF Aligned, StreamsAligned
    <3> QED
      BY <2>1, <3>1 DEF StreamsAligned
  <2> QED
    BY <1>0, <2>1, <2>4, <2>6 DEF Aligned
<1>3. ASSUME UNCHANGED <<out, vec, vec_out>>, overflow => overflow'
      PROVE  Aligned' /\ vec' \in Seq(Origin) /\ vec_out' \in BOOLEAN
  BY <1>0, <1>3 DEF Aligned, StreamsAligned
<1> QED
  BY <1>1, <1>2, <1>3, StreamSteps

-----------------------------------------------------------------------------
(* The count of each layer *)

\* The loops go on where they stopped.
LEMMA FedSteps ==
    ASSUME TraceInv, [Next]_vars
    PROVE  /\ Decode => pc' = "graph" /\ p' = p /\ Fed = p
           /\ DecodeReturns => pc' = "decode" /\ Fed' = p + UbatchTokens
           /\ NextChunk => \/ pc' = "decode" /\ Fed' = Fed
                           \/ pc' = "cleanup" /\ (~overflow => Fed = Wanted)
<1>0. args' = args /\ Wanted' = Wanted /\ ChunkTokens(args)' = ChunkTokens(args) /\ Typed /\ Ordered
      /\ start \in Nat /\ p \in Nat /\ ChunkTokens(args) \in Nat \ {0} /\ Wanted \in Nat /\ ChunkEnd \in Nat
  BY Settled, SettledOps, Limits, Chunks DEF TraceInv, Typed
<1>1. Decode => pc' = "graph" /\ p' = p /\ Fed = p
  BY <1>0, Chunks DEF Decode, driver, Typed
<1>2. ASSUME DecodeReturns PROVE pc' = "decode" /\ Fed' = p + UbatchTokens
  <2>1. pc = "graph" /\ pc' = "decode" /\ start' = start /\ p' = p + NUbatch
    BY <1>2 DEF DecodeReturns
  <2>2. Fed' = Least(p + NUbatch, ChunkEnd)
    BY <1>0, <2>1 DEF Fed, ChunkEnd
  <2>3. p < ChunkEnd
    BY <1>0, <2>1 DEF Ordered
  <2> QED
    BY <1>0, <2>1, <2>2, <2>3, Chunks DEF Typed
<1>3. ASSUME NextChunk, start + ChunkTokens(args) < Wanted, ~overflow
      PROVE  pc' = "decode" /\ Fed' = Fed
  <2>1. start' = start + ChunkTokens(args) /\ p' = start + ChunkTokens(args) /\ pc' = "decode" /\ p >= ChunkEnd
    BY <1>3 DEF NextChunk
  <2>2. Fed = start + ChunkTokens(args)
    BY <1>0, <1>3, <2>1 DEF Fed, ChunkEnd, Least
  <2>3. ChunkEnd' = Least(start' + ChunkTokens(args), Wanted)
    BY <1>0 DEF ChunkEnd
  <2>4. ChunkEnd' \in Nat /\ ChunkEnd' > p'
    BY <1>0, <1>3, <2>1, <2>3 DEF Least
  <2> QED
    BY <1>0, <2>1, <2>2, <2>4 DEF Fed, Least
<1>4. ASSUME NextChunk, ~(start + ChunkTokens(args) < Wanted /\ ~overflow)
      PROVE  pc' = "cleanup" /\ (~overflow => Fed = Wanted)
  <2>1. pc' = "cleanup" /\ (p >= ChunkEnd \/ overflow)
    BY <1>4 DEF NextChunk
  <2>2. ASSUME ~overflow PROVE Fed = Wanted
    <3>1. p >= ChunkEnd /\ ~(start + ChunkTokens(args) < Wanted)
      BY <1>4, <2>1, <2>2
    <3> QED
      BY <1>0, <3>1 DEF Fed, ChunkEnd, Least
  <2> QED
    BY <2>1, <2>2
<1> QED
  BY <1>1, <1>2, <1>3, <1>4

\* In a graph no layer is more than one ubatch ahead of another.
LEMMA CountedInGraph ==
    ASSUME TraceInv, pc = "graph", ~overflow, NEW m \in Recorded
    PROVE  Count(m) \in {p, p + UbatchTokens} /\ (~Seen(Final, m) => Count(m) = p)
BY DEF TraceInv, Counted, Full

\* A callback that completes the records of a layer adds one for each token of the ubatch.
LEMMA CountedWritten ==
    ASSUME TraceInv, NEW l \in MoeLayers, WeightsFlushed(l) \/ Down(l)
    PROVE  Counted'
<1>0. Typed /\ Ordered /\ Counted /\ out \in Seq(Entries)
  BY DEF TraceInv, Typed
<1>1. Called(Final, l) /\ ~overflow /\ pend_layer = l /\ l \in Recorded
  BY Completes
<1>2. /\ pc = "graph" /\ pc' = "graph" /\ args' = args /\ unfit' = unfit /\ start' = start /\ p' = p
      /\ decode_failed' = decode_failed
      /\ ~Seen(Final, l) /\ \A k, m : Seen(k, m)' <=> Seen(k, m) \/ (k = Final /\ m = l)
  BY <1>0, <1>1, CalledFacts
<1>3. /\ Recorded' = Recorded /\ Final' = Final /\ UbatchTokens' = UbatchTokens
      /\ Recorded \subseteq MoeLayers
  BY <1>2, SettledOps, Steady DEF Recorded
<1>4. p \in Nat /\ UbatchTokens \in Nat /\ UbatchTokens <= NUbatch /\ NUbatch \in Nat
  BY <1>1, PendingNow, TraceAssumption DEF Final
<1>5. PICK k \in 0 .. UbatchTokens :
         Written(l, k) /\ overflow' = (k < UbatchTokens) /\ (k < UbatchTokens => faults' > 0) /\ (faults > 0 => faults' > 0)
  BY Completes
<1>6. PICK c \in Seq(Entries) : Len(c) = k /\ Batch(c, l) /\ out' = out \o c
  BY <1>5 DEF Written
<1>7. AllOf(c, l)
  BY <1>6 DEF AllOf, Batch
<1>8. \A m \in MoeLayers : OfLayer(out', m) = IF m = l THEN OfLayer(out, m) \o c ELSE OfLayer(out, m)
  BY <1>0, <1>6, <1>7, OfLayerRun DEF Continues
<1>9. Count(l) = p
  BY <1>1, <1>2, CountedInGraph
<1>10. PICK o \in Seq(Entries) : o = OfLayer(out, l)
  BY <1>0, OfLayerIn
<1>11. Len(o) = p /\ Len(o \o c) = p + k
       /\ \A i \in 1 .. p + k : (o \o c)[i] = IF i <= p THEN o[i] ELSE c[i - p]
  BY <1>4, <1>6, <1>9, <1>10, ConcatProperties DEF Count
<1>12. Count(l)' = p + k /\ \A m \in MoeLayers : m # l => Count(m)' = Count(m)
  BY <1>8, <1>10, <1>11 DEF Count
<1>13. (~overflow' => k = UbatchTokens) /\ (overflow' => faults' > 0)
  <2>1. (~overflow' => ~(k < UbatchTokens)) /\ (overflow' => k < UbatchTokens)
    BY ONLY <1>5
  <2> QED
    BY <1>4, <1>5, <2>1
<1>14. \A m \in MoeLayers \ Recorded' : Count(m)' = 0
  BY <1>0, <1>1, <1>3, <1>12 DEF Counted
<1>15. ~overflow' => \A m \in Recorded' : Full(m)'
  <2>1. SUFFICES ASSUME ~overflow', NEW m \in Recorded PROVE Full(m)'
    BY <1>3
  <2>2. Count(m)' = IF Seen(Final, m)' THEN p + UbatchTokens ELSE p
    <3>1. CASE m = l
      BY <1>2, <1>3, <1>12, <1>13, <2>1, <3>1
    <3>2. CASE m # l
      <4>1. Count(m) = IF Seen(Final, m) THEN p + UbatchTokens ELSE p
        BY <1>0, <1>1, <1>2 DEF Counted, Full
      <4>2. Seen(Final, m)' <=> Seen(Final, m)
        BY <1>2, <1>3, <3>2
      <4>3. Count(m)' = Count(m)
        BY <1>3, <1>12, <3>2
      <4> QED
        BY <4>1, <4>2, <4>3
    <3> QED
      BY <3>1, <3>2
  <2> QED
    BY <1>2, <1>3, <2>2 DEF Full
<1>16. \A m, n \in Recorded' : Count(m)' <= Count(n)' + NUbatch
  <2>1. \A m \in Recorded : Count(m)' \in p .. p + UbatchTokens
    <3> TAKE m \in Recorded
    <3>1. CASE m = l
      BY <1>4, <1>12, <3>1
    <3>2. CASE m # l
      <4>1. Count(m) \in {p, p + UbatchTokens}
        BY <1>1, <1>2, CountedInGraph
      <4> QED
        BY <1>3, <1>4, <1>12, <3>2, <4>1
    <3> QED
      BY <3>1, <3>2
  <2> QED
    BY <1>3, <1>4, <2>1
<1>17. \A m \in MoeLayers : \A i \in 1 .. Count(m)' : OfLayer(out', m)[i].token = i - 1
  <2> TAKE m \in MoeLayers
  <2>1. CASE m = l
    <3>1. \A i \in 1 .. p : o[i].token = i - 1
      BY <1>0, <1>9, <1>10 DEF Counted
    <3>2. \A i \in 1 .. p + k : (o \o c)[i].token = i - 1
      <4> TAKE i \in 1 .. p + k
      <4>1. CASE i <= p
        BY <1>4, <1>11, <3>1, <4>1
      <4>2. CASE i > p
        <5>1. i - p \in 1 .. k
          <6>1. k \in Nat /\ i \in Nat /\ i <= p + k
            BY <1>4
          <6> QED
            BY <1>4, <4>2, <6>1
        <5>2. PICK n \in 1 .. k : n = i - p
          BY <5>1
        <5>3. c[n].token = p + n - 1
          BY <1>6 DEF Batch
        <5>4. (o \o c)[i] = c[n]
          <6>1. ~(i <= p)
            BY <1>4, <4>2
          <6> QED
            BY <1>11, <5>2, <6>1
        <5> QED
          BY <1>4, <5>2, <5>3, <5>4
      <4>3. i <= p \/ i > p
        BY <1>4
      <4> QED
        BY ONLY <4>1, <4>2, <4>3
    <3> QED
      BY <1>8, <1>10, <1>12, <2>1, <3>2
  <2>2. CASE m # l
    BY <1>0, <1>8, <1>12, <2>2 DEF Counted
  <2> QED
    BY <2>1, <2>2
<1>18. overflow' \/ decode_failed' => faults' > 0
  BY <1>0, <1>2, <1>5, <1>13 DEF Counted
<1> QED
  BY <1>14, <1>15, <1>16, <1>17, <1>18 DEF Counted

\* A layer the callback understands is not left out while recording goes on.
LEMMA FinalIsTaken ==
    ASSUME TraceInv, NEW l \in Recorded, ~overflow, Called(Final, l)
    PROVE  pend_layer = l /\ Fits(Final, l)
<1>0. Ordered /\ Pending /\ l \in MoeLayers
  BY DEF TraceInv, Recorded
<1>1. /\ pc = "graph" /\ ~Seen(Final, l)
      /\ \A k, m : Tensor(k, m) \in Graph /\ Before(Tensor(k, m), Tensor(Final, l)) => Seen(k, m)
  BY <1>0, CalledFacts
<1>2. Seen("topk", l)
  <2>1. Before(Tensor("topk", l), Tensor(Final, l))
    BY DEF Before, Tensor, Rank, Final
  <2> QED
    BY <1>0, <1>1, <2>1, InGraph
<1>3. Fits(Final, l)
  BY DEF Recorded, Fits, Final
<1> QED
  BY <1>0, <1>1, <1>2, <1>3 DEF Pending

\* All other steps leave the records alone.
LEMMA OutputKept ==
    ASSUME out' = out, NEW l
    PROVE  Count(l)' = Count(l) /\ OfLayer(out, l)' = OfLayer(out, l)
BY DEF Count

\* As long as nothing is written, what is recorded stays as full as it was.
LEMMA CountedUnwritten ==
    ASSUME TraceInv, [Next]_vars, out' = out, faults' >= faults, faults' \in Nat,
           overflow' => overflow \/ faults' > 0, decode_failed' => decode_failed \/ faults' > 0,
           ~overflow' => ~overflow /\ \A m \in Recorded : Full(m)'
    PROVE  Counted'
<1>1. Recorded' = Recorded /\ Counted /\ faults \in Nat
  BY Settled, SettledOps, TraceAssumption DEF TraceInv, Typed
<1>2. \A m \in MoeLayers \ Recorded' : Count(m)' = 0
  BY <1>1, OutputKept DEF Counted
<1>3. \A m, n \in Recorded' : Count(m)' <= Count(n)' + NUbatch
  BY <1>1, OutputKept DEF Counted
<1>4. \A m \in MoeLayers : \A i \in 1 .. Count(m)' : OfLayer(out', m)[i].token = i - 1
  BY <1>1, OutputKept DEF Counted
<1>5. overflow' \/ decode_failed' => faults' > 0
  BY <1>1 DEF Counted
<1> QED
  BY <1>1, <1>2, <1>3, <1>4, <1>5 DEF Counted

\* Each step keeps the count of each layer.
LEMMA CountedStep == ASSUME TraceInv, [Next]_vars PROVE Counted'
<1>0. /\ args' = args /\ unfit' = unfit /\ Final' = Final /\ Recorded' = Recorded /\ Wanted' = Wanted
      /\ Graph' = Graph
      /\ Typed /\ Ordered /\ Pending /\ Counted
      /\ faults \in Nat /\ Recorded \subseteq MoeLayers
  BY Settled, SettledOps, TraceAssumption DEF TraceInv, Typed, Recorded
<1>1. ASSUME NEW l \in MoeLayers, NEW kind, Called(kind, l), out' = out, ~overflow,
             kind = Final /\ l \in Recorded => pend_layer # l \/ ~Fits(kind, l)
      PROVE  \A m \in Recorded : Full(m)'
  <2>1. /\ pc = "graph" /\ pc' = "graph" /\ start' = start /\ p' = p
        /\ \A k, m : Seen(k, m)' <=> Seen(k, m) \/ (k = kind /\ m = l)
    BY <1>0, <1>1, CalledFacts
  <2>2. UbatchTokens' = UbatchTokens
    BY <1>0, <2>1, Steady
  <2>3. ~(kind = Final /\ l \in Recorded)
    BY <1>1, FinalIsTaken
  <2>4. ASSUME NEW m \in Recorded
        PROVE  Full(m)'
    <3>1. Seen(Final, m)' <=> Seen(Final, m)
      BY <1>0, <2>1, <2>3
    <3>2. Count(m) = IF Seen(Final, m) THEN p + UbatchTokens ELSE p
      BY <1>0, <1>1, <2>1 DEF Counted, Full
    <3>3. Count(m)' = Count(m)
      BY <1>1, OutputKept
    <3> QED
      BY <1>0, <2>1, <2>2, <3>1, <3>2, <3>3 DEF Full
  <2> QED
    BY <2>4
<1>2. ASSUME NEW l \in MoeLayers, Topk(l)
      PROVE  Counted'
  <2>1. Called("topk", l) /\ out' = out /\ Final # "topk"
    BY <1>2 DEF Topk, Final
  <2>2. \/ UNCHANGED <<overflow, faults>>
        \/ overflow' = TRUE /\ faults' = faults + 1
    BY <1>2 DEF Topk, OutOfMemory
  <2>3. decode_failed' = decode_failed
    BY <1>0, <2>1, CalledFacts
  <2>4. ~overflow' => ~overflow /\ \A m \in Recorded : Full(m)'
    BY <1>1, <2>1, <2>2
  <2> QED
    BY <1>0, <2>1, <2>2, <2>3, <2>4, CountedUnwritten
<1>3. ASSUME NEW l \in MoeLayers, WeightsStashed(l)
      PROVE  Counted'
  <2>1. Called("weights", l) /\ out' = out /\ Final # "weights" /\ UNCHANGED <<overflow, faults>>
    BY <1>3 DEF WeightsStashed, Final
  <2>2. decode_failed' = decode_failed
    BY <1>0, <2>1, CalledFacts
  <2>3. ~overflow' => ~overflow /\ \A m \in Recorded : Full(m)'
    BY <1>1, <2>1
  <2> QED
    BY <1>0, <2>1, <2>2, <2>3, CountedUnwritten
<1>4. ASSUME NEW l \in MoeLayers, NEW kind, Skipped(kind, l)
      PROVE  Counted'
  <2>1. Called(kind, l) /\ out' = out /\ UNCHANGED <<overflow, faults>>
    BY <1>4 DEF Skipped
  <2>2. decode_failed' = decode_failed
    BY <1>0, <2>1, CalledFacts
  <2>3. ~overflow /\ kind = Final => pend_layer # l \/ ~Fits(kind, l)
    BY <1>4 DEF Skipped, Final
  <2>4. ~overflow' => ~overflow /\ \A m \in Recorded : Full(m)'
    BY <1>1, <2>1, <2>3
  <2> QED
    BY <1>0, <2>1, <2>2, <2>4, CountedUnwritten
<1>5. ASSUME NEW l \in MoeLayers, NEW kind \in {"weights", "down"}, OutOfMemoryIn(kind, l)
      PROVE  Counted'
  <2>1. Called(kind, l) /\ out' = out /\ overflow' = TRUE /\ faults' = faults + 1
    BY <1>5 DEF OutOfMemoryIn, OutOfMemory
  <2>2. decode_failed' = decode_failed
    BY <1>0, <2>1, CalledFacts
  <2> QED
    BY <1>0, <2>1, <2>2, CountedUnwritten
<1>6. CASE \E l \in MoeLayers : TraceCb(l)
  BY <1>2, <1>3, <1>4, <1>5, <1>6, CallbackKinds, CountedWritten
<1>7. CASE Decode
  <2>1. pc = "decode" /\ pc' = "graph" /\ todo' = Graph /\ UNCHANGED <<out, overflow, faults, decode_failed>>
        /\ p' = p /\ Fed = p
    BY <1>7, FedSteps DEF Decode, driver
  <2>2. ASSUME NEW m \in Recorded, ~overflow
        PROVE  Full(m)'
    <3>1. ~Seen(Final, m)'
      BY <1>0, <2>1, InGraph DEF Seen
    <3>2. Count(m)' = p
      BY <1>0, <2>1, <2>2, OutputKept DEF Counted, Full
    <3> QED
      BY <2>1, <3>1, <3>2 DEF Full
  <2> QED
    BY <1>0, <2>1, <2>2, CountedUnwritten
<1>8. CASE DecodeReturns
  <2>1. pc = "graph" /\ pc' = "decode" /\ todo = {} /\ UNCHANGED <<out, overflow, faults, decode_failed>>
        /\ Fed' = p + UbatchTokens
    BY <1>8, FedSteps DEF DecodeReturns
  <2>2. ASSUME NEW m \in Recorded, ~overflow
        PROVE  Full(m)'
    <3>1. Seen(Final, m)
      BY <2>1 DEF Seen
    <3>2. Count(m)' = p + UbatchTokens
      BY <1>0, <2>1, <2>2, <3>1, OutputKept DEF Counted, Full
    <3> QED
      BY <2>1, <3>2 DEF Full
  <2> QED
    BY <1>0, <2>1, <2>2, CountedUnwritten
<1>9. CASE NextChunk
  <2>1. pc = "decode" /\ UNCHANGED <<out, overflow, faults, decode_failed>>
        /\ \/ pc' = "decode" /\ Fed' = Fed
           \/ pc' = "cleanup" /\ (~overflow => Fed = Wanted)
    BY <1>9, FedSteps DEF NextChunk
  <2>2. ASSUME NEW m \in Recorded, ~overflow
        PROVE  Full(m)'
    <3>1. Count(m)' = Fed
      BY <1>0, <2>1, <2>2, OutputKept DEF Counted, Full
    <3> QED
      BY <1>0, <2>1, <2>2, <3>1 DEF Full
  <2> QED
    BY <1>0, <2>1, <2>2, CountedUnwritten
<1>10. CASE DecodeFails
  <2>1. pc' = "cleanup" /\ UNCHANGED <<out, overflow>> /\ decode_failed' = TRUE /\ faults' = faults + 1
    BY <1>10 DEF DecodeFails
  <2>2. \A m : Full(m)'
    BY <2>1 DEF Full
  <2> QED
    BY <1>0, <2>1, <2>2, CountedUnwritten
<1>11. CASE Cleanup
  <2>1. pc = "cleanup" /\ pc' = "done" /\ UNCHANGED <<out, overflow, decode_failed>>
        /\ (faults' = faults \/ faults' = faults + 1)
    BY <1>11 DEF Cleanup, driver
  <2>2. ASSUME NEW m \in Recorded, ~overflow
        PROVE  Full(m)'
    <3>1. ~decode_failed => Count(m)' = Wanted
      BY <1>0, <2>1, <2>2, OutputKept DEF Counted, Full
    <3> QED
      BY <1>0, <2>1, <3>1 DEF Full
  <2> QED
    BY <1>0, <2>1, <2>2, CountedUnwritten
<1>12. CASE UNCHANGED vars
  <2>1. UNCHANGED <<pc, todo, start, p, out, overflow, faults, decode_failed>>
    BY <1>12 DEF vars, driver
  <2>2. Fed' = Fed /\ UbatchTokens' = UbatchTokens
    BY <1>0, <2>1, Steady
  <2>3. ASSUME NEW m \in Recorded, ~overflow
        PROVE  Full(m)'
    <3>1. Count(m)' = Count(m) /\ Full(m)
      BY <1>0, <2>1, <2>3, OutputKept DEF Counted
    <3> QED
      BY <1>0, <2>1, <2>2, <3>1 DEF Full, Seen
  <2> QED
    BY <1>0, <2>1, <2>3, CountedUnwritten
<1> QED
  BY <1>6, <1>7, <1>8, <1>9, <1>10, <1>11, <1>12 DEF Next

-----------------------------------------------------------------------------
(* Ranges, the file, and the invariant *)

\* What the callback writes over keeps its type.
LEMMA TopkTyped ==
    ASSUME TraceInv, NEW l \in MoeLayers, Topk(l)
    PROVE  /\ last_layer' = l /\ last_ubatch_tokens' \in 0 .. NUbatch /\ pend_tokens' \in 0 .. NUbatch
           /\ pend_layer' \in {l, None} /\ ids' \in Seq(Origin) /\ UNCHANGED <<pend_ids, pend_w>>
           /\ overflow' \in BOOLEAN /\ faults' \in 0 .. MaxFaults
<1>0. Typed /\ Ordered /\ Called("topk", l)
  BY DEF TraceInv, Topk
<1>1. UbatchTokens \in 1 .. NUbatch /\ p \in Nat /\ UbatchTokens \in Nat
  BY <1>0, CalledFacts, Chunks, TraceAssumption DEF Typed
<1>2. PICK c \in Seq(Origin) : c = Content(l)
  BY <1>1, ContentIs
<1>3. Len(c) = UbatchTokens
  BY <1>1, <1>2, ContentIs
<1>4. last_layer' = l /\ last_ubatch_tokens' = Len(c) /\ UNCHANGED <<pend_ids, pend_w>>
      /\ pend_layer' \in {l, None}
  BY <1>2 DEF Topk
<1>5. \/ ids' = Overwrite(ids, c) /\ pend_tokens' = Len(c)
      \/ UNCHANGED <<ids, pend_tokens>>
  BY <1>2 DEF Topk
<1>6. ids' \in Seq(Origin)
  BY <1>0, <1>5, OverwriteIs DEF Typed
<1>7. \/ UNCHANGED <<overflow, faults>>
      \/ overflow' = TRUE /\ faults' = faults + 1 /\ faults < MaxFaults
  BY DEF Topk, OutOfMemory
<1>8. overflow' \in BOOLEAN /\ faults' \in 0 .. MaxFaults
  <2>1. overflow' \in BOOLEAN
    BY <1>0, <1>7 DEF Typed
  <2>2. faults' \in 0 .. MaxFaults
    BY <1>0, <1>7, TraceAssumption DEF Typed
  <2> QED
    BY <2>1, <2>2
<1>9. last_ubatch_tokens' \in 0 .. NUbatch /\ pend_tokens' \in 0 .. NUbatch
  BY <1>0, <1>1, <1>3, <1>4, <1>5 DEF Typed
<1> QED
  BY <1>4, <1>6, <1>8, <1>9

\* The stash holds origins.
LEMMA StashTyped ==
    ASSUME TraceInv, NEW l \in MoeLayers, WeightsStashed(l)
    PROVE  pend_ids' \in Seq(Origin) /\ pend_w' \in Seq(Origin)
<1>0. Typed /\ Called("weights", l) /\ pend_layer = l /\ Stash(l)
  BY DEF TraceInv, WeightsStashed
<1>1. /\ pend_tokens = UbatchTokens /\ UbatchTokens \in Nat /\ p \in Nat /\ UbatchTokens <= Len(ids)
  BY <1>0, PendingNow DEF Holds
<1>2. PICK c \in Seq(Origin) : c = Content(l)
  BY <1>1, ContentIs
<1>3. PICK d : d = SubSeq(ids, 1, UbatchTokens)
  OBVIOUS
<1>4. d \in Seq(Origin)
  <2>1. PICK n \in Nat : n = UbatchTokens
    BY <1>1
  <2>2. \A i \in 1 .. n : ids[i] \in Origin
    BY <1>0, <1>1, <2>1, ElementOfSeq DEF Typed
  <2>3. 1 \in Int /\ n \in Int
    BY <2>1
  <2>4. SubSeq(ids, 1, n) \in Seq(Origin)
    BY <2>2, <2>3, SubSeqProperties
  <2> QED
    BY <1>3, <2>1, <2>4
<1>5. pend_ids' = Overwrite(pend_ids, d) /\ pend_w' = Overwrite(pend_w, c)
  BY <1>0, <1>1, <1>2, <1>3 DEF Stash
<1> QED
  BY <1>0, <1>4, <1>5, OverwriteIs DEF Typed

\* Each step keeps the ranges.
LEMMA TypedStep == ASSUME TraceInv, [Next]_vars PROVE Typed'
<1>0. Typed /\ Ordered /\ args' = args /\ Wanted' = Wanted /\ token_base' \in 0 .. Wanted'
      /\ out' \in Seq(Entries) /\ vec' \in Seq(Origin) /\ vec_out' \in BOOLEAN
  BY Settled, SettledOps, BasedStep, JoinedStep, AlignedStep DEF TraceInv
<1> DEFINE Steered == /\ pc' \in {"decode", "graph", "cleanup", "done"}
                      /\ start' \in Nat /\ p' \in Nat /\ decode_failed' \in BOOLEAN
           Minded == /\ last_layer' \in MoeLayers \cup {None} /\ pend_layer' \in MoeLayers \cup {None}
                   /\ last_ubatch_tokens' \in 0 .. NUbatch /\ pend_tokens' \in 0 .. NUbatch
                   /\ ids' \in Seq(Origin) /\ pend_ids' \in Seq(Origin) /\ pend_w' \in Seq(Origin)
           Failed == overflow' \in BOOLEAN /\ faults' \in 0 .. MaxFaults
<1>1. ASSUME Steered, Minded, Failed PROVE Typed'
  BY <1>0, <1>1 DEF Typed
<1>2. ASSUME NEW l \in MoeLayers, NEW kind, Called(kind, l)
      PROVE  Steered
  BY <1>0, <1>2, CalledFacts DEF Typed
<1>3. ASSUME UNCHANGED <<last_layer, pend_layer, last_ubatch_tokens, pend_tokens, ids, pend_ids, pend_w>>
      PROVE  Minded
  BY <1>0, <1>3 DEF Typed
<1>4. ASSUME UNCHANGED overflow \/ overflow' = TRUE,
             UNCHANGED faults \/ (faults < MaxFaults /\ faults' = faults + 1)
      PROVE  Failed
  <2>1. overflow' \in BOOLEAN
    BY <1>0, <1>4 DEF Typed
  <2>2. faults' \in 0 .. MaxFaults
    BY <1>0, <1>4, TraceAssumption DEF Typed
  <2> QED
    BY <2>1, <2>2
<1>5. ASSUME NEW l \in MoeLayers, Topk(l)
      PROVE  Typed'
  <2>1. Called("topk", l)
    BY <1>5 DEF Topk
  <2>2. Minded /\ Failed
    BY <1>0, <1>5, TopkTyped DEF Typed
  <2> QED
    BY <1>1, <1>2, <2>1, <2>2
<1>6. ASSUME NEW l \in MoeLayers, WeightsFlushed(l) \/ Down(l)
      PROVE  Typed'
  <2>1. Called(Final, l)
    BY <1>6, Completes
  <2>2. PICK k \in 0 .. UbatchTokens :
          /\ overflow' = (k < UbatchTokens)
          /\ faults' \in 0 .. MaxFaults
          /\ pend_layer' = None
          /\ UNCHANGED <<pend_tokens, ids, pend_ids, pend_w, last_layer, token_base, last_ubatch_tokens>>
    BY <1>6, Completes
  <2>3. Minded
    BY <1>0, <2>2 DEF Typed
  <2>4. Failed
    <3>1. (k < UbatchTokens) \in BOOLEAN
      OBVIOUS
    <3> QED
      BY <2>2, <3>1
  <2> QED
    BY <1>1, <1>2, <2>1, <2>3, <2>4
<1>7. ASSUME NEW l \in MoeLayers, WeightsStashed(l)
      PROVE  Typed'
  <2>1. Called("weights", l) /\ UNCHANGED <<last_layer, pend_layer, last_ubatch_tokens, pend_tokens, ids, overflow, faults>>
    BY <1>7 DEF WeightsStashed
  <2>2. Minded
    BY <1>0, <1>7, <2>1, StashTyped DEF Typed
  <2> QED
    BY <1>1, <1>2, <1>4, <2>1, <2>2
<1>8. ASSUME NEW l \in MoeLayers, NEW kind, Skipped(kind, l) \/ (kind \in {"weights", "down"} /\ OutOfMemoryIn(kind, l))
      PROVE  Typed'
  <2>1. Called(kind, l)
        /\ UNCHANGED <<last_layer, pend_layer, last_ubatch_tokens, pend_tokens, ids, pend_ids, pend_w>>
        /\ (UNCHANGED overflow \/ overflow' = TRUE)
        /\ (UNCHANGED faults \/ (faults < MaxFaults /\ faults' = faults + 1))
    BY <1>8 DEF Skipped, OutOfMemoryIn, OutOfMemory, ctx
  <2> QED
    BY <1>1, <1>2, <1>3, <1>4, <2>1
<1>9. CASE \E l \in MoeLayers : TraceCb(l)
  BY <1>5, <1>6, <1>7, <1>8, <1>9, CallbackKinds
<1>10. CASE Decode \/ DecodeReturns \/ DecodeFails \/ NextChunk \/ Cleanup \/ UNCHANGED vars
  <2>1. UNCHANGED <<last_layer, pend_layer, last_ubatch_tokens, pend_tokens, ids, pend_ids, pend_w, overflow>>
    BY <1>10 DEF Decode, DecodeReturns, DecodeFails, NextChunk, Cleanup, vars, ctx
  <2>2. UNCHANGED faults \/ (faults < MaxFaults /\ faults' = faults + 1)
    BY <1>10 DEF Decode, DecodeReturns, DecodeFails, NextChunk, Cleanup, vars
  <2>3. Steered
    <3>1. ChunkTokens(args) \in Nat
      BY <1>0, Limits DEF Typed
    <3>2. pc' \in {"decode", "graph", "cleanup", "done"}
      BY <1>0, <1>10 DEF Typed, Decode, DecodeReturns, DecodeFails, NextChunk, Cleanup, vars
    <3>3. UNCHANGED <<start, p>> \/ (start' = start /\ p' = p + NUbatch)
          \/ (start' = start + ChunkTokens(args) /\ p' = start + ChunkTokens(args))
      BY <1>10 DEF Decode, DecodeReturns, DecodeFails, NextChunk, Cleanup, vars, driver
    <3>4. start' \in Nat /\ p' \in Nat
      <4>1. start \in Nat /\ p \in Nat /\ NUbatch \in Nat
        BY <1>0, TraceAssumption DEF Typed
      <4> QED
        BY <3>1, <3>3, <4>1
    <3>5. UNCHANGED decode_failed \/ decode_failed' = TRUE
      BY <1>10 DEF Decode, DecodeReturns, DecodeFails, NextChunk, Cleanup, vars, driver
    <3>6. decode_failed' \in BOOLEAN
      BY <1>0, <3>5 DEF Typed
    <3> QED
      BY <3>2, <3>4, <3>6
  <2> QED
    BY <1>1, <1>3, <1>4, <2>1, <2>2, <2>3
<1> QED
  BY <1>9, <1>10 DEF Next

\* Cleaning up leaves a prefix of the records on disk.
LEMMA FiledStep == ASSUME TraceInv, [Next]_vars PROVE Filed'
<1>1. CASE Cleanup
  <2>1. out' = out /\ \E k \in 0 .. Len(out) : file' = [n_records |-> Len(out), records |-> SubSeq(out, 1, k)]
    BY <1>1 DEF Cleanup
  <2> QED
    BY <2>1 DEF Filed
<1>2. CASE Decode \/ DecodeReturns \/ DecodeFails \/ NextChunk
  BY <1>2 DEF Decode, DecodeReturns, DecodeFails, NextChunk, Filed
<1>3. CASE \E l \in MoeLayers : TraceCb(l)
  <2>1. pc' = pc /\ pc = "graph"
    BY <1>3, OtherThanTopk DEF Topk, Called
  <2> QED
    BY <2>1 DEF Filed
<1>4. CASE UNCHANGED vars
  BY <1>4 DEF vars, Filed, TraceInv
<1> QED
  BY <1>1, <1>2, <1>3, <1>4 DEF Next

\* A run begins with nothing recorded.
LEMMA TraceInvInit == ASSUME Init PROVE TraceInv
<1>1. Wanted \in Nat
  BY Limits DEF Init
<1>2. << >> \in Seq(Origin) /\ << >> \in Seq(Entries) /\ Len(<< >>) = 0
  OBVIOUS
<1>3. Typed
  <2>1. args.vecs \in BOOLEAN /\ vec_out \in {FALSE, args.vecs}
    BY ArgsTyped DEF Init
  <2>2. vec_out \in BOOLEAN
    BY <2>1
  <2>3. 0 \in 0 .. Wanted /\ 0 \in 0 .. NUbatch /\ 0 \in 0 .. MaxFaults
    BY <1>1, TraceAssumption
  <2> QED
    BY <1>2, <2>2, <2>3 DEF Init, Typed
<1>4. Fed = 0
  BY <1>3, Chunks DEF Init, Fed, Least, Typed
<1>5. \A l : Count(l) = 0 /\ OfLayer(out, l) = << >>
  BY <1>2, OfLayerEmpty DEF Init, Count
<1>6. Based
  BY <1>4 DEF Init, Based, Behind
<1>7. Counted
  BY <1>4, <1>5, TraceAssumption DEF Init, Counted, Full
<1>8. Aligned
  <2>1. args.vecs \in BOOLEAN /\ vec_out \in {FALSE, args.vecs}
    BY ArgsTyped DEF Init
  <2>2. vec_out => args.vecs
    BY <2>1
  <2>3. out = << >> /\ vec = << >>
    BY DEF Init
  <2>4. StreamsAligned
    BY <1>2, <2>3 DEF StreamsAligned, Least
  <2> QED
    BY <1>2, <2>2, <2>3, <2>4 DEF Aligned
<1> QED
  BY <1>2, <1>3, <1>6, <1>7, <1>8 DEF Init, TraceInv, Ordered, Pending, JoinedAll, Filed

\* The invariant holds at every moment of every run of moetrace: for any layers, any length of text,
\* ubatch and context, any command line, any tensors the callback turns down and any failures.
THEOREM TraceInvariant == Spec => []TraceInv
<1>1. Init => TraceInv
  BY TraceInvInit
<1>2. TraceInv /\ [Next]_vars => TraceInv'
  BY TypedStep, OrderedStep, BasedStep, PendingStep, JoinedStep, AlignedStep, CountedStep, FiledStep DEF TraceInv
<1> QED
  BY <1>1, <1>2, PTL DEF Spec

-----------------------------------------------------------------------------
(* What a run leaves *)

\* Every record is of a layer of the model.
LEMMA EntriesOfLayers ==
    ASSUME Typed
    PROVE  \A i \in 1 .. Len(out) : out[i].layer \in MoeLayers
<1> SUFFICES ASSUME NEW i \in 1 .. Len(out)
             PROVE  out[i].layer \in MoeLayers
  OBVIOUS
<1>1. out[i] \in Entries
  BY ElementOfSeq DEF Typed
<1> QED
  BY <1>1 DEF Entries

\* A run that neither failed nor gave up has recorded each wanted token of each layer it
\* understands.
LEMMA RecordedIsComplete == ASSUME TraceInv PROVE CompleteUnlessCut
<1> SUFFICES ASSUME pc = "done", Rc >= 0, ~overflow
             PROVE  {<<out[i].layer, out[i].token>> : i \in 1 .. Len(out)} = Recorded \X (0 .. Wanted - 1)
  BY DEF CompleteUnlessCut
<1>1. Typed /\ Counted /\ out \in Seq(Entries) /\ Recorded \subseteq MoeLayers /\ Wanted \in Nat
  BY Limits DEF TraceInv, Typed, Recorded
<1>2. ~decode_failed
  BY DEF Rc
<1>3. \A l \in Recorded : Count(l) = Wanted
  BY <1>1, <1>2 DEF Counted, Full
<1>4. \A l \in MoeLayers : Extract(OfLayer(out, l), out, l)
  BY <1>1, OfLayerIn
<1>5. ASSUME NEW i \in 1 .. Len(out)
      PROVE  out[i].layer \in Recorded /\ out[i].token \in 0 .. Wanted - 1
  <2>1. PICK l \in MoeLayers : l = out[i].layer
    BY <1>1, EntriesOfLayers
  <2>2. PICK k \in 1 .. Count(l) : OfLayer(out, l)[k] = out[i]
    BY <1>4, <1>5, <2>1 DEF Extract, Count
  <2>3. OfLayer(out, l)[k].token = k - 1
    BY <1>1, <2>2 DEF Counted
  <2>4. l \in Recorded
    BY <1>1, <2>2 DEF Counted
  <2> QED
    BY <1>1, <1>3, <2>1, <2>2, <2>3, <2>4
<1>6. ASSUME NEW l \in Recorded, NEW t \in 0 .. Wanted - 1
      PROVE  \E i \in 1 .. Len(out) : out[i].layer = l /\ out[i].token = t
  <2>1. PICK k \in 1 .. Count(l) : k = t + 1
    <3>1. t + 1 \in 1 .. Count(l)
      BY <1>1, <1>3
    <3> QED
      BY <3>1
  <2>2. OfLayer(out, l)[k].token = t
    BY <1>1, <2>1 DEF Counted
  <2>3. OfLayer(out, l)[k].layer = l /\ \E i \in 1 .. Len(out) : out[i] = OfLayer(out, l)[k]
    BY <1>1, <1>4, <2>1 DEF Extract, Count
  <2> QED
    BY <2>2, <2>3
<1>7. ASSUME NEW x \in {<<out[i].layer, out[i].token>> : i \in 1 .. Len(out)}
      PROVE  x \in Recorded \X (0 .. Wanted - 1)
  BY <1>5
<1>8. ASSUME NEW x \in Recorded \X (0 .. Wanted - 1)
      PROVE  x \in {<<out[i].layer, out[i].token>> : i \in 1 .. Len(out)}
  <2>1. PICK l \in Recorded, t \in 0 .. Wanted - 1 : x = <<l, t>>
    OBVIOUS
  <2>2. PICK i \in 1 .. Len(out) : out[i].layer = l /\ out[i].token = t
    BY <1>6
  <2> QED
    BY <2>1, <2>2
<1> QED
  BY <1>7, <1>8

\* What moetrace leaves is right line by line: each record joins what one layer computed for the one
\* token it is labelled with (trace_cb over two or three tensors, the token inferred from the order
\* of the layers), the i-th vector belongs to the i-th record, and a run that neither failed nor
\* gave up recording is complete.
THEOREM TracedTheorem == Spec => []Traced
<1>1. ASSUME TraceInv PROVE Traced
  <2>1. Typed /\ JoinedAll /\ Aligned
    BY <1>1 DEF TraceInv
  <2>2. TypeOK
    BY <2>1, EntriesOfLayers DEF Typed, TypeOK
  <2>3. RecordsJoin
    BY <2>1 DEF JoinedAll, Joined, RecordsJoin
  <2>4. StreamsAligned
    BY <2>1 DEF Aligned
  <2> QED
    BY <1>1, <2>2, <2>3, <2>4, RecordedIsComplete DEF Traced
<1> QED
  BY <1>1, TraceInvariant, PTL

-----------------------------------------------------------------------------
(* What coact loads *)

\* A trace that loads is read record by record.
LEMMA LoadIs ==
    ASSUME TraceInv, pc = "done", Loads(file)
    PROVE  Load(file) = [l \in {out[i].layer : i \in 1 .. Len(out)} |-> OfLayer(out, l)]
<1>1. out \in Seq(Entries) /\ Len(out) \in Nat
  BY DEF TraceInv, Typed
<1>2. PICK k \in 0 .. Len(out) : file = [n_records |-> Len(out), records |-> SubSeq(out, 1, k)]
  BY DEF TraceInv, Filed
<1>3. Len(file.records) >= Len(out) /\ file.n_records = Len(out) /\ file.records = SubSeq(out, 1, k)
  BY <1>2 DEF Loads
<1>4. k = Len(out)
  <2>1. \A i \in 1 .. k : out[i] \in Entries
    BY <1>1, ElementOfSeq
  <2>2. 1 \in Int /\ k \in Int
    OBVIOUS
  <2>3. Len(SubSeq(out, 1, k)) = IF 1 <= k THEN k - 1 + 1 ELSE 0
    BY <2>1, <2>2, SubSeqProperties
  <2> QED
    BY <1>1, <1>3, <2>3
<1>5. file.records = out
  BY <1>1, <1>3, <1>4, SubSeqFull
<1>6. Min({file.n_records, Len(file.records)}) = Len(out)
  <2>1. {file.n_records, Len(file.records)} = {Len(out)}
    BY <1>3, <1>5
  <2> QED
    BY <1>1, <2>1 DEF Min
<1>7. SubSeq(file.records, 1, Min({file.n_records, Len(file.records)})) = out
  BY <1>1, <1>5, <1>6, SubSeqFull
<1> QED
  BY <1>7 DEF Load

\* What Trace::load accepts may be indexed by layer and token, whatever cut the run short: every
\* layer lists the tokens 0, 1, 2, ... in order, the layers differ by one ubatch at most and only
\* after a failure, and nothing is lost or added.
THEOREM LoadedRightTheorem == Spec => []LoadedRight
<1>1. ASSUME TraceInv, pc = "done", Loads(file)
      PROVE  /\ \A l \in DOMAIN Load(file) : \A k \in 1 .. Len(Load(file)[l]) : Load(file)[l][k].token = k - 1
             /\ \A l, m \in DOMAIN Load(file) :
                   \/ Len(Load(file)[l]) = Len(Load(file)[m])
                   \/ faults > 0 /\ Len(Load(file)[l]) - Len(Load(file)[m]) <= NUbatch
             /\ \A l \in DOMAIN Load(file) : Load(file)[l] = OfLayer(out, l)
  <2>1. Typed /\ Counted /\ out \in Seq(Entries) /\ Recorded \subseteq MoeLayers
    BY <1>1 DEF TraceInv, Typed, Recorded
  <2>2. /\ DOMAIN Load(file) = {out[i].layer : i \in 1 .. Len(out)}
        /\ \A l \in DOMAIN Load(file) : Load(file)[l] = OfLayer(out, l)
    BY <1>1, LoadIs
  <2>3. ASSUME NEW l \in DOMAIN Load(file)
        PROVE  l \in Recorded
    <3>1. PICK i \in 1 .. Len(out) : l = out[i].layer
      BY <2>2
    <3>2. l \in MoeLayers
      BY <2>1, <3>1, EntriesOfLayers
    <3>3. Extract(OfLayer(out, l), out, l) /\ OfLayer(out, l) \in Seq(Entries)
      BY <2>1, OfLayerIn
    <3>4. \E k \in 1 .. Count(l) : OfLayer(out, l)[k] = out[i]
      BY <3>1, <3>3 DEF Extract, Count
    <3>5. Count(l) # 0
      BY <3>4
    <3> QED
      BY <2>1, <3>2, <3>5 DEF Counted
  <2>4. \A l \in Recorded : Count(l) \in Nat
    BY <2>1, OfLayerIn DEF Count
  <2>5. \A l, m \in Recorded : Count(l) = Count(m) \/ faults > 0
    BY <1>1, <2>1 DEF Counted, Full
  <2>6. \A l, m \in Recorded : Count(l) - Count(m) <= NUbatch
    BY <2>1, <2>4, TraceAssumption DEF Counted
  <2>7. \A l \in Recorded : \A k \in 1 .. Count(l) : OfLayer(out, l)[k].token = k - 1
    BY <2>1 DEF Counted
  <2> QED
    BY <2>2, <2>3, <2>5, <2>6, <2>7 DEF Count
<1>2. ASSUME TraceInv PROVE LoadedRight
  BY <1>1, <1>2 DEF LoadedRight, LoadedInOrder, LayersEven, LoadedWhole
<1> QED
  BY <1>2, TraceInvariant, PTL

=============================================================================
