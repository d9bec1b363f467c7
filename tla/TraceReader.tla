----------------------------- MODULE TraceReader -----------------------------
(***************************************************************************)
(* How coact reads a trace (crates/coact/src/trace.rs).  A file is its     *)
(* header's count and the records that are really there.  Expert ids and   *)
(* weights are opaque; the two checks on their values (an id below         *)
(* n_expert, the argsort artefact) always pass here.                       *)
(***************************************************************************)
EXTENDS Integers, Sequences, FiniteSetsExt

NoFile == [n_records |-> 0, records |-> << >>]

\* A file with fewer records than its header counts is refused.
Loads(f) == Len(f.records) >= f.n_records

\* The records of one layer, pushed one after the other.
OfLayer(s, l) ==
    LET kept[n \in 0 .. Len(s)] ==
            IF n = 0 THEN << >>
            ELSE IF s[n].layer = l THEN Append(kept[n - 1], s[n]) ELSE kept[n - 1]
    IN  kept[Len(s)]

\* The rest of Trace::load: the records counted, grouped by layer in file order.
Load(f) ==
    LET first == SubSeq(f.records, 1, Min({f.n_records, Len(f.records)}))
    IN  [l \in {first[i].layer : i \in 1 .. Len(first)} |-> OfLayer(first, l)]
=============================================================================
