--------------------------- MODULE MCExpertCache ---------------------------
(***************************************************************************)
(* Instances of ExpertCache for TLC.                                       *)
(***************************************************************************)
EXTENDS ExpertCache

\* Two experts of three per token in one layer, one pinned, a budget of two, replayed twice.
Replayed ==
    [bytes |-> <<1>>, slots |-> 3, topK |-> 2, tokens |-> 4, cap |-> 2, pin |-> 1,
     halflife |-> 0, dropDen |-> 1000, maySkip |-> FALSE,
     policies |-> {"lru", "static", "hybrid", "random"}, reps |-> 2]

\* The same, with misses that may be skipped.
Skipping == [Replayed EXCEPT !.tokens = 2, !.maySkip = TRUE]

\* Layers of one, three and nine units, a budget of three, two of it for pins; ageing every
\* three accesses.
Oversized ==
    [bytes |-> <<1, 3, 9>>, slots |-> 2, topK |-> 1, tokens |-> 3, cap |-> 3, pin |-> 2,
     halflife |-> 3, dropDen |-> 4, maySkip |-> FALSE,
     policies |-> {"lru", "random", "static", "hybrid", "decayed"}, reps |-> 1]

MCSetups == <<Replayed, Skipping, Oversized>>
=============================================================================
