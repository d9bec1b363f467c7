----------------------------- MODULE MCReadAll -----------------------------
(***************************************************************************)
(* Instances of ReadAll for TLC: every plan of up to three ranges that may *)
(* overlap, straddle the end of a file of five bytes or lie behind it.     *)
(***************************************************************************)
EXTENDS ReadAll

Some == {<<0, 3>>, <<1, 4>>, <<4, 2>>, <<7, 1>>}
MCPlans == UNION {[1 .. k -> Some] : k \in 0 .. 3}

=============================================================================
