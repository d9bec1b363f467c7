----------------------------- MODULE MCGgufPerm -----------------------------
(***************************************************************************)
(* Instances of GgufPerm for TLC.  The documents a user may apply: either  *)
(* every order of the slots, alike in all layers and without a hash, or    *)
(* two orders that generate the others, different in the first layer, with *)
(* the hash of one model or with none.  To each set is added one document  *)
(* for each check of apply that must refuse it.                            *)
(***************************************************************************)
EXTENDS GgufPerm

Perms == {f \in [Slots -> Slots] : {f[x] : x \in Slots} = Slots}
Reversed == [x \in Slots |-> N - 1 - x]

Baselines == {<<m, Pristine>> : m \in Models}

Refused ==
    LET sha == CHOOSE b \in Baselines : TRUE
    IN  { Layout(sha, N + 1, [l \in Layers |-> [x \in 0 .. N |-> x]]),
          Layout(<<"other", Pristine>>, N, [l \in Layers |-> Reversed]),
          Layout(sha, N, [l \in Layers \ {0} |-> Reversed]) }

SameInAllLayers == {Layout(NoSha, N, [l \in Layers |-> f]) : f \in Perms}

\* Two layouts that generate the others when applied in turn: one without hash that
\* leaves the first layer alone, one with hash.
Rotated == [x \in Slots |-> (x + 1) % N]
Mixed == {Layout(NoSha, N, [l \in Layers |-> IF l = 0 THEN Identity ELSE Rotated]),
          Layout(CHOOSE b \in Baselines : TRUE, N, [l \in Layers |-> Reversed])}

MixedTargets == Mixed \cup Refused
FewTargets == SameInAllLayers \cup Refused

=============================================================================
