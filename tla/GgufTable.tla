----------------------------- MODULE GgufTable -----------------------------
(***************************************************************************)
(* The tensor table of a model file as crates/gguf reads it: lib.rs checks *)
(* that the tensors follow one another, moe.rs picks the ones that hold    *)
(* experts, a tensor's slices along its last axis are those experts.       *)
(* Parsing is left out: a table is [alignment, dataOffset, fileSize,       *)
(* tensors], a tensor [kind, rel, nbytes, lastDim], its kind what moe.rs   *)
(* reads from its name.  Sizes are small numbers: no sum wraps around.     *)
(***************************************************************************)
EXTENDS Integers, Sequences, FiniteSets

\* TensorInfo::offset; the tensor ends before the byte End.
Offset(t, x) == t.dataOffset + t.tensors[x].rel
End(t, x) == t.tensors[x].rel + t.tensors[x].nbytes

\* Tensor y follows tensor x in by_offset (a stable sort).
Sooner(t, x, y) ==
    \/ t.tensors[x].rel < t.tensors[y].rel
    \/ t.tensors[x].rel = t.tensors[y].rel /\ x < y
Follows(t, x, y) ==
    Sooner(t, x, y) /\ \A z \in DOMAIN t.tensors : ~(Sooner(t, x, z) /\ Sooner(t, z, y))

\* Mutant: an overlap passes for a gap.
NeighboursNear(t, x, y) == t.tensors[y].rel - End(t, x) < t.alignment

\* One window of validate: no overlap, and no gap that alignment does not explain.
Neighbours(t, x, y) ==
    /\ End(t, x) <= t.tensors[y].rel
    /\ t.tensors[y].rel - End(t, x) < t.alignment

\* Gguf::validate: windows(2) over the tensors by offset, and the end of the last.
Validate(t) ==
    /\ \A x, y \in DOMAIN t.tensors : Follows(t, x, y) => Neighbours(t, x, y)
    /\ \A x \in DOMAIN t.tensors :
           (\A y \in DOMAIN t.tensors : ~Sooner(t, x, y)) => t.dataOffset + End(t, x) <= t.fileSize

\* MoeModel::from_gguf: the tensors with an expert axis; weight_tensors: those that dominate.
ExpertTensors(t, n) ==
    {x \in DOMAIN t.tensors :
        t.tensors[x].kind \in {"exps", "gate_inp"} /\ t.tensors[x].lastDim = n}
Weights(t, n) == {x \in ExpertTensors(t, n) : t.tensors[x].kind = "exps"}

\* last_axis_stride, and when it is an error.
HasStride(t, x) == t.tensors[x].lastDim > 0 /\ t.tensors[x].nbytes % t.tensors[x].lastDim = 0
Stride(t, x) == t.tensors[x].nbytes \div t.tensors[x].lastDim
=============================================================================
