--------------------------- MODULE GgufPermProofs ---------------------------
(***************************************************************************)
(* Proofs about the commands, in three parts, each for any number of       *)
(* processes, models, experts, layers, tensors and failures.               *)
(*                                                                         *)
(* What survives failures.  With one command at a time on a model file, a  *)
(* sidecar that can be read holds the hash of the file as downloaded, and  *)
(* revert says ok over no other bytes.  Nothing has to be known about what *)
(* a rewrite does to a tensor: the hash is taken once, while there is no   *)
(* sidecar, and until there is one nothing may touch the file.             *)
(*                                                                         *)
(* What failures lose.  Whatever commands run, also two at a time on one   *)
(* file, each failure loses one expert block at most.  Here a rewrite and  *)
(* what is left of one are C!Permute and C!CrashImages; FiniteFacts shows  *)
(* what blocks those hold, PermuteTensorProofs that permute_tensor leaves  *)
(* nothing else behind.                                                    *)
(*                                                                         *)
(* What happens when nothing fails.  With one command at a time the        *)
(* sidecar is true of the file, no command says otherwise, and the         *)
(* commands implement Relabelling.  The invariant follows the file through *)
(* a command: tensors below k are in the new order, the others in the old. *)
(***************************************************************************)
EXTENDS GgufPerm, FiniteFacts

-----------------------------------------------------------------------------
(* What survives failures: the invariant *)

Fields == {"pc", "cmd", "m", "cur", "target", "k", "sha", "result"}

\* Enough of a type invariant for assignments to one process or model to leave the others alone.
Shaped ==
    /\ DOMAIN file = Models /\ DOMAIN sidecar = Models /\ DOMAIN proc = Procs
    /\ \A p \in Procs : DOMAIN proc[p] = Fields /\ (Running(p) => proc[p].m \in Models)

\* The guard of Start, as an invariant.
Exclusive ==
    \A p, q \in Procs : Running(p) /\ Running(q) /\ proc[p].m = proc[q].m => p = q

\* apply needs a sidecar, and no command removes one.
Unrecorded == \A m \in Models : sidecar[m] = Absent => file[m] = Pristine

\* The document all reverts share may be another model's, but is never a user's.
Temporary == tmp \in {Absent, TornDoc} \cup {IdentityLayout(Baseline(m)) : m \in Models}

\* Process p is a revert that has read the hash it will compare with.
Reverting(p) ==
    \/ proc[p].pc \in {"revert_save", "revert_write", "revert_remove", "revert_hash"}
    \/ proc[p].cmd = "revert" /\ proc[p].pc \in {"apply_load", "apply_target", "apply_tensor", "apply_write"}

RevertPcs == {"revert_load", "revert_save", "revert_write", "revert_remove", "revert_hash"}

\* What process p holds in its locals is as good as what it read.
Trusted(p) ==
    LET m == proc[p].m IN
    /\ At(p, "init_hash") => sidecar[m] = Absent
    /\ proc[p].pc \in {"init_save", "init_write"} => proc[p].sha = Baseline(m)
    /\ proc[p].pc \in {"apply_target", "apply_tensor"} => sidecar[m] # Absent
    /\ proc[p].pc \in {"apply_target", "apply_tensor", "apply_write"} => proc[p].cur.sha = Baseline(m)
    /\ proc[p].pc \in {"apply_load", "apply_target"} /\ proc[p].cmd # "revert" => proc[p].target \in Targets
    /\ proc[p].pc \in {"apply_tensor", "apply_write"} => proc[p].target \in Documents
    /\ proc[p].pc \in RevertPcs => proc[p].cmd = "revert"
    /\ Reverting(p) => proc[p].sha = Baseline(m)
    /\ Running(p) => proc[p].result = "none"

IInv ==
    /\ Shaped /\ Exclusive /\ Unrecorded /\ Temporary /\ BaselineKept
    /\ \A p \in Procs : Trusted(p)

-----------------------------------------------------------------------------
(* It is inductive *)

\* There is no sidecar, and every file is as downloaded.
LEMMA InitInv == Init => IInv
  BY DEF Init, IInv, Shaped, Exclusive, Unrecorded, Temporary, BaselineKept, Trusted, Reverting,
         RevertPcs, Idle, Fields, IsLayout, Running, At

\* A command starts, on a model no other command is at work on.
LEMMA StartInv ==
    ASSUME OnePerModel, IInv, NEW p \in Procs, NEW m \in Models,
           NEW cmd \in {"init", "apply", "dry_run", "revert", "verify"}, NEW doc,
           doc = Absent \/ doc \in Targets, Start(p, cmd, m, doc)
    PROVE  IInv'
  BY DEF Start, IInv, Shaped, Exclusive, Unrecorded, Temporary, BaselineKept, Trusted, Reverting,
         RevertPcs, Idle, Fields, IsLayout, Running, At, FirstPc

\* A document has three fields.
LEMMA DocumentsAreLayouts ==
    ASSUME NEW doc \in Documents
    PROVE  DOMAIN doc = {"sha", "n", "layers"}
  <1>1. PICK sha, n, layers : doc = [sha |-> sha, n |-> n, layers |-> layers]
    BY TargetsAssumption DEF Documents, IdentityLayout, Layout
  <1> QED
    BY <1>1

\* Every step of a command.
LEMMA StepInv ==
    ASSUME OnePerModel, IInv, NEW p \in Procs, Step(p)
    PROVE  IInv'
  <1> USE DEF IInv, Shaped, Exclusive, Unrecorded, Temporary, BaselineKept, Trusted, Reverting,
              RevertPcs, Fields, IsLayout, Running, At, Goto, Exit, Idle
  <1>1. CASE InitCheck(p)
    BY <1>1 DEF InitCheck
  <1>2. CASE InitRefuse(p)
    BY <1>2 DEF InitRefuse, Bail
  <1>3. CASE InitHash(p)
    BY <1>3 DEF InitHash, Sha, Baseline
  <1>4. CASE InitTruncate(p)
    BY <1>4, MarkersAssumption DEF InitTruncate
  <1>5. CASE InitWrite(p)
    BY <1>5, MarkersAssumption DEF InitWrite, IdentityLayout, Layout, Documents
  <1>6. CASE ApplyLoad(p)
    BY <1>6 DEF ApplyLoad, Current, Bail
  <1>7. CASE ApplyTarget(p)
    BY <1>7 DEF ApplyTarget, Bail, Documents
  <1>8. CASE ApplyTensor(p)
    BY <1>8 DEF ApplyTensor
  <1>9. CASE DryRunEnd(p)
    BY <1>9 DEF DryRunEnd
  <1>10. CASE ApplyTruncate(p)
    BY <1>10, MarkersAssumption DEF ApplyTruncate
  <1>11. CASE ApplyWrite(p)
    <2>1. proc[p].target \in Documents /\ proc[p].cur.sha = Baseline(proc[p].m) /\ proc[p].m \in Models
      BY <1>11 DEF ApplyWrite
    <2>2. "sha" \in DOMAIN proc[p].target
      BY <2>1, DocumentsAreLayouts
    <2>3. Applied(p) \notin {Absent, TornDoc} /\ Applied(p).sha = Baseline(proc[p].m)
      BY <2>1, <2>2, MarkersAssumption DEF Applied
    <2> QED
      BY <1>11, <2>1, <2>3 DEF ApplyWrite
  <1>12. CASE RevertLoad(p)
    BY <1>12 DEF RevertLoad, Current, Bail
  <1>13. CASE RevertTruncate(p)
    BY <1>13 DEF RevertTruncate
  <1>14. CASE RevertWrite(p)
    BY <1>14 DEF RevertWrite
  <1>15. CASE RevertRemove(p)
    BY <1>15 DEF RevertRemove
  <1>16. CASE RevertHash(p)
    BY <1>16 DEF RevertHash
  <1>17. CASE VerifyLoad(p)
    BY <1>17 DEF VerifyLoad, Current, Bail
  <1>18. CASE VerifyHash(p)
    BY <1>18 DEF VerifyHash
  <1> QED
    BY <1>1, <1>2, <1>3, <1>4, <1>5, <1>6, <1>7, <1>8, <1>9, <1>10, <1>11, <1>12, <1>13, <1>14, <1>15,
       <1>16, <1>17, <1>18 DEF Step, InitCommand, ApplyCommand, RevertCommand, VerifyCommand

\* A failure anywhere, whatever it leaves of the tensor being rewritten.
LEMMA FailInv ==
    ASSUME IInv, NEW p \in Procs, Fail(p)
    PROVE  IInv'
  BY DEF Fail, IInv, Shaped, Exclusive, Unrecorded, Temporary, BaselineKept, Trusted, Reverting,
         RevertPcs, Fields, IsLayout, Running, At, Exit, Idle

\* The invariant is inductive.
LEMMA NextInv == OnePerModel /\ IInv /\ [Next]_vars => IInv'
  <1> SUFFICES ASSUME OnePerModel, IInv, [Next]_vars PROVE IInv'
    OBVIOUS
  <1>1. CASE UNCHANGED vars
    BY <1>1 DEF vars, IInv, Shaped, Exclusive, Unrecorded, Temporary, BaselineKept, Trusted, Reverting,
                RevertPcs, IsLayout, Running, At
  <1> QED
    BY <1>1, StartInv, StepInv, FailInv DEF Next

-----------------------------------------------------------------------------
(* The theorems *)

\* Whatever commands ran, failed or were refused, one at a time on a model: a sidecar that can
\* be read holds the hash of the file as downloaded (init refuses to overwrite it, apply and
\* revert carry it over).
THEOREM BaselineKeptTheorem ==
    ASSUME OnePerModel
    PROVE  Spec => []BaselineKept
  <1>1. IInv => BaselineKept
    BY DEF IInv
  <1> QED
    BY <1>1, InitInv, NextInv, PTL DEF Spec

\* A step of one command changes no other process.
LEMMA OthersKept ==
    ASSUME DOMAIN proc = Procs, NEW p \in Procs, Step(p), NEW q \in Procs, q # p
    PROVE  proc'[q] = proc[q]
  <1> USE DEF Goto, Exit, Bail
  <1>1. InitCommand(p) => proc'[q] = proc[q]
    BY DEF InitCommand, InitCheck, InitRefuse, InitHash, InitTruncate, InitWrite
  <1>2. ApplyCommand(p) => proc'[q] = proc[q]
    BY DEF ApplyCommand, ApplyLoad, ApplyTarget, ApplyTensor, DryRunEnd, ApplyTruncate, ApplyWrite
  <1>3. RevertCommand(p) => proc'[q] = proc[q]
    BY DEF RevertCommand, RevertLoad, RevertTruncate, RevertWrite, RevertRemove, RevertHash
  <1>4. VerifyCommand(p) => proc'[q] = proc[q]
    BY DEF VerifyCommand, VerifyLoad, VerifyHash
  <1> QED
    BY <1>1, <1>2, <1>3, <1>4 DEF Step

\* After it has removed the temporary file a revert does nothing but compare the hash.
LEMMA OnlyHash ==
    ASSUME NEW p \in Procs, At(p, "revert_hash"), Step(p)
    PROVE  RevertHash(p)
  BY DEF At, Step, InitCommand, InitCheck, InitRefuse, InitHash, InitTruncate, InitWrite,
         ApplyCommand, ApplyLoad, ApplyTarget, ApplyTensor, DryRunEnd, ApplyTruncate, ApplyWrite,
         RevertCommand, RevertLoad, RevertTruncate, RevertWrite, RevertRemove,
         VerifyCommand, VerifyLoad, VerifyHash

\* revert reports success over the bytes of the download and no others, also after failures
\* that left the file in no order at all.
THEOREM RevertHonestTheorem ==
    ASSUME OnePerModel
    PROVE  Spec => RevertHonest
  <1>1. ASSUME IInv, [Next]_vars, NEW p \in Procs, At(p, "revert_hash"), proc'[p].result = "ok"
        PROVE  file'[proc[p].m] = Pristine
    <2>1. proc[p].result = "none" /\ proc[p].sha = Baseline(proc[p].m) /\ DOMAIN proc = Procs
      BY <1>1 DEF IInv, Trusted, Reverting, At, Running, Shaped
    <2>2. CASE RevertHash(p)
      BY <1>1, <2>1, <2>2 DEF RevertHash, Sha, Baseline, Exit, Idle
    <2>3. ASSUME NEW q \in Procs, NEW m, NEW cmd, NEW doc, Start(q, cmd, m, doc) PROVE FALSE
      BY <1>1, <2>1, <2>3 DEF Start, Running, At
    <2>4. ASSUME NEW q \in Procs, Fail(q) PROVE FALSE
      BY <1>1, <2>1, <2>4 DEF Fail, Exit, Idle
    <2>5. ASSUME NEW q \in Procs, Step(q) PROVE RevertHash(p)
      <3>1. q = p
        BY <1>1, <2>1, <2>5, OthersKept
      <3> QED
        BY <1>1, <2>5, <3>1, OnlyHash
    <2> QED
      BY <1>1, <2>1, <2>2, <2>3, <2>4, <2>5 DEF Next, vars
  <1>2. IInv /\ [Next]_vars =>
            \A p \in Procs : At(p, "revert_hash") /\ proc'[p].result = "ok" => file'[proc[p].m] = Pristine
    BY <1>1
  <1> QED
    BY <1>2, InitInv, NextInv, PTL DEF Spec, RevertHonest

-----------------------------------------------------------------------------
(* Documents and the orders they stand for *)

\* What Layout::load and the checks of apply let through.
Proper(doc) == doc.n = N /\ DOMAIN doc.layers = Layers /\ \A l \in Layers : IsPermutation(doc.layers[l])

\* Tensor k belongs to layer k \div NT, and each layer has a tensor.
LEMMA LayersOfTensors ==
    /\ NL * NT \in Nat
    /\ \A k \in Tensors : LayerOf(k) \in Layers
    /\ \A l \in Layers : l * NT \in Tensors /\ LayerOf(l * NT) = l
  <1>1. ASSUME NEW k \in Tensors PROVE LayerOf(k) \in Layers
    BY <1>1, SizeAssumption DEF LayerOf, Layers, Tensors
  <1>2. ASSUME NEW l \in Layers PROVE l * NT \in Tensors /\ LayerOf(l * NT) = l
    BY <1>2, SizeAssumption DEF LayerOf, Layers, Tensors
  <1>3. NL * NT \in Nat
    BY SizeAssumption
  <1> QED
    BY <1>1, <1>2, <1>3

\* A rewrite brings to slot x the block of slot d[x].
LEMMA PermuteMoves ==
    ASSUME NEW d \in [Slots -> Slots], NEW f
    PROVE  C!Permute(d, f) = [x \in Slots |-> f[d[x]]]
  BY DEF C!Permute, C!Rewritten

\* A tensor arranged by a document holds in slot x the expert the document names there.
LEMMA ArrangedIs ==
    ASSUME NEW doc, Proper(doc)
    PROVE  Arranged(doc) = [k \in Tensors |-> doc.layers[LayerOf(k)]]
  <1> SUFFICES ASSUME NEW k \in Tensors
               PROVE  C!Permute(doc.layers[LayerOf(k)], Pristine[k]) = doc.layers[LayerOf(k)]
    BY DEF Arranged
  <1> DEFINE d == doc.layers[LayerOf(k)]
  <1>1. d \in [Slots -> Slots]
    BY LayersOfTensors DEF Proper, IsPermutation
  <1>2. C!Permute(d, Pristine[k]) = [x \in Slots |-> Pristine[k][d[x]]]
    BY <1>1, PermuteMoves
  <1>3. \A x \in Slots : Pristine[k][d[x]] = d[x]
    BY <1>1 DEF Pristine, Identity
  <1> QED
    BY <1>1, <1>2, <1>3

\* The identity document describes the file as downloaded.
LEMMA IdentityIs ==
    ASSUME NEW sha
    PROVE  Proper(IdentityLayout(sha)) /\ Arranged(IdentityLayout(sha)) = Pristine
  <1>1. Proper(IdentityLayout(sha))
    BY DEF Proper, IdentityLayout, Layout, Identity, IsPermutation
  <1>2. \A l \in Layers : IdentityLayout(sha).layers[l] = Identity
    BY DEF IdentityLayout, Layout
  <1> QED
    BY <1>1, <1>2, ArrangedIs, LayersOfTensors DEF Pristine

\* Layout::is_identity tells whether a document describes the file as downloaded.
LEMMA IsIdentityIff ==
    ASSUME NEW doc, Proper(doc)
    PROVE  IsIdentity(doc) <=> Arranged(doc) = Pristine
  <1>1. ASSUME IsIdentity(doc), NEW k \in Tensors PROVE doc.layers[LayerOf(k)] = Identity
    BY <1>1, LayersOfTensors DEF IsIdentity, Proper, IsPermutation, Identity
  <1>2. ASSUME Arranged(doc) = Pristine, NEW l \in Layers PROVE doc.layers[l] = Identity
    BY <1>2, ArrangedIs, LayersOfTensors DEF Pristine
  <1>3. (\A l \in Layers : doc.layers[l] = Identity) => IsIdentity(doc)
    BY DEF Proper, IsIdentity, Identity
  <1> QED
    BY <1>1, <1>2, <1>3, ArrangedIs DEF Pristine

\* slot_of inverts a permutation.
LEMMA SlotOfIs ==
    ASSUME NEW doc, Proper(doc), NEW l \in Layers, NEW e \in Slots
    PROVE  SlotOf(doc, l, e) \in Slots /\ doc.layers[l][SlotOf(doc, l, e)] = e
  BY DEF Proper, IsPermutation, SlotOf

\* apply's delta takes a tensor from the current order to the target order.
LEMMA RewritesTensor ==
    ASSUME NEW cur, NEW target, Proper(cur), Proper(target), NEW k \in Tensors
    PROVE  C!Permute(Delta(cur, target, LayerOf(k)), Arranged(cur)[k]) = Arranged(target)[k]
  <1> DEFINE l == LayerOf(k)
             d == Delta(cur, target, l)
  <1>1. l \in Layers
    BY LayersOfTensors
  <1>2. \A x \in Slots : target.layers[l][x] \in Slots
    BY <1>1 DEF Proper, IsPermutation
  <1>3. d \in [Slots -> Slots] /\ \A x \in Slots : cur.layers[l][d[x]] = target.layers[l][x]
    BY <1>1, <1>2, SlotOfIs DEF Delta
  <1>4. C!Permute(d, cur.layers[l]) = [x \in Slots |-> cur.layers[l][d[x]]]
    BY <1>3, PermuteMoves
  <1>5. target.layers[l] \in [Slots -> Slots]
    BY <1>1 DEF Proper, IsPermutation
  <1>6. C!Permute(d, cur.layers[l]) = target.layers[l]
    BY <1>3, <1>4, <1>5
  <1> QED
    BY <1>6, ArrangedIs

\* The checks of apply let only documents through that name an order for each layer.
LEMMA AcceptedIsProper ==
    ASSUME NEW cur, NEW doc \in Documents, Acceptable(cur, doc)
    PROVE  Proper(doc)
  <1>1. CASE doc \in Targets
    BY <1>1, TargetsAssumption DEF Acceptable, Proper
  <1>2. CASE \E m \in Models : doc = IdentityLayout(Baseline(m))
    BY <1>2, IdentityIs
  <1> QED
    BY <1>1, <1>2 DEF Documents

-----------------------------------------------------------------------------
(* What failures lose *)

\* A document whose orders are permutations, with the fields of one.
Good(doc) == Proper(doc) /\ DOMAIN doc = {"sha", "n", "layers"}

\* Every block of a tensor is one of the model's or torn, and a failure has lost one at most.
Kept ==
    /\ file \in [Models -> [Tensors -> [Slots -> Contents]]]
    /\ failures \in 0 .. MaxFailures
    /\ IsFiniteSet(Lost) /\ Cardinality(Lost) <= failures

\* The documents process p works with are permutations, so that every rewrite it makes is one.
Sound(p) ==
    /\ proc[p].m \in Models /\ proc[p].k \in 0 .. NL * NT
    /\ proc[p].result \in {"none", "ok", "error", "mismatch"}
    /\ proc[p].pc \in RevertPcs => proc[p].cmd = "revert"
    /\ proc[p].pc \in {"apply_load", "apply_target"} /\ proc[p].cmd # "revert" => proc[p].target \in Targets
    /\ proc[p].pc \in {"apply_target", "apply_tensor", "apply_write"} => Good(proc[p].cur)
    /\ proc[p].pc \in {"apply_tensor", "apply_write"} => Good(proc[p].target)

\* Of the documents on disk as well.  Nothing here needs the commands on a model to exclude
\* each other: two of them may leave the tensors in no order, but they lose no block.
LInv ==
    /\ Shaped /\ Kept
    /\ \A m \in Models : IsLayout(sidecar[m]) => Good(sidecar[m])
    /\ IsLayout(tmp) => Good(tmp)
    /\ \A p \in Procs : Sound(p)

\* The images CycleOrder names are the same under either name.
LEMMA SameImages ==
    ASSUME NEW d, NEW f, NEW torn
    PROVE  C!CrashImages(d, f, torn) = Cy!CrashImages(d, f, torn) /\ C!Permute(d, f) = Cy!Permute(d, f)
BY DEF C!CrashImages, C!Permute, C!Stopped, C!Rewritten, C!Before, C!Leaders, C!Moving, C!Cycle, C!Path,
       C!Iterate, C!Cardinality, Cy!CrashImages, Cy!Permute, Cy!Stopped, Cy!Rewritten, Cy!Before,
       Cy!Leaders, Cy!Moving, Cy!Cycle, Cy!Path, Cy!Iterate, Cy!Cardinality, Cardinality

\* The slots are some naturals.
LEMMA SlotsAre == Slots \in SUBSET Int /\ IsFiniteSet(Slots)
BY SizeAssumption, FS_Interval DEF Slots

\* The permutation apply feeds to permute_tensor is one.
LEMMA DeltaPermutes ==
    ASSUME NEW cur, NEW target, Proper(cur), Proper(target), NEW l \in Layers
    PROVE  Permutes(Delta(cur, target, l), Slots)
<1> DEFINE d == Delta(cur, target, l)
<1>1. \A x \in Slots : target.layers[l][x] \in Slots
  BY DEF Proper, IsPermutation
<1>2. \A x, y \in Slots : target.layers[l][x] = target.layers[l][y] => x = y
  BY DEF Proper, IsPermutation
<1>3. d \in [Slots -> Slots] /\ \A x \in Slots : cur.layers[l][d[x]] = target.layers[l][x]
  BY <1>1, SlotOfIs DEF Delta
<1> HIDE DEF d
<1>4. \A x, y \in Slots : d[x] = d[y] => x = y
  BY <1>2, <1>3
<1> QED BY <1>3, <1>4, SlotsAre DEF Permutes, d

\* The blocks of f that img no longer holds are among S.
Holds(img, f, S) == \A y \in Slots : f[y] \in S \/ \E z \in Slots : img[z] = f[y]

\* What a rewritten tensor still holds is not lost.
LEMMA LostAfter ==
    ASSUME file \in [Models -> [Tensors -> [Slots -> Contents]]], NEW m \in Models, NEW k \in Tensors,
           NEW img \in [Slots -> Contents], NEW S, file' = [file EXCEPT ![m][k] = img],
           Holds(img, file[m][k], S)
    PROVE  /\ file' \in [Models -> [Tensors -> [Slots -> Contents]]]
           /\ Lost' \subseteq Lost \cup {<<m, k, e>> : e \in S}
<1>1. file' \in [Models -> [Tensors -> [Slots -> Contents]]]
  OBVIOUS
<1>2. file'[m][k] = img /\ \A n \in Models, j \in Tensors : <<n, j>> # <<m, k>> => file'[n][j] = file[n][j]
  OBVIOUS
<1>3. ASSUME NEW n \in Models, NEW j \in Tensors, NEW e \in Slots, \A x \in Slots : file'[n][j][x] # e
      PROVE  (\A x \in Slots : file[n][j][x] # e) \/ <<n, j, e>> \in {<<m, k, c>> : c \in S}
  <2>1. CASE <<n, j>> # <<m, k>>
    BY <1>2, <1>3, <2>1
  <2>2. CASE n = m /\ j = k
    <3>1. ASSUME NEW x \in Slots, file[m][k][x] = e PROVE e \in S
      BY <1>2, <1>3, <2>2, <3>1 DEF Holds
    <3> QED BY <2>2, <3>1
  <2> QED BY <2>1, <2>2
<1>4. Lost' \subseteq Lost \cup {<<m, k, e>> : e \in S}
  <2> SUFFICES ASSUME NEW b \in Lost' PROVE b \in Lost \cup {<<m, k, e>> : e \in S}
    OBVIOUS
  <2>1. PICK n \in Models, j \in Tensors, e \in Slots : b = <<n, j, e>>
    BY DEF Lost
  <2>2. \A x \in Slots : file'[n][j][x] # e
    BY <2>1 DEF Lost
  <2> QED BY <1>3, <2>1, <2>2 DEF Lost
<1> QED BY <1>1, <1>4

\* No file has been touched.
LEMMA InitLoss == Init => LInv
<1> SUFFICES ASSUME Init PROVE LInv
  OBVIOUS
<1>1. (CHOOSE m \in Models : TRUE) \in Models
  BY ModelsAssumption
<1>2. file \in [Models -> [Tensors -> [Slots -> Contents]]]
  BY DEF Init, Pristine, Identity, Contents
<1>3. Lost = {}
  <2> SUFFICES ASSUME NEW b \in Lost PROVE FALSE
    OBVIOUS
  <2>1. b[1] \in Models /\ b[2] \in Tensors /\ b[3] \in Slots /\ \A x \in Slots : file[b[1]][b[2]][x] # b[3]
    BY DEF Lost
  <2> QED BY <2>1 DEF Init, Pristine, Identity
<1>4. Kept
  BY <1>2, <1>3, FS_EmptySet, MaxFailuresAssumption DEF Kept, Init
<1>5. \A p \in Procs : proc[p] = Idle("none", CHOOSE m \in Models : TRUE, "none")
  BY DEF Init
<1>6. \A p \in Procs : Sound(p)
  <2>1. 0 \in 0 .. NL * NT
    BY LayersOfTensors
  <2>2. PICK m \in Models : \A p \in Procs : proc[p] = Idle("none", m, "none")
    BY <1>1, <1>5
  <2>3. \A p \in Procs : proc[p].m = m /\ proc[p].k = 0 /\ proc[p].result = "none" /\ proc[p].pc = "idle"
    BY <2>2 DEF Idle
  <2> QED BY <2>1, <2>3 DEF Sound, RevertPcs
<1> QED BY <1>4, <1>5, <1>6 DEF Init, LInv, Shaped, Fields, IsLayout, Idle, Running

\* A command starts.
LEMMA StartLoss ==
    ASSUME LInv, NEW p \in Procs, NEW m \in Models,
           NEW cmd \in {"init", "apply", "dry_run", "revert", "verify"}, NEW doc,
           doc = Absent \/ doc \in Targets, Start(p, cmd, m, doc)
    PROVE  LInv'
<1>1. /\ UNCHANGED <<file, sidecar, tmp, failures>>
      /\ proc' = [proc EXCEPT ![p] = [Idle(cmd, m, "none") EXCEPT !.pc = FirstPc(cmd), !.target = doc]]
  BY DEF Start
<1>2. Kept'
  BY <1>1 DEF LInv, Kept, Lost
<1>3. Shaped'
  BY <1>1 DEF LInv, Shaped, Idle, Fields, Running
<1>4. /\ proc'[p].m = m /\ proc'[p].k = 0 /\ proc'[p].result = "none" /\ proc'[p].cmd = cmd
      /\ proc'[p].target = doc /\ proc'[p].pc = FirstPc(cmd)
  BY <1>1 DEF LInv, Shaped, Idle
<1>5. /\ cmd \in {"apply", "dry_run"} => doc \in Targets
      /\ FirstPc(cmd) \in {"init_check", "apply_load", "revert_load", "verify_load"}
      /\ FirstPc(cmd) = "apply_load" => cmd \in {"apply", "dry_run"}
      /\ FirstPc(cmd) = "revert_load" => cmd = "revert"
  BY DEF Start, FirstPc
<1>6. Sound(p)'
  BY <1>4, <1>5, LayersOfTensors DEF Sound, RevertPcs
<1>7. \A q \in Procs : q # p => proc'[q] = proc[q]
  BY <1>1 DEF LInv, Shaped
<1>8. \A q \in Procs : Sound(q)'
  BY <1>6, <1>7 DEF LInv, Sound
<1> QED BY <1>1, <1>2, <1>3, <1>8 DEF LInv, IsLayout

\* A step that leaves the files alone, process p with good documents and what it writes good.
LEMMA LossKept ==
    ASSUME LInv, NEW p \in Procs, UNCHANGED <<file, failures>>,
           DOMAIN sidecar' = Models, DOMAIN proc' = Procs, DOMAIN proc'[p] = Fields,
           \A q \in Procs : q # p => proc'[q] = proc[q],
           \A m \in Models : sidecar'[m] = sidecar[m] \/ ~IsLayout(sidecar'[m]) \/ Good(sidecar'[m]),
           tmp' = tmp \/ ~IsLayout(tmp') \/ Good(tmp'), Sound(p)'
    PROVE  LInv'
<1>1. Kept'
  BY DEF LInv, Kept, Lost
<1>2. Shaped'
  BY DEF LInv, Shaped, Sound, Running
<1>3. \A q \in Procs : Sound(q)'
  BY DEF LInv, Sound
<1>4. \A m \in Models : IsLayout(sidecar'[m]) => Good(sidecar'[m])
  BY DEF LInv
<1>5. IsLayout(tmp') => Good(tmp')
  BY DEF LInv
<1> QED BY <1>1, <1>2, <1>3, <1>4, <1>5 DEF LInv, IsLayout, Good, Proper, IsPermutation

\* What init and revert write.
LEMMA IdentityGood == ASSUME NEW sha PROVE Good(IdentityLayout(sha))
BY IdentityIs DEF Good, IdentityLayout, Layout

\* What apply writes.
LEMMA AppliedGood ==
    ASSUME NEW p \in Procs, Good(proc[p].target)
    PROVE  Good(Applied(p))
<1>1. Applied(p).n = proc[p].target.n /\ Applied(p).layers = proc[p].target.layers
      /\ DOMAIN Applied(p) = DOMAIN proc[p].target
  BY DEF Applied, Good
<1> QED BY <1>1 DEF Good, Proper

\* Every step of a command.
LEMMA StepLoss ==
    ASSUME LInv, NEW p \in Procs, Step(p)
    PROVE  LInv'
<1>1. /\ Shaped /\ Sound(p) /\ Kept /\ \A m \in Models : IsLayout(sidecar[m]) => Good(sidecar[m])
      /\ IsLayout(tmp) => Good(tmp) /\ proc[p].m \in Models /\ DOMAIN proc[p] = Fields
  BY DEF LInv, Sound, Shaped
<1>0. proc[p].m \in Models /\ \A m \in Models : sidecar[m] \notin {Absent, TornDoc} => Good(sidecar[m])
  BY DEF LInv, Sound, IsLayout
<1>2. \A q \in Procs : q # p => proc'[q] = proc[q]
  BY <1>1, OthersKept DEF Shaped
<1> DEFINE Others == UNCHANGED <<file, failures>>
           Disk == /\ DOMAIN sidecar' = Models
                   /\ \A m \in Models : sidecar'[m] = sidecar[m] \/ ~IsLayout(sidecar'[m]) \/ Good(sidecar'[m])
                   /\ tmp' = tmp \/ ~IsLayout(tmp') \/ Good(tmp')
           Self == DOMAIN proc' = Procs /\ DOMAIN proc'[p] = Fields /\ Sound(p)'
<1>3. Others /\ Disk /\ Self => LInv'
  BY <1>2, LossKept
<1>4. 0 \in 0 .. NL * NT
  BY LayersOfTensors
<1>5. ASSUME NEW r \in {"ok", "error", "mismatch"}, Exit(p, r) PROVE Self
  BY <1>1, <1>4, <1>5 DEF Exit, Idle, Shaped, Fields, Sound, RevertPcs
<1>6. ASSUME UNCHANGED <<sidecar, tmp>> PROVE Disk
  BY <1>1, <1>6 DEF Shaped
<1>7. Bail(p) => LInv'
  BY <1>3, <1>5, <1>6 DEF Bail
<1>8. ASSUME NEW m \in Models, NEW doc, ~IsLayout(doc) \/ Good(doc),
             sidecar' = [sidecar EXCEPT ![m] = doc], UNCHANGED tmp
      PROVE  Disk
  BY <1>1, <1>8 DEF Shaped
<1>9. ASSUME NEW pc, Goto(p, pc),
             \/ pc \notin {"apply_load", "apply_target", "apply_tensor", "apply_write"} \cup RevertPcs
             \/ proc[p].pc \in RevertPcs /\ pc \in {"apply_load"} \cup RevertPcs
             \/ proc[p].pc = "apply_tensor" /\ pc = "apply_write"
             \/ proc[p].cmd = "revert" /\ pc \in RevertPcs
      PROVE  Self
  BY <1>1, <1>9 DEF Goto, Shaped, Fields, Sound, RevertPcs
<1> HIDE DEF Others, Disk, Self
<1>10. CASE InitCheck(p)
  <2>1. Goto(p, "init_hash") /\ UNCHANGED <<file, sidecar, tmp, failures>>
    BY <1>10 DEF InitCheck
  <2> QED BY <1>3, <1>6, <1>9, <2>1 DEF Others, RevertPcs
<1>11. CASE InitRefuse(p)
  BY <1>7, <1>11 DEF InitRefuse
<1>12. CASE InitHash(p)
  <2>1. proc' = [proc EXCEPT ![p].sha = Sha(proc[p].m), ![p].pc = "init_save"]
        /\ UNCHANGED <<file, sidecar, tmp, failures>>
    BY <1>12 DEF InitHash
  <2>2. Self
    BY <1>1, <2>1 DEF Self, Shaped, Fields, Sound, RevertPcs
  <2> QED BY <1>3, <1>6, <2>1, <2>2 DEF Others
<1>13. CASE InitTruncate(p)
  <2>1. Goto(p, "init_write") /\ sidecar' = [sidecar EXCEPT ![proc[p].m] = TornDoc]
        /\ UNCHANGED <<file, tmp, failures>>
    BY <1>13 DEF InitTruncate
  <2>2. ~IsLayout(TornDoc) /\ proc[p].m \in Models /\ UNCHANGED tmp
    BY <1>0, <2>1 DEF IsLayout
  <2>3. Disk
    BY <1>8, <2>1, <2>2
  <2> QED BY <1>3, <1>9, <2>1, <2>3 DEF Others, RevertPcs
<1>14. CASE InitWrite(p)
  <2>1. Exit(p, "ok") /\ sidecar' = [sidecar EXCEPT ![proc[p].m] = IdentityLayout(proc[p].sha)]
        /\ UNCHANGED <<file, tmp, failures>>
    BY <1>14 DEF InitWrite
  <2>2. Good(IdentityLayout(proc[p].sha)) /\ proc[p].m \in Models /\ UNCHANGED tmp
    BY <1>0, <2>1, IdentityGood
  <2>3. Disk
    BY <1>8, <2>1, <2>2
  <2> QED BY <1>3, <1>5, <2>1, <2>3 DEF Others
<1>15. CASE ApplyLoad(p)
  <2>1. ASSUME proc' = [proc EXCEPT ![p].cur = sidecar[proc[p].m], ![p].pc = "apply_target"],
               IsLayout(sidecar[proc[p].m]), UNCHANGED <<file, sidecar, tmp, failures>>
        PROVE  LInv'
    <3>1. proc[p].pc = "apply_load" /\ Good(sidecar[proc[p].m])
      <4>1. proc[p].pc = "apply_load"
        BY <1>15 DEF ApplyLoad, At
      <4> QED BY <1>0, <2>1, <4>1 DEF IsLayout
    <3>2. Self
      BY <1>1, <2>1, <3>1 DEF Self, Shaped, Fields, Sound, RevertPcs
    <3> QED BY <1>3, <1>6, <2>1, <3>2 DEF Others
  <2> QED BY <1>7, <1>15, <2>1 DEF ApplyLoad, Current
<1>16. CASE ApplyTarget(p)
  <2> DEFINE doc == IF proc[p].cmd = "revert" THEN tmp ELSE proc[p].target
  <2>1. ASSUME proc' = [proc EXCEPT ![p].target = doc, ![p].k = 0, ![p].pc = "apply_tensor"],
               IsLayout(doc), Acceptable(proc[p].cur, doc), UNCHANGED <<file, sidecar, tmp, failures>>
        PROVE  LInv'
    <3>1. Good(doc)
      <4>1. CASE proc[p].cmd = "revert"
        BY <1>1, <2>1, <4>1
      <4>2. CASE proc[p].cmd # "revert"
        <5>1. proc[p].target \in Targets
          BY <1>1, <1>16, <4>2 DEF ApplyTarget, At, Sound
        <5>2. Proper(proc[p].target)
          BY <2>1, <4>2, <5>1, AcceptedIsProper DEF Documents
        <5>3. DOMAIN proc[p].target = {"sha", "n", "layers"}
          BY <5>1, DocumentsAreLayouts DEF Documents
        <5> QED BY <4>2, <5>2, <5>3 DEF Good
      <4> QED BY <4>1, <4>2
    <3>2. Good(proc[p].cur)
      BY <1>1, <1>16 DEF ApplyTarget, At, Sound
    <3> HIDE DEF doc
    <3>3. Self
      BY <1>1, <1>4, <2>1, <3>1, <3>2 DEF Self, Shaped, Fields, Sound, RevertPcs
    <3> QED BY <1>3, <1>6, <2>1, <3>3 DEF Others
  <2> QED BY <1>7, <1>16, <2>1 DEF ApplyTarget
<1>17. CASE ApplyTensor(p)
  <2> DEFINE m == proc[p].m
             k == proc[p].k
  <2>1. /\ proc[p].pc = "apply_tensor" /\ k \in Tensors /\ UNCHANGED <<sidecar, tmp, failures>>
        /\ proc' = [proc EXCEPT ![p].k = k + 1]
        /\ proc[p].cmd = "dry_run" => UNCHANGED file
        /\ proc[p].cmd # "dry_run" => file' = [file EXCEPT ![m][k] = C!Permute(DeltaAt(p, k), @)]
    BY <1>17 DEF ApplyTensor, At
  <2>2. k + 1 \in 0 .. NL * NT
    BY <2>1, LayersOfTensors DEF Tensors
  <2>3. Self
    BY <1>1, <2>1, <2>2 DEF Self, Shaped, Fields, Sound, RevertPcs
  <2>4. CASE proc[p].cmd = "dry_run"
    BY <1>3, <1>6, <2>1, <2>3, <2>4 DEF Others
  <2>5. CASE proc[p].cmd # "dry_run"
    <3> DEFINE d == DeltaAt(p, k)
               f == file[m][k]
               img == C!Permute(d, f)
    <3>1. Permutes(d, Slots)
      <4>1. Proper(proc[p].cur) /\ Proper(proc[p].target)
        BY <1>1, <2>1 DEF Sound, Good
      <4> QED BY <2>1, <4>1, DeltaPermutes, LayersOfTensors DEF DeltaAt
    <3>2. m \in Models /\ file \in [Models -> [Tensors -> [Slots -> Contents]]]
      BY <1>0, <1>1 DEF Kept
    <3>3. f \in [Slots -> Contents] /\ file' = [file EXCEPT ![m][k] = img]
      BY <2>1, <2>5, <3>2
    <3> HIDE DEF m, k, d, f
    <3>4. img = [x \in Slots |-> f[d[x]]] /\ \A x \in Slots : d[x] \in Slots
      <4>1. d \in [Slots -> Slots]
        BY <3>1 DEF Permutes
      <4> QED BY <4>1, PermuteMoves
    <3>5. \A y \in Slots : \E z \in Slots : d[z] = y
      BY <3>1, PermutesOnto
    <3> HIDE DEF img
    <3>6. img \in [Slots -> Contents]
      BY <3>3, <3>4
    <3>7. Holds(img, file[m][k], {})
      BY <3>4, <3>5 DEF Holds, f
    <3>8. /\ file' \in [Models -> [Tensors -> [Slots -> Contents]]]
          /\ Lost' \subseteq Lost \cup {<<m, k, e>> : e \in {}}
      BY <2>1, <3>2, <3>3, <3>6, <3>7, LostAfter
    <3>9. IsFiniteSet(Lost') /\ Cardinality(Lost') <= failures
      <4>1. IsFiniteSet(Lost) /\ Cardinality(Lost) <= failures /\ failures \in Nat
        BY <1>1, MaxFailuresAssumption DEF Kept
      <4>2. Lost' \subseteq Lost
        BY <3>8
      <4>3. IsFiniteSet(Lost') /\ Cardinality(Lost') <= Cardinality(Lost)
        BY <4>1, <4>2, FS_Subset
      <4> QED BY <4>1, <4>3, FS_CardinalityType
    <3>10. Kept'
      BY <1>1, <2>1, <3>8, <3>9 DEF Kept
    <3>11. Shaped' /\ \A q \in Procs : Sound(q)'
      BY <1>2, <2>1, <2>3, <3>8 DEF Self, Shaped, Sound, Running, LInv
    <3> QED BY <2>1, <3>10, <3>11 DEF LInv, IsLayout, Good, Proper, IsPermutation
  <2> QED BY <2>4, <2>5
<1>18. CASE DryRunEnd(p)
  <2>1. Exit(p, "ok") /\ UNCHANGED <<file, sidecar, tmp, failures>>
    BY <1>18 DEF DryRunEnd
  <2> QED BY <1>3, <1>5, <1>6, <2>1 DEF Others
<1>19. CASE ApplyTruncate(p)
  <2>1. Goto(p, "apply_write") /\ sidecar' = [sidecar EXCEPT ![proc[p].m] = TornDoc]
        /\ UNCHANGED <<file, tmp, failures>> /\ proc[p].pc = "apply_tensor"
    BY <1>19 DEF ApplyTruncate, At
  <2>2. ~IsLayout(TornDoc) /\ proc[p].m \in Models /\ UNCHANGED tmp
    BY <1>0, <2>1 DEF IsLayout
  <2>3. Disk
    BY <1>8, <2>1, <2>2
  <2> QED BY <1>3, <1>9, <2>1, <2>3 DEF Others
<1>20. CASE ApplyWrite(p)
  <2>1. /\ sidecar' = [sidecar EXCEPT ![proc[p].m] = Applied(p)] /\ UNCHANGED <<file, tmp, failures>>
        /\ proc[p].pc = "apply_write"
        /\ proc[p].cmd = "revert" => Goto(p, "revert_remove")
        /\ proc[p].cmd # "revert" => Exit(p, "ok")
    BY <1>20 DEF ApplyWrite, At
  <2>2. Good(Applied(p)) /\ proc[p].m \in Models /\ UNCHANGED tmp
    BY <1>0, <1>1, <2>1, AppliedGood DEF Sound
  <2>3. Disk
    BY <1>8, <2>1, <2>2
  <2>4. Self
    BY <1>5, <1>9, <2>1 DEF RevertPcs
  <2> QED BY <1>3, <2>1, <2>3, <2>4 DEF Others
<1>21. CASE RevertLoad(p)
  <2>1. ASSUME NEW sha, proc' = [proc EXCEPT ![p].sha = sha, ![p].pc = "revert_save"],
               UNCHANGED <<file, sidecar, tmp, failures>>
        PROVE  LInv'
    <3>1. proc[p].pc = "revert_load"
      BY <1>21 DEF RevertLoad, At
    <3>2. Self
      BY <1>1, <2>1, <3>1 DEF Self, Shaped, Fields, Sound, RevertPcs
    <3> QED BY <1>3, <1>6, <2>1, <3>2 DEF Others
  <2> QED BY <1>7, <1>21, <2>1 DEF RevertLoad
<1>22. CASE RevertTruncate(p)
  <2>1. Goto(p, "revert_write") /\ tmp' = TornDoc /\ UNCHANGED <<file, sidecar, failures>>
        /\ proc[p].pc = "revert_save"
    BY <1>22 DEF RevertTruncate, At
  <2>2. Disk
    BY <1>1, <2>1 DEF Disk, IsLayout, Shaped
  <2> QED BY <1>3, <1>9, <2>1, <2>2 DEF Others, RevertPcs
<1>23. CASE RevertWrite(p)
  <2>1. Goto(p, "apply_load") /\ tmp' = IdentityLayout(proc[p].sha) /\ UNCHANGED <<file, sidecar, failures>>
        /\ proc[p].pc = "revert_write"
    BY <1>23 DEF RevertWrite, At
  <2>2. Disk
    BY <1>1, <2>1, IdentityGood DEF Disk, Shaped
  <2> QED BY <1>3, <1>9, <2>1, <2>2 DEF Others, RevertPcs
<1>24. CASE RevertRemove(p)
  <2>1. Goto(p, "revert_hash") /\ tmp' = Absent /\ UNCHANGED <<file, sidecar, failures>>
        /\ proc[p].pc = "revert_remove"
    BY <1>24 DEF RevertRemove, At
  <2>2. Disk
    BY <1>1, <2>1 DEF Disk, IsLayout, Shaped
  <2> QED BY <1>3, <1>9, <2>1, <2>2 DEF Others, RevertPcs
<1>25. CASE RevertHash(p)
  <2>1. (Exit(p, "ok") \/ Exit(p, "mismatch")) /\ UNCHANGED <<file, sidecar, tmp, failures>>
    BY <1>25 DEF RevertHash
  <2> QED BY <1>3, <1>5, <1>6, <2>1 DEF Others
<1>26. CASE VerifyLoad(p)
  <2>1. ASSUME NEW doc, proc' = [proc EXCEPT ![p].cur = doc, ![p].pc = "verify_hash"],
               UNCHANGED <<file, sidecar, tmp, failures>>
        PROVE  LInv'
    <3>1. Self
      BY <1>1, <2>1 DEF Self, Shaped, Fields, Sound, RevertPcs
    <3> QED BY <1>3, <1>6, <2>1, <3>1 DEF Others
  <2> QED BY <1>7, <1>26, <2>1 DEF VerifyLoad
<1>27. CASE VerifyHash(p)
  <2>1. (Exit(p, "ok") \/ Exit(p, "mismatch")) /\ UNCHANGED <<file, sidecar, tmp, failures>>
    BY <1>27 DEF VerifyHash
  <2> QED BY <1>3, <1>5, <1>6, <2>1 DEF Others
<1> QED
  BY <1>10, <1>11, <1>12, <1>13, <1>14, <1>15, <1>16, <1>17, <1>18, <1>19, <1>20, <1>21, <1>22, <1>23,
     <1>24, <1>25, <1>26, <1>27 DEF Step, InitCommand, ApplyCommand, RevertCommand, VerifyCommand

\* A failure costs one block, wherever it strikes.
LEMMA FailLoss ==
    ASSUME LInv, NEW p \in Procs, Fail(p)
    PROVE  LInv'
<1> DEFINE m == proc[p].m
           k == proc[p].k
<1>1. /\ failures' = failures + 1 /\ failures < MaxFailures /\ UNCHANGED <<sidecar, tmp>>
      /\ proc' = [proc EXCEPT ![p] = Idle(@.cmd, @.m, "error")]
      /\ \/ UNCHANGED file
         \/ /\ proc[p].pc = "apply_tensor" /\ k \in Tensors
            /\ \E img \in C!CrashImages(DeltaAt(p, k), file[m][k], Torn) :
                   file' = [file EXCEPT ![m][k] = img]
  BY DEF Fail, Exit, At
<1>2. /\ file \in [Models -> [Tensors -> [Slots -> Contents]]] /\ failures \in 0 .. MaxFailures
      /\ IsFiniteSet(Lost) /\ Cardinality(Lost) <= failures
  BY DEF LInv, Kept
<1>3. Sound(p) /\ Shaped /\ m \in Models
  BY DEF LInv, Sound
<1>4. /\ file' \in [Models -> [Tensors -> [Slots -> Contents]]]
      /\ \E b : Lost' \subseteq Lost \cup {b}
  <2>1. CASE UNCHANGED file
    <3>1. Lost' = Lost
      BY <2>1 DEF Lost
    <3> QED BY <1>2, <2>1, <3>1
  <2>2. CASE proc[p].pc = "apply_tensor" /\ k \in Tensors
             /\ \E img \in C!CrashImages(DeltaAt(p, k), file[m][k], Torn) : file' = [file EXCEPT ![m][k] = img]
    <3> DEFINE d == DeltaAt(p, k)
               f == file[m][k]
    <3>1. Permutes(d, Slots)
      <4>1. Proper(proc[p].cur) /\ Proper(proc[p].target)
        BY <1>3, <2>2 DEF Sound, Good
      <4> QED BY <2>2, <4>1, DeltaPermutes, LayersOfTensors DEF DeltaAt
    <3>2. f \in [Slots -> Contents]
      BY <1>2, <1>3, <2>2
    <3>3. PICK img : img \in C!CrashImages(d, f, Torn) /\ file' = [file EXCEPT ![m][k] = img]
      BY <2>2
    <3> HIDE DEF m, k, d, f
    <3>4. img \in Cy!CrashImages(d, f, Torn)
      BY <3>3, SameImages
    <3>5. /\ img \in [Slots -> Contents \cup {Torn}]
          /\ AllButOne(img, f, Slots)
      BY ONLY <3>1, <3>2, <3>4, SlotsAre, CrashLosesOne
    <3>6. img \in [Slots -> Contents]
      BY <3>5 DEF Contents
    <3>7. PICK x : \A y \in Slots \ {x} : \E z \in Slots : img[z] = f[y]
      BY <3>5 DEF AllButOne
    <3>8. Holds(img, file[m][k], {f[x]})
      BY <3>7 DEF Holds, f
    <3>9. /\ file' \in [Models -> [Tensors -> [Slots -> Contents]]]
          /\ Lost' \subseteq Lost \cup {<<m, k, e>> : e \in {f[x]}}
      BY <1>2, <1>3, <2>2, <3>3, <3>6, <3>8, LostAfter
    <3>10. {<<m, k, e>> : e \in {f[x]}} = {<<m, k, f[x]>>}
      OBVIOUS
    <3> QED BY <3>9, <3>10
  <2> QED BY <1>1, <2>1, <2>2
<1>5. Kept'
  <2>1. PICK b : Lost' \subseteq Lost \cup {b}
    BY <1>4
  <2>2. IsFiniteSet(Lost \cup {b}) /\ Cardinality(Lost \cup {b}) <= Cardinality(Lost) + 1
    BY <1>2, FS_AddElement, FS_CardinalityType
  <2>3. IsFiniteSet(Lost') /\ Cardinality(Lost') <= Cardinality(Lost \cup {b})
    BY <2>1, <2>2, FS_Subset
  <2>4. Cardinality(Lost') <= failures + 1
    BY <1>2, <2>2, <2>3, FS_CardinalityType, MaxFailuresAssumption
  <2>5. failures' \in 0 .. MaxFailures
    BY <1>1, <1>2, MaxFailuresAssumption
  <2> QED BY <1>1, <1>4, <2>3, <2>4, <2>5 DEF Kept
<1>6. Shaped' /\ Sound(p)'
  <2>1. 0 \in 0 .. NL * NT
    BY LayersOfTensors
  <2>2. DOMAIN file' = Models
    BY <1>4
  <2> QED BY <1>1, <1>3, <2>1, <2>2 DEF Shaped, Sound, Idle, Fields, RevertPcs, Running
<1>7. \A q \in Procs : Sound(q)'
  BY <1>1, <1>3, <1>6 DEF LInv, Sound, Shaped
<1> QED BY <1>1, <1>5, <1>6, <1>7 DEF LInv, IsLayout

\* The loss invariant is inductive.
LEMMA NextLoss == LInv /\ [Next]_vars => LInv'
<1> SUFFICES ASSUME LInv, [Next]_vars PROVE LInv'
  OBVIOUS
<1>1. CASE UNCHANGED vars
  <2>1. UNCHANGED <<file, sidecar, tmp, proc, failures>>
    BY <1>1 DEF vars
  <2> QED BY <2>1 DEF LInv, Shaped, Kept, Lost, Sound, Running, IsLayout, Good
<1> QED BY <1>1, StartLoss, StepLoss, FailLoss DEF Next

\* Good documents are layouts.
LEMMA LossIsBounded == LInv => LossBounded
<1> SUFFICES ASSUME LInv PROVE LossBounded
  OBVIOUS
<1>1. ASSUME NEW m \in Models, IsLayout(sidecar[m]), NEW l \in Layers
      PROVE  sidecar[m].n = N /\ {sidecar[m].layers[l][x] : x \in Slots} = Slots
  BY <1>1 DEF LInv, Good, Proper, IsPermutation
<1>2. ASSUME NEW m \in Models, IsLayout(sidecar[m]) PROVE sidecar[m].n = N
  BY <1>2 DEF LInv, Good, Proper
<1>3. TypeOK
  BY <1>1, <1>2 DEF LInv, Kept, Sound, TypeOK
<1> QED BY <1>3 DEF LInv, Kept, LossBounded

\* Whatever commands run over a file that failures left half rewritten, also two at a time on
\* one model: each failure has cost at most one expert block, since a rewrite that stops holds
\* every block but the one of the slot its cycle began with, and a rewrite that ends holds all.
THEOREM LossBoundedTheorem == Spec => []LossBounded
BY InitLoss, NextLoss, LossIsBounded, PTL DEF Spec

-----------------------------------------------------------------------------
(* When nothing fails: the invariant *)

\* A file of which apply has rewritten the tensors below k.
Halfway(cur, target, k) == [t \in Tensors |-> IF t < k THEN Arranged(target)[t] ELSE Arranged(cur)[t]]

\* A sidecar is true of the file unless a command is between its first write and its sidecar.
Settled ==
    \A m \in Models : IsLayout(sidecar[m]) =>
        /\ Proper(sidecar[m])
        /\ (\A p \in Procs : ~Rewriting(p, m)) => file[m] = Arranged(sidecar[m])

\* A sidecar is torn only while the command that writes it runs.
Owned ==
    \A m \in Models : sidecar[m] = TornDoc =>
        \E p \in Procs : proc[p].m = m /\ proc[p].pc \in {"init_write", "apply_write"}

\* How far process p has come with the file and the sidecar.
Working(p) ==
    LET m == proc[p].m IN
    /\ proc[p].pc \in {"apply_target", "apply_tensor", "verify_hash"} =>
           IsLayout(sidecar[m]) /\ proc[p].cur = sidecar[m]
    /\ At(p, "apply_tensor") =>
           /\ Proper(proc[p].target) /\ proc[p].k \in 0 .. NL * NT
           /\ file[m] = IF proc[p].cmd = "dry_run" THEN Arranged(proc[p].cur)
                        ELSE Halfway(proc[p].cur, proc[p].target, proc[p].k)
    /\ At(p, "apply_write") =>
           Proper(proc[p].target) /\ file[m] = Arranged(proc[p].target) /\ sidecar[m] = TornDoc
    /\ proc[p].pc \in {"apply_tensor", "apply_write"} /\ proc[p].cmd = "revert" =>
           proc[p].target = IdentityLayout(Baseline(m))
    /\ At(p, "init_save") => sidecar[m] = Absent
    /\ At(p, "init_write") => sidecar[m] = TornDoc /\ file[m] = Pristine
    /\ proc[p].pc \in {"revert_remove", "revert_hash"} => file[m] = Pristine
    /\ proc[p].result # "mismatch"

QInv == IInv /\ failures = 0 /\ Settled /\ Owned /\ \A p \in Procs : Working(p)

\* One more tensor.
LEMMA HalfwayOn ==
    ASSUME NEW cur, NEW target, NEW k \in Tensors
    PROVE  [Halfway(cur, target, k) EXCEPT ![k] = Arranged(target)[k]] = Halfway(cur, target, k + 1)
  <1> DEFINE h == [Halfway(cur, target, k) EXCEPT ![k] = Arranged(target)[k]]
  <1>1. \A t \in Tensors : h[t] = Halfway(cur, target, k + 1)[t]
    BY DEF Halfway, Tensors
  <1> QED
    BY <1>1 DEF Halfway

\* Carrying the hash over does not change the order a document stands for.
LEMMA AppliedIs ==
    ASSUME NEW p \in Procs, proc[p].target \in Documents, Proper(proc[p].target)
    PROVE  Proper(Applied(p)) /\ Arranged(Applied(p)) = Arranged(proc[p].target)
  <1>1. Applied(p).n = proc[p].target.n /\ Applied(p).layers = proc[p].target.layers
    BY DocumentsAreLayouts DEF Applied
  <1> QED
    BY <1>1 DEF Proper, Arranged

-----------------------------------------------------------------------------
(* It is inductive *)

\* Every file is as downloaded.
LEMMA InitQuiet == Init => QInv
  BY InitInv, MarkersAssumption DEF Init, QInv, Settled, Owned, Working, Idle, IsLayout, At

\* A command starts.
LEMMA StartQuiet ==
    ASSUME OnePerModel, QInv, NEW p \in Procs, NEW m \in Models,
           NEW cmd \in {"init", "apply", "dry_run", "revert", "verify"}, NEW doc,
           doc = Absent \/ doc \in Targets, Start(p, cmd, m, doc)
    PROVE  QInv'
  <1> USE DEF QInv, Settled, Owned, Working, Rewriting, IsLayout, Running, At
  <1>1. IInv'
    BY StartInv
  <1>2. /\ \A q \in Procs : q # p => proc'[q] = proc[q]
        /\ proc'[p].pc \in {"init_check", "apply_load", "revert_load", "verify_load"}
        /\ proc'[p].result = "none" /\ ~Running(p)
    BY DEF Start, FirstPc, Idle, IInv, Shaped, Fields
  <1>3. UNCHANGED <<file, sidecar, failures>>
    BY DEF Start
  <1>4. \A q \in Procs : Working(q)'
    BY <1>2, <1>3
  <1> QED
    BY <1>1, <1>2, <1>3, <1>4

\* Every step of a command.
LEMMA StepQuiet ==
    ASSUME OnePerModel, QInv, NEW p \in Procs, Step(p)
    PROVE  QInv'
  <1> USE DEF QInv, Settled, Owned, Working, Rewriting, IInv, Shaped, Exclusive, Fields,
              IsLayout, Running, At, Goto, Exit, Idle
  <1>0. IInv'
    BY StepInv
  <1>1. CASE InitCheck(p)
    BY <1>0, <1>1 DEF InitCheck
  <1>2. CASE InitRefuse(p)
    BY <1>0, <1>2 DEF InitRefuse, Bail
  <1>3. CASE InitHash(p)
    BY <1>0, <1>3 DEF InitHash, Trusted
  <1>4. CASE InitTruncate(p)
    BY <1>0, <1>4, MarkersAssumption DEF InitTruncate, Unrecorded
  <1>5. CASE InitWrite(p)
    <2>1. proc[p].m \in Models /\ proc[p].sha = Baseline(proc[p].m) /\ file[proc[p].m] = Pristine
      BY <1>5 DEF InitWrite, Trusted
    <2>2. IdentityLayout(proc[p].sha) # TornDoc
      BY <2>1, MarkersAssumption DEF Documents, IdentityLayout, Layout
    <2> QED
      BY <1>0, <1>5, <2>1, <2>2, IdentityIs DEF InitWrite
  <1>6. CASE ApplyLoad(p)
    BY <1>0, <1>6 DEF ApplyLoad, Current, Bail
  <1>7. CASE ApplyTarget(p)
    BY <1>0, <1>7 DEF ApplyTarget, Bail, Documents
  <1>8. CASE ApplyTensor(p)
    <2> DEFINE m == proc[p].m
               k == proc[p].k
               cur == proc[p].cur
               target == proc[p].target
    <2>1. /\ m \in Models /\ k \in Tensors /\ Proper(cur) /\ Proper(target)
          /\ proc' = [proc EXCEPT ![p].k = k + 1] /\ UNCHANGED <<sidecar, tmp, failures>>
          /\ At(p, "apply_tensor")
      BY <1>8 DEF ApplyTensor
    <2>2. k + 1 \in 0 .. NL * NT
      BY <2>1, LayersOfTensors DEF Tensors
    <2>3. file'[m] = IF proc[p].cmd = "dry_run" THEN Arranged(cur) ELSE Halfway(cur, target, k + 1)
      <3>1. CASE proc[p].cmd = "dry_run"
        BY <1>8, <3>1 DEF ApplyTensor
      <3>2. CASE proc[p].cmd # "dry_run"
        <4>1. file[m] = Halfway(cur, target, k)
          BY <2>1, <3>2
        <4>2. file'[m] = [file[m] EXCEPT ![k] = C!Permute(Delta(cur, target, LayerOf(k)), @)]
          BY <1>8, <2>1, <3>2 DEF ApplyTensor, DeltaAt
        <4>3. C!Permute(Delta(cur, target, LayerOf(k)), file[m][k]) = Arranged(target)[k]
          BY <2>1, <4>1, RewritesTensor DEF Halfway, Tensors
        <4> QED
          BY <2>1, <3>2, <4>1, <4>2, <4>3, HalfwayOn
      <3> QED
        BY <3>1, <3>2
    <2>4. \A n \in Models : n # m => file'[n] = file[n]
      BY <1>8, <2>1 DEF ApplyTensor
    <2> QED
      BY <1>0, <2>1, <2>2, <2>3, <2>4
  <1>9. CASE DryRunEnd(p)
    BY <1>0, <1>9 DEF DryRunEnd
  <1>10. CASE ApplyTruncate(p)
    <2>1. proc[p].k = NL * NT
      BY <1>10, LayersOfTensors DEF ApplyTruncate, Tensors
    <2>2. Halfway(proc[p].cur, proc[p].target, NL * NT) = Arranged(proc[p].target)
      BY LayersOfTensors DEF Halfway, Arranged, Tensors
    <2> QED
      BY <1>0, <1>10, <2>1, <2>2, MarkersAssumption DEF ApplyTruncate
  <1>11. CASE ApplyWrite(p)
    <2>1. /\ proc[p].m \in Models /\ proc[p].target \in Documents /\ Proper(proc[p].target)
          /\ proc[p].cur.sha = Baseline(proc[p].m)
      BY <1>11 DEF ApplyWrite, Trusted
    <2>2. Applied(p) # TornDoc
      BY <2>1, MarkersAssumption DEF Applied
    <2>3. Proper(Applied(p)) /\ Arranged(Applied(p)) = file[proc[p].m]
      BY <1>11, <2>1, AppliedIs DEF ApplyWrite
    <2>4. proc[p].cmd = "revert" => file[proc[p].m] = Pristine
      BY <1>11, IdentityIs DEF ApplyWrite
    <2> QED
      BY <1>0, <1>11, <2>1, <2>2, <2>3, <2>4 DEF ApplyWrite
  <1>12. CASE RevertLoad(p)
    BY <1>0, <1>12 DEF RevertLoad, Current, Bail
  <1>13. CASE RevertTruncate(p)
    BY <1>0, <1>13 DEF RevertTruncate
  <1>14. CASE RevertWrite(p)
    BY <1>0, <1>14 DEF RevertWrite
  <1>15. CASE RevertRemove(p)
    BY <1>0, <1>15 DEF RevertRemove
  <1>16. CASE RevertHash(p)
    BY <1>0, <1>16 DEF RevertHash, Trusted, Reverting, Sha, Baseline
  <1>17. CASE VerifyLoad(p)
    BY <1>0, <1>17 DEF VerifyLoad, Current, Bail
  <1>18. CASE VerifyHash(p)
    <2>1. /\ proc[p].m \in Models /\ Proper(proc[p].cur) /\ proc[p].cur.sha = Baseline(proc[p].m)
          /\ file[proc[p].m] = Arranged(proc[p].cur)
      BY <1>18 DEF VerifyHash, BaselineKept
    <2>2. IsIdentity(proc[p].cur) <=> Sha(proc[p].m) = proc[p].cur.sha
      BY <2>1, IsIdentityIff DEF Sha, Baseline
    <2>3. IsIdentity(proc[p].cur) = (Sha(proc[p].m) = proc[p].cur.sha)
      BY <2>2 DEF IsIdentity
    <2> QED
      BY <1>0, <1>18, <2>3 DEF VerifyHash
  <1> QED
    BY <1>1, <1>2, <1>3, <1>4, <1>5, <1>6, <1>7, <1>8, <1>9, <1>10, <1>11, <1>12, <1>13, <1>14, <1>15,
       <1>16, <1>17, <1>18 DEF Step, InitCommand, ApplyCommand, RevertCommand, VerifyCommand

\* The invariant is inductive where nothing may fail.
LEMMA NextQuiet == OnePerModel /\ MaxFailures = 0 /\ QInv /\ [Next]_vars => QInv'
  <1> SUFFICES ASSUME OnePerModel, MaxFailures = 0, QInv, [Next]_vars PROVE QInv'
    OBVIOUS
  <1>1. CASE UNCHANGED vars
    BY <1>1, NextInv DEF vars, QInv, Settled, Owned, Working, Rewriting, IsLayout, At
  <1>2. ASSUME NEW p \in Procs, Fail(p) PROVE FALSE
    BY <1>2 DEF Fail, QInv
  <1> QED
    BY <1>1, <1>2, StartQuiet, StepQuiet DEF Next

-----------------------------------------------------------------------------
(* The sidecar is true of the file *)

\* The invariant gives SidecarTrue.
LEMMA QuietIsTrue == QInv => SidecarTrue
  BY DEF QInv, Settled, Working, SidecarTrue, InStep, NoFalseAlarm

\* Without failures the sidecar names the order every tensor is in, except while a command
\* rewrites the file, and neither verify --hash nor revert raises a false alarm.
THEOREM SidecarTrueTheorem ==
    ASSUME OnePerModel, MaxFailures = 0
    PROVE  Spec => []SidecarTrue
  BY InitQuiet, NextQuiet, QuietIsTrue, PTL DEF Spec

-----------------------------------------------------------------------------
(* The refinement of Relabelling *)

\* A rewritten tensor, undone, is the tensor before.
LEMMA UndoneIs ==
    ASSUME NEW p \in Procs, NEW k \in Tensors, Proper(proc[p].cur), Proper(proc[p].target),
           file[proc[p].m][k] = Arranged(proc[p].target)[k]
    PROVE  Undone(p, k) = Arranged(proc[p].cur)[k]
  <1> DEFINE l == LayerOf(k)
             old == proc[p].cur.layers[l]
             new == proc[p].target.layers[l]
             delta == DeltaAt(p, k)
  <1>1. l \in Layers /\ IsPermutation(old) /\ IsPermutation(new)
    BY LayersOfTensors DEF Proper
  <1>2. \A x \in Slots : new[x] \in Slots /\ delta[x] = SlotOf(proc[p].cur, l, new[x])
    BY <1>1 DEF DeltaAt, Delta, IsPermutation
  <1>3. \A x \in Slots : delta[x] \in Slots /\ old[delta[x]] = new[x]
    BY <1>1, <1>2, SlotOfIs
  <1>4. file[proc[p].m][k] = new /\ Arranged(proc[p].cur)[k] = old
    BY ArrangedIs
  <1>5. Undone(p, k) = [y \in Slots |-> new[CHOOSE x \in Slots : delta[x] = y]]
    BY <1>4 DEF Undone
  <1> HIDE DEF l, old, new, delta
  <1>6. \A y \in Slots : \E x \in Slots : delta[x] = y
    <2> SUFFICES ASSUME NEW y \in Slots PROVE \E x \in Slots : delta[x] = y
      OBVIOUS
    <2>1. old[y] \in Slots
      BY <1>1 DEF IsPermutation
    <2>2. PICK x \in Slots : new[x] = old[y]
      BY <1>1, <2>1 DEF IsPermutation
    <2>3. delta[x] \in Slots /\ old[delta[x]] = old[y]
      BY <1>3, <2>2
    <2> QED
      BY <1>1, <2>3 DEF IsPermutation
  <1>7. \A y \in Slots : new[CHOOSE x \in Slots : delta[x] = y] = old[y]
    BY <1>3, <1>6
  <1>8. old = [y \in Slots |-> old[y]]
    BY <1>1 DEF IsPermutation
  <1> QED
    BY <1>4, <1>5, <1>7, <1>8

\* The abstract order is the one in the sidecar, or the one being written to it.
LEMMA OrderSeen ==
    ASSUME QInv, NEW m \in Models
    PROVE  /\ sidecar[m] = Absent => OrderBar[m] = Absent
           /\ IsLayout(sidecar[m]) => OrderBar[m] = OrderOf(sidecar[m])
           /\ \A p \in Procs : proc[p].m = m =>
                  /\ At(p, "init_write") => OrderBar[m] = [l \in Layers |-> Identity]
                  /\ At(p, "apply_write") => OrderBar[m] = OrderOf(proc[p].target)
  <1>1. ASSUME NEW p \in Procs, proc[p].m = m, proc[p].pc \in {"init_write", "apply_write"}
        PROVE  /\ sidecar[m] = TornDoc
               /\ p = CHOOSE q \in Procs : proc[q].m = m /\ Running(q)
    BY <1>1 DEF QInv, Working, At, Running, IInv, Exclusive
  <1> QED
    BY <1>1, MarkersAssumption DEF OrderBar, IsLayout, At

\* A document stands for an abstract order, and for the bytes in it.
LEMMA OrderIsOrder ==
    ASSUME NEW doc, Proper(doc)
    PROVE  OrderOf(doc) \in Orders /\ R!InOrder(OrderOf(doc)) = Arranged(doc)
  <1>1. \A l \in Layers : doc.layers[l] \in {f \in [Slots -> Slots] : {f[x] : x \in Slots} = Slots}
    BY DEF Proper, IsPermutation
  <1>2. OrderOf(doc) \in Orders
    BY <1>1 DEF OrderOf, Orders
  <1>3. \A k \in Tensors : OrderOf(doc)[LayerOf(k)] = doc.layers[LayerOf(k)]
    BY LayersOfTensors DEF OrderOf
  <1> QED
    BY <1>2, <1>3, ArrangedIs DEF R!InOrder, Tensors, LayerOf

\* So does the order of the download.
LEMMA ShippedIsOrder ==
    /\ R!Shipped = [l \in Layers |-> Identity]
    /\ R!Shipped \in Orders
    /\ R!InOrder(R!Shipped) = Pristine
  <1>1. R!Shipped = [l \in Layers |-> Identity]
    BY DEF R!Shipped, Layers, Identity, Slots
  <1>2. Identity \in {f \in [Slots -> Slots] : {f[x] : x \in Slots} = Slots}
    BY DEF Identity
  <1> QED
    BY <1>1, <1>2, LayersOfTensors DEF Orders, R!InOrder, Pristine, Tensors, LayerOf

\* The abstract bytes are those of the abstract order, in the middle of a rewrite too.
LEMMA BytesSeen ==
    ASSUME QInv, NEW m \in Models
    PROVE  BytesBar[m] = IF OrderBar[m] = Absent THEN Pristine ELSE R!InOrder(OrderBar[m])
  <1> DEFINE Half(p) == proc[p].m = m /\ At(p, "apply_tensor")
             halver == CHOOSE q \in Procs : Half(q)
  <1>1. BytesBar[m] = [k \in Tensors |->
            IF \E p \in Procs : Half(p) /\ proc[p].cmd # "dry_run" /\ k < proc[p].k
            THEN Undone(halver, k) ELSE file[m][k]]
    BY DEF BytesBar
  <1>2. \A p \in Procs : Half(p) => /\ IsLayout(sidecar[m]) /\ proc[p].cur = sidecar[m]
                                    /\ p = halver
    BY DEF QInv, Working, IInv, Exclusive, Running, At
  <1>0. \A p \in Procs : Half(p) => proc[p].m = m /\ At(p, "apply_tensor") /\ Rewriting(p, m)
    BY DEF Rewriting, At
  <1> HIDE DEF Half, halver
  <1>3. CASE sidecar[m] = Absent
    <2>1. file[m] = Pristine
      BY <1>3 DEF QInv, IInv, Unrecorded
    <2> QED
      BY <1>1, <1>2, <1>3, <2>1, OrderSeen DEF IsLayout, Pristine
  <1>4. CASE sidecar[m] = TornDoc
    <2>1. PICK p \in Procs : proc[p].m = m /\ proc[p].pc \in {"init_write", "apply_write"}
      BY <1>4 DEF QInv, Owned
    <2>2. BytesBar[m] = [k \in Tensors |-> file[m][k]]
      BY <1>1, <1>2, <1>4 DEF IsLayout
    <2>3. CASE At(p, "init_write")
      <3>1. file[m] = Pristine /\ OrderBar[m] = R!Shipped
        BY <2>1, <2>3, OrderSeen, ShippedIsOrder DEF QInv, Working
      <3> QED
        BY <2>2, <3>1, ShippedIsOrder, MarkersAssumption DEF Pristine
    <2>4. CASE At(p, "apply_write")
      <3>1. /\ Proper(proc[p].target) /\ file[m] = Arranged(proc[p].target)
            /\ OrderBar[m] = OrderOf(proc[p].target)
        BY <2>1, <2>4, OrderSeen DEF QInv, Working
      <3> QED
        BY <2>2, <3>1, OrderIsOrder, MarkersAssumption DEF Arranged
    <2> QED
      BY <2>1, <2>3, <2>4 DEF At
  <1>5. CASE IsLayout(sidecar[m])
    <2>1. Proper(sidecar[m]) /\ OrderBar[m] = OrderOf(sidecar[m]) /\ OrderBar[m] # Absent
      BY <1>5, OrderSeen, OrderIsOrder, MarkersAssumption DEF QInv, Settled
    <2>2. SUFFICES BytesBar[m] = Arranged(sidecar[m])
      BY <2>1, OrderIsOrder
    <2>3. CASE \A p \in Procs : ~Half(p)
      <3>1. file[m] = Arranged(sidecar[m])
        BY <1>5, <2>3 DEF QInv, Settled, Rewriting, Working, At, IsLayout, Half
      <3> QED
        BY <1>1, <2>3, <3>1 DEF Arranged
    <2>4. ASSUME NEW p \in Procs, Half(p) PROVE BytesBar[m] = Arranged(sidecar[m])
      <3>1. /\ proc[p].cur = sidecar[m] /\ Proper(proc[p].target)
            /\ p = halver /\ \A q \in Procs : Half(q) => q = p
        BY <1>0, <1>2, <2>4 DEF QInv, Working
      <3>2. CASE proc[p].cmd = "dry_run"
        <4>1. file[m] = Arranged(sidecar[m])
          BY <1>0, <2>4, <3>1, <3>2 DEF QInv, Working
        <4> QED
          BY <1>1, <3>1, <3>2, <4>1 DEF Arranged
      <3>3. CASE proc[p].cmd # "dry_run"
        <4>1. file[m] = Halfway(sidecar[m], proc[p].target, proc[p].k)
          BY <1>0, <2>4, <3>1, <3>3 DEF QInv, Working
        <4>2. \A k \in Tensors : k < proc[p].k => Undone(p, k) = Arranged(sidecar[m])[k]
          BY <1>0, <2>1, <2>4, <3>1, <4>1, UndoneIs DEF Halfway
        <4>3. \A k \in Tensors : ~(k < proc[p].k) => file[m][k] = Arranged(sidecar[m])[k]
          BY <4>1 DEF Halfway
        <4>4. BytesBar[m] = [k \in Tensors |-> IF k < proc[p].k THEN Undone(p, k) ELSE file[m][k]]
          BY <1>1, <2>4, <3>1, <3>3
        <4> QED
          BY <4>2, <4>3, <4>4 DEF Arranged
      <3> QED
        BY <3>2, <3>3
    <2> QED
      BY <2>3, <2>4
  <1> QED
    BY <1>3, <1>4, <1>5 DEF IsLayout

\* The same for all models.
BytesInOrder ==
    \A m \in Models : BytesBar[m] = IF OrderBar[m] = Absent THEN Pristine ELSE R!InOrder(OrderBar[m])

\* BytesInOrder follows from the invariant.
LEMMA InOrderAlways == QInv => BytesInOrder
  BY BytesSeen DEF BytesInOrder

\* What leaves the abstract order alone leaves the abstract bytes alone.
LEMMA SameOrderSameBytes ==
    ASSUME QInv, QInv', OrderBar' = OrderBar
    PROVE  UNCHANGED R!vars
  <1>1. BytesInOrder /\ BytesInOrder'
    BY InOrderAlways, PTL
  <1>2. \A m \in Models : BytesBar'[m] = BytesBar[m]
    BY <1>1 DEF BytesInOrder, R!InOrder, Pristine
  <1>3. BytesBar' = BytesBar
    <2>1. BytesBar = [m \in Models |-> BytesBar[m]]
      BY DEF BytesBar
    <2>2. BytesBar' = [m \in Models |-> BytesBar'[m]]
      BY DEF BytesBar
    <2> QED
      BY <1>2, <2>1, <2>2
  <1> QED
    BY <1>3 DEF R!vars

\* OrderSeen for all models.
OrderKnown ==
    \A m \in Models :
        /\ sidecar[m] = Absent => OrderBar[m] = Absent
        /\ IsLayout(sidecar[m]) => OrderBar[m] = OrderOf(sidecar[m])
        /\ \A p \in Procs : proc[p].m = m =>
               /\ At(p, "init_write") => OrderBar[m] = R!Shipped
               /\ At(p, "apply_write") => OrderBar[m] = OrderOf(proc[p].target)

\* OrderKnown follows from the invariant.
LEMMA OrderKnownAlways == QInv => OrderKnown
  BY OrderSeen, ShippedIsOrder DEF OrderKnown

\* The abstract order of a model changes with its sidecar or with the command writing it.
LEMMA KeepsOrder ==
    ASSUME QInv, QInv', NEW m \in Models, sidecar'[m] = sidecar[m],
           \A p \in Procs : proc[p].m = m /\ proc[p].pc \in {"init_write", "apply_write"} => proc'[p] = proc[p]
    PROVE  OrderBar'[m] = OrderBar[m]
  <1>1. OrderKnown /\ OrderKnown'
    BY OrderKnownAlways, PTL
  <1>2. CASE sidecar[m] = TornDoc
    <2>1. PICK p \in Procs : proc[p].m = m /\ proc[p].pc \in {"init_write", "apply_write"}
      BY <1>2 DEF QInv, Owned
    <2>2. proc'[p] = proc[p]
      BY <2>1
    <2> QED
      BY <1>1, <2>1, <2>2 DEF OrderKnown, At
  <1>3. CASE sidecar[m] # TornDoc
    BY <1>1, <1>3 DEF OrderKnown, IsLayout
  <1> QED
    BY <1>2, <1>3

\* Where the abstract order changes, the bytes change with it.
LEMMA BytesFollow ==
    ASSUME QInv, QInv', NEW m \in Models, NEW o, o # Absent, OrderBar'[m] = o,
           \A n \in Models : n # m => OrderBar'[n] = OrderBar[n]
    PROVE  /\ OrderBar' = [OrderBar EXCEPT ![m] = o]
           /\ BytesBar' = [BytesBar EXCEPT ![m] = R!InOrder(o)]
  <1>1. BytesInOrder /\ BytesInOrder'
    BY InOrderAlways, PTL
  <1>2. \A n \in Models :
            /\ BytesBar[n] = IF OrderBar[n] = Absent THEN Pristine ELSE R!InOrder(OrderBar[n])
            /\ BytesBar'[n] = IF OrderBar'[n] = Absent THEN Pristine ELSE R!InOrder(OrderBar'[n])
    BY <1>1 DEF BytesInOrder, R!InOrder, Pristine
  <1>3. /\ BytesBar = [n \in Models |-> BytesBar[n]] /\ BytesBar' = [n \in Models |-> BytesBar'[n]]
        /\ OrderBar = [n \in Models |-> OrderBar[n]] /\ OrderBar' = [n \in Models |-> OrderBar'[n]]
    BY DEF BytesBar, OrderBar
  <1> HIDE DEF BytesBar, OrderBar
  <1> QED
    BY <1>2, <1>3

\* What changes no abstract order is a stutter.
LEMMA OrderStays ==
    ASSUME QInv, QInv', \A m \in Models : OrderBar'[m] = OrderBar[m]
    PROVE  [R!Next]_(R!vars)
  <1>1. OrderBar = [m \in Models |-> OrderBar[m]] /\ OrderBar' = [m \in Models |-> OrderBar'[m]]
    BY DEF OrderBar
  <1>2. OrderBar' = OrderBar
    BY <1>1
  <1> QED
    BY <1>2, SameOrderSameBytes

\* The initial states are initial states of Relabelling.
LEMMA InitRefines == Init => R!Init
  <1> SUFFICES ASSUME Init PROVE R!Init
    OBVIOUS
  <1>1. QInv /\ \A m \in Models : sidecar[m] = Absent
    BY InitQuiet DEF Init
  <1>2. \A m \in Models : OrderBar[m] = Absent /\ BytesBar[m] = R!InOrder(R!Shipped)
    BY <1>1, OrderSeen, BytesSeen, ShippedIsOrder
  <1>3. BytesBar = [m \in Models |-> BytesBar[m]] /\ OrderBar = [m \in Models |-> OrderBar[m]]
    BY DEF BytesBar, OrderBar
  <1> QED
    BY <1>2, <1>3 DEF R!Init

\* Only a command under way takes steps.
LEMMA OnlyRunning ==
    ASSUME NEW p \in Procs, Step(p)
    PROVE  Running(p)
  BY DEF Running, At, Step, InitCommand, InitCheck, InitRefuse, InitHash, InitTruncate, InitWrite,
         ApplyCommand, ApplyLoad, ApplyTarget, ApplyTensor, DryRunEnd, ApplyTruncate, ApplyWrite,
         RevertCommand, RevertLoad, RevertTruncate, RevertWrite, RevertRemove, RevertHash,
         VerifyCommand, VerifyLoad, VerifyHash

\* Four steps change a sidecar.
LEMMA OnlyWrites ==
    ASSUME NEW p \in Procs, Step(p), ~InitTruncate(p), ~ApplyTruncate(p), ~InitWrite(p), ~ApplyWrite(p)
    PROVE  sidecar' = sidecar /\ proc[p].pc \notin {"init_write", "apply_write"}
  BY DEF At, Bail, Step, InitCommand, InitCheck, InitRefuse, InitHash,
         ApplyCommand, ApplyLoad, ApplyTarget, ApplyTensor, DryRunEnd,
         RevertCommand, RevertLoad, RevertTruncate, RevertWrite, RevertRemove, RevertHash,
         VerifyCommand, VerifyLoad, VerifyHash

\* Emptying the old sidecar is the step of Relabelling, every other step is a stutter.
LEMMA StepRefines ==
    ASSUME OnePerModel, QInv, QInv', NEW p \in Procs, Step(p)
    PROVE  [R!Next]_(R!vars)
  <1> DEFINE m == proc[p].m
  <1>0. OrderKnown /\ OrderKnown'
    BY OrderKnownAlways, PTL
  <1>1. /\ DOMAIN sidecar = Models /\ \A q \in Procs : q # p => proc'[q] = proc[q]
        /\ m \in Models
        /\ \A q \in Procs : q # p /\ proc[q].pc \in {"init_write", "apply_write"} => proc[q].m # m
    <2>1. Running(p) /\ DOMAIN proc = Procs
      BY OnlyRunning DEF QInv, IInv, Shaped
    <2> QED
      BY <2>1, OthersKept DEF QInv, IInv, Shaped, Exclusive, Running
  <1>2. ASSUME \A n \in Models : n # m => sidecar'[n] = sidecar[n], NEW n \in Models, n # m
        PROVE  OrderBar'[n] = OrderBar[n]
    BY <1>1, <1>2, KeepsOrder
  <1>3. CASE InitTruncate(p)
    <2>1. /\ sidecar' = [sidecar EXCEPT ![m] = TornDoc] /\ sidecar[m] = Absent
          /\ proc'[p].m = m /\ proc'[p].pc = "init_write"
      BY <1>3 DEF InitTruncate, Goto, QInv, Working, IInv, Shaped, Fields, At
    <2>2. OrderBar[m] = Absent /\ OrderBar'[m] = R!Shipped
      BY <1>0, <1>1, <2>1 DEF OrderKnown, At
    <2>3. R!Shipped # Absent
      BY ShippedIsOrder, MarkersAssumption
    <2>4. \A n \in Models : n # m => OrderBar'[n] = OrderBar[n]
      BY <1>1, <1>2, <2>1
    <2>5. /\ OrderBar' = [OrderBar EXCEPT ![m] = R!Shipped]
          /\ BytesBar' = [BytesBar EXCEPT ![m] = R!InOrder(R!Shipped)]
      BY <1>1, <2>2, <2>3, <2>4, BytesFollow
    <2>6. BytesBar[m] = R!InOrder(R!Shipped)
      BY <1>1, <2>2, BytesSeen, ShippedIsOrder
    <2>7. BytesBar' = BytesBar
      BY <2>5, <2>6 DEF BytesBar
    <2> QED
      BY <1>1, <2>2, <2>5, <2>7 DEF R!Next, R!Record
  <1>4. CASE ApplyTruncate(p)
    <2> DEFINE o == OrderOf(proc[p].target)
    <2>1. /\ sidecar' = [sidecar EXCEPT ![m] = TornDoc] /\ IsLayout(sidecar[m])
          /\ proc'[p].m = m /\ proc'[p].pc = "apply_write" /\ proc'[p].target = proc[p].target
          /\ Proper(proc[p].target) /\ Proper(sidecar[m])
      BY <1>1, <1>4 DEF ApplyTruncate, Goto, QInv, Working, Settled, IInv, Shaped, Fields, At
    <2>2. OrderBar[m] = OrderOf(sidecar[m]) /\ OrderBar'[m] = o
      BY <1>0, <1>1, <2>1 DEF OrderKnown, At
    <2>3. o \in Orders /\ o # Absent /\ OrderBar[m] # Absent
      BY <2>1, <2>2, OrderIsOrder, MarkersAssumption
    <2>4. \A n \in Models : n # m => OrderBar'[n] = OrderBar[n]
      BY <1>1, <1>2, <2>1
    <2> HIDE DEF o
    <2>5. /\ OrderBar' = [OrderBar EXCEPT ![m] = o]
          /\ BytesBar' = [BytesBar EXCEPT ![m] = R!InOrder(o)]
      BY <1>1, <2>2, <2>3, <2>4, BytesFollow
    <2> QED
      BY <1>1, <2>3, <2>5 DEF R!Next, R!Relabel
  <1>5. CASE InitWrite(p)
    <2>1. sidecar' = [sidecar EXCEPT ![m] = IdentityLayout(proc[p].sha)] /\ At(p, "init_write")
      BY <1>5 DEF InitWrite
    <2>2. IsLayout(IdentityLayout(proc[p].sha))
      BY <1>1, <2>1, MarkersAssumption DEF QInv, IInv, Trusted, At, Documents, IdentityLayout, Layout, IsLayout
    <2>3. OrderOf(IdentityLayout(proc[p].sha)) = R!Shipped
      BY ShippedIsOrder DEF OrderOf, IdentityLayout, Layout
    <2>4. OrderBar'[m] = OrderBar[m]
      BY <1>0, <1>1, <2>1, <2>2, <2>3 DEF OrderKnown, IsLayout
    <2> QED
      BY <1>2, <2>1, <2>4, OrderStays
  <1>6. CASE ApplyWrite(p)
    <2>1. sidecar' = [sidecar EXCEPT ![m] = Applied(p)] /\ At(p, "apply_write")
      BY <1>6 DEF ApplyWrite
    <2>2. proc[p].target \in Documents /\ proc[p].cur.sha = Baseline(m)
      BY <2>1 DEF QInv, IInv, Trusted, At
    <2>3. IsLayout(Applied(p)) /\ OrderOf(Applied(p)) = OrderOf(proc[p].target)
      BY <1>1, <2>2, DocumentsAreLayouts, MarkersAssumption DEF Applied, IsLayout, OrderOf
    <2>4. OrderBar'[m] = OrderBar[m]
      BY <1>0, <1>1, <2>1, <2>3 DEF OrderKnown, IsLayout
    <2> QED
      BY <1>2, <2>1, <2>4, OrderStays
  <1>7. ASSUME ~InitTruncate(p), ~ApplyTruncate(p), ~InitWrite(p), ~ApplyWrite(p)
        PROVE  [R!Next]_(R!vars)
    <2>1. sidecar' = sidecar /\ proc[p].pc \notin {"init_write", "apply_write"}
      BY <1>7, OnlyWrites
    <2> QED
      BY <1>1, <2>1, KeepsOrder, OrderStays
  <1> QED
    BY <1>3, <1>4, <1>5, <1>6, <1>7

\* Every step is a step of Relabelling or a stutter.
LEMMA NextRefines == OnePerModel /\ MaxFailures = 0 /\ QInv /\ QInv' /\ [Next]_vars => [R!Next]_(R!vars)
  <1> SUFFICES ASSUME OnePerModel, MaxFailures = 0, QInv, QInv', [Next]_vars PROVE [R!Next]_(R!vars)
    OBVIOUS
  <1>1. CASE UNCHANGED vars
    BY <1>1, KeepsOrder, OrderStays DEF vars
  <1>2. ASSUME NEW p \in Procs, Fail(p) PROVE FALSE
    BY <1>2 DEF Fail, QInv
  <1>3. ASSUME NEW p \in Procs, NEW m, NEW cmd, NEW doc, Start(p, cmd, m, doc)
        PROVE  [R!Next]_(R!vars)
    <2>1. ~Running(p) /\ sidecar' = sidecar /\ \A q \in Procs : q # p => proc'[q] = proc[q]
      BY <1>3 DEF Start, QInv, IInv, Shaped
    <2> QED
      BY <2>1, KeepsOrder, OrderStays DEF Running
  <1> QED
    BY <1>1, <1>2, <1>3, StepRefines DEF Next

\* Without failures and with one command at a time on each model, ggufperm changes the order of
\* all tensors of a model at once or not at all.
THEOREM RelabellingTheorem ==
    ASSUME OnePerModel, MaxFailures = 0
    PROVE  Spec => ImplementsRelabelling
  BY InitRefines, InitQuiet, NextQuiet, NextRefines, PTL DEF Spec, ImplementsRelabelling, R!Spec
=============================================================================
