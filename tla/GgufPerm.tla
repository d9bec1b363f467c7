------------------------------ MODULE GgufPerm ------------------------------
(***************************************************************************)
(* The ggufperm command (crates/ggufperm/src/main.rs): init, apply (with   *)
(* --dry-run), revert and verify --hash on GGUF model files, each with a   *)
(* JSON sidecar that records the layout applied to the file and the SHA-256*)
(* the file had when it was downloaded.  A command is a process; its file  *)
(* operations are steps, so that commands can be interleaved and can die   *)
(* between two of them.                                                    *)
(*                                                                         *)
(* A model file is the sequence of its expert tensors, layer by layer:     *)
(* tensor k belongs to layer k \div NT.  A tensor maps a slot to the block *)
(* it holds, named by the expert the block is for.  SHA-256 is taken to be *)
(* injective: the hash of a file is its content.  The rewrite of a tensor  *)
(* is one step, refined by PermuteTensor; a process that dies inside it    *)
(* leaves one of the images of CycleOrder!CrashImages.                     *)
(***************************************************************************)
EXTENDS Integers, FiniteSets

CONSTANTS
    Procs,          \* processes that may run a command
    Models,         \* model files
    N,              \* experts per layer, MoeModel::n_expert
    NL,             \* MoE layers of every model
    NT,             \* tensors with an expert axis in a layer
    Targets,        \* layout documents a user may pass to apply
    MaxFailures,    \* bound: failed or killed operations in a behaviour
    OnePerModel,    \* TRUE: at most one command at a time on a model file
    Torn, TornDoc, Absent, NoSha

C == INSTANCE CycleOrder

Slots == 0 .. N - 1
Layers == 0 .. NL - 1
Tensors == 0 .. NL * NT - 1
LayerOf(k) == k \div NT

Identity == [x \in Slots |-> x]
Pristine == [k \in Tensors |-> Identity]

ASSUME SizeAssumption == N \in Nat \ {0} /\ NL \in Nat \ {0} /\ NT \in Nat \ {0}
\* A command names a model.
ASSUME ModelsAssumption == Models # {}
ASSUME MaxFailuresAssumption == MaxFailures \in Nat

VARIABLES
    file,       \* file[m]: the tensors of model m on disk
    sidecar,    \* sidecar[m]: Absent, TornDoc or a layout
    tmp,        \* temp_dir()/ggufperm-identity.json, one for all processes
    proc,       \* proc[p]: the state of process p
    failures    \* failures so far

vars == <<file, sidecar, tmp, proc, failures>>

-----------------------------------------------------------------------------
(* Layout documents *)

Layout(sha, n, layers) == [sha |-> sha, n |-> n, layers |-> layers]
IdentityLayout(sha) == Layout(sha, N, [l \in Layers |-> Identity])

IsLayout(doc) == doc \notin {Absent, TornDoc}
IsIdentity(doc) ==
    \A l \in DOMAIN doc.layers : \A x \in DOMAIN doc.layers[l] : doc.layers[l][x] = x

\* Permutation::slot_of: where layout `doc` keeps expert e of layer l.
SlotOf(doc, l, e) == CHOOSE x \in Slots : doc.layers[l][x] = e

\* Mutant: the permutation the other way round.
DeltaInverted(cur, target, l) ==
    [x \in Slots |-> SlotOf(target, l, cur.layers[l][x])]

\* The permutation apply feeds to permute_tensor: slot x must end up holding
\* target[x], which sits where the current layout keeps it.
Delta(cur, target, l) ==
    [x \in Slots |-> SlotOf(cur, l, target.layers[l][x])]

Sha(m) == <<m, file[m]>>

\* The checks apply makes before it opens the model for writing.
Acceptable(cur, target) ==
    /\ target.n = N
    /\ (target.sha # NoSha /\ cur.sha # NoSha) => target.sha = cur.sha
    /\ Layers \subseteq DOMAIN target.layers

\* The hash a file had when it was downloaded, and the documents apply may be given: the
\* user's, or what a revert writes.
Baseline(m) == <<m, Pristine>>
Documents == Targets \cup {IdentityLayout(Baseline(m)) : m \in Models}

\* Layout::validate: a document holds permutations.
Orders == [Layers -> {f \in [Slots -> Slots] : {f[x] : x \in Slots} = Slots}]
IsPermutation(f) ==
    /\ f \in [Slots -> Slots]
    /\ \A e \in Slots : \E x \in Slots : f[x] = e
    /\ \A x, y \in Slots : f[x] = f[y] => x = y

\* A document is no marker, nor is the order in it.
ASSUME MarkersAssumption ==
    /\ TornDoc # Absent /\ NoSha \notin {Baseline(m) : m \in Models} /\ Absent \notin Orders
    /\ \A doc \in Documents, m \in Models : [doc EXCEPT !.sha = Baseline(m)] \notin {Absent, TornDoc}
\* What a user passes to apply has been validated, and was made for the layers of a model.
ASSUME TargetsAssumption ==
    \A doc \in Targets :
        /\ doc = Layout(doc.sha, doc.n, doc.layers)
        /\ doc.n = N => /\ DOMAIN doc.layers \subseteq Layers
                        /\ \A l \in DOMAIN doc.layers : IsPermutation(doc.layers[l])

-----------------------------------------------------------------------------
(* Processes *)

Idle(cmd, m, result) ==
    [pc |-> "idle", cmd |-> cmd, m |-> m, cur |-> Absent, target |-> Absent,
     k |-> 0, sha |-> NoSha, result |-> result]

Running(p) == proc[p].pc # "idle"
At(p, pc) == proc[p].pc = pc

Goto(p, pc) == proc' = [proc EXCEPT ![p].pc = pc]
Exit(p, result) == proc' = [proc EXCEPT ![p] = Idle(@.cmd, @.m, result)]

Init ==
    /\ file = [m \in Models |-> Pristine]
    /\ sidecar = [m \in Models |-> Absent]
    /\ tmp = Absent
    /\ proc \in [Procs -> {Idle("none", CHOOSE m \in Models : TRUE, "none")}]
    /\ failures = 0

\* The user runs a command.  The layout is read by apply after the sidecar, so
\* it is chosen here and checked in ApplyTarget.
FirstPc(cmd) == CASE cmd = "init" -> "init_check"
                  [] cmd = "apply" -> "apply_load"
                  [] cmd = "dry_run" -> "apply_load"
                  [] cmd = "revert" -> "revert_load"
                  [] cmd = "verify" -> "verify_load"

Start(p, cmd, m, doc) ==
    /\ ~Running(p)
    /\ OnePerModel => \A q \in Procs : Running(q) => proc[q].m # m
    /\ doc # Absent <=> cmd \in {"apply", "dry_run"}
    /\ proc' = [proc EXCEPT ![p] =
                   [Idle(cmd, m, "none") EXCEPT !.pc = FirstPc(cmd), !.target = doc]]
    /\ UNCHANGED <<file, sidecar, tmp, failures>>

\* `bail!`: the command ends with an error before it touched anything.
Bail(p) == Exit(p, "error") /\ UNCHANGED <<file, sidecar, tmp, failures>>

\* fn current: a missing sidecar, one that does not parse, or one for another
\* number of experts is an error.
Current(p, doc) == doc = sidecar[proc[p].m] /\ IsLayout(doc) /\ doc.n = N
NoCurrent(p) == ~\E doc \in {sidecar[proc[p].m]} : Current(p, doc)

-----------------------------------------------------------------------------
(* init *)

\* Mutant: an existing sidecar is overwritten.
InitCheckOverwrite(p) ==
    /\ At(p, "init_check")
    /\ Goto(p, "init_hash")
    /\ UNCHANGED <<file, sidecar, tmp, failures>>

InitCheck(p) ==
    /\ At(p, "init_check")
    /\ sidecar[proc[p].m] = Absent      \* exists(), whatever it holds
    /\ Goto(p, "init_hash")
    /\ UNCHANGED <<file, sidecar, tmp, failures>>

InitRefuse(p) ==
    /\ At(p, "init_check")
    /\ sidecar[proc[p].m] # Absent
    /\ Bail(p)

InitHash(p) ==
    /\ At(p, "init_hash")
    /\ proc' = [proc EXCEPT ![p].sha = Sha(proc[p].m), ![p].pc = "init_save"]
    /\ UNCHANGED <<file, sidecar, tmp, failures>>

\* Layout::save is std::fs::write: the file is truncated, then written.
InitTruncate(p) ==
    /\ At(p, "init_save")
    /\ sidecar' = [sidecar EXCEPT ![proc[p].m] = TornDoc]
    /\ Goto(p, "init_write")
    /\ UNCHANGED <<file, tmp, failures>>

InitWrite(p) ==
    /\ At(p, "init_write")
    /\ sidecar' = [sidecar EXCEPT ![proc[p].m] = IdentityLayout(proc[p].sha)]
    /\ Exit(p, "ok")
    /\ UNCHANGED <<file, tmp, failures>>

InitCommand(p) ==
    InitCheck(p) \/ InitRefuse(p) \/ InitHash(p) \/ InitTruncate(p) \/ InitWrite(p)

-----------------------------------------------------------------------------
(* apply, also the body of revert *)

ApplyLoad(p) ==
    /\ At(p, "apply_load")
    /\ \/ \E doc \in {sidecar[proc[p].m]} :
             /\ Current(p, doc)
             /\ proc' = [proc EXCEPT ![p].cur = doc, ![p].pc = "apply_target"]
             /\ UNCHANGED <<file, sidecar, tmp, failures>>
       \/ NoCurrent(p) /\ Bail(p)

\* Mutant: the first tensor of the model is left out.
ApplyTargetOffByOne(p) ==
    /\ At(p, "apply_target")
    /\ LET doc == IF proc[p].cmd = "revert" THEN tmp ELSE proc[p].target
       IN  \/ /\ IsLayout(doc) /\ Acceptable(proc[p].cur, doc)
              /\ proc' = [proc EXCEPT ![p].target = doc, ![p].k = 1,
                                      ![p].pc = "apply_tensor"]
              /\ UNCHANGED <<file, sidecar, tmp, failures>>
           \/ ~(IsLayout(doc) /\ Acceptable(proc[p].cur, doc)) /\ Bail(p)

\* Layout::load of the argument: the user's document, or for revert whatever the
\* shared temporary file holds by now.
ApplyTarget(p) ==
    /\ At(p, "apply_target")
    /\ LET doc == IF proc[p].cmd = "revert" THEN tmp ELSE proc[p].target
       IN  \/ /\ IsLayout(doc) /\ Acceptable(proc[p].cur, doc)
              /\ proc' = [proc EXCEPT ![p].target = doc, ![p].k = 0,
                                      ![p].pc = "apply_tensor"]
              /\ UNCHANGED <<file, sidecar, tmp, failures>>
           \/ ~(IsLayout(doc) /\ Acceptable(proc[p].cur, doc)) /\ Bail(p)

DeltaAt(p, k) == Delta(proc[p].cur, proc[p].target, LayerOf(k))

\* permute_tensor of the next tensor; the identity changes nothing and is
\* skipped, and a dry run only counts.
ApplyTensor(p) ==
    /\ At(p, "apply_tensor")
    /\ LET k == proc[p].k  m == proc[p].m
       IN  /\ k \in Tensors
           /\ IF proc[p].cmd = "dry_run"
              THEN UNCHANGED file
              ELSE file' = [file EXCEPT ![m][k] = C!Permute(DeltaAt(p, k), @)]
           /\ proc' = [proc EXCEPT ![p].k = k + 1]
    /\ UNCHANGED <<sidecar, tmp, failures>>

DryRunEnd(p) ==
    /\ At(p, "apply_tensor") /\ proc[p].k \notin Tensors
    /\ proc[p].cmd = "dry_run"
    /\ Exit(p, "ok")
    /\ UNCHANGED <<file, sidecar, tmp, failures>>

\* sync_all, then the sidecar is opened for writing, which empties it.
ApplyTruncate(p) ==
    /\ At(p, "apply_tensor") /\ proc[p].k \notin Tensors
    /\ proc[p].cmd # "dry_run"
    /\ sidecar' = [sidecar EXCEPT ![proc[p].m] = TornDoc]
    /\ Goto(p, "apply_write")
    /\ UNCHANGED <<file, tmp, failures>>

\* Mutant: the hash of the applied document replaces the baseline.
AppliedVerbatim(p) == proc[p].target

\* The applied layout keeps the original hash of the sidecar it replaces.
Applied(p) == [proc[p].target EXCEPT !.sha = proc[p].cur.sha]

ApplyWrite(p) ==
    /\ At(p, "apply_write")
    /\ sidecar' = [sidecar EXCEPT ![proc[p].m] = Applied(p)]
    /\ IF proc[p].cmd = "revert" THEN Goto(p, "revert_remove") ELSE Exit(p, "ok")
    /\ UNCHANGED <<file, tmp, failures>>

ApplyCommand(p) ==
    \/ ApplyLoad(p) \/ ApplyTarget(p) \/ ApplyTensor(p)
    \/ DryRunEnd(p) \/ ApplyTruncate(p) \/ ApplyWrite(p)

-----------------------------------------------------------------------------
(* revert and verify *)

RevertLoad(p) ==
    /\ At(p, "revert_load")
    /\ \/ \E doc \in {sidecar[proc[p].m]} :
             /\ Current(p, doc) /\ doc.sha # NoSha
             /\ proc' = [proc EXCEPT ![p].sha = doc.sha, ![p].pc = "revert_save"]
             /\ UNCHANGED <<file, sidecar, tmp, failures>>
       \/ /\ ~\E doc \in {sidecar[proc[p].m]} : Current(p, doc) /\ doc.sha # NoSha
          /\ Bail(p)

RevertTruncate(p) ==
    /\ At(p, "revert_save")
    /\ tmp' = TornDoc
    /\ Goto(p, "revert_write")
    /\ UNCHANGED <<file, sidecar, failures>>

RevertWrite(p) ==
    /\ At(p, "revert_write")
    /\ tmp' = IdentityLayout(proc[p].sha)
    /\ Goto(p, "apply_load")
    /\ UNCHANGED <<file, sidecar, failures>>

\* remove_file(..).ok(): an error is ignored.
RevertRemove(p) ==
    /\ At(p, "revert_remove")
    /\ tmp' = Absent
    /\ Goto(p, "revert_hash")
    /\ UNCHANGED <<file, sidecar, failures>>

\* Mutant: success without comparing the hash.
RevertHashUnchecked(p) ==
    /\ At(p, "revert_hash")
    /\ Exit(p, "ok")
    /\ UNCHANGED <<file, sidecar, tmp, failures>>

RevertHash(p) ==
    /\ At(p, "revert_hash")
    /\ Exit(p, IF Sha(proc[p].m) = proc[p].sha THEN "ok" ELSE "mismatch")
    /\ UNCHANGED <<file, sidecar, tmp, failures>>

RevertCommand(p) ==
    \/ RevertLoad(p) \/ RevertTruncate(p) \/ RevertWrite(p)
    \/ RevertRemove(p) \/ RevertHash(p)

VerifyLoad(p) ==
    /\ At(p, "verify_load")
    /\ \/ \E doc \in {sidecar[proc[p].m]} :
             /\ Current(p, doc)
             /\ proc' = [proc EXCEPT ![p].cur = doc, ![p].pc = "verify_hash"]
             /\ UNCHANGED <<file, sidecar, tmp, failures>>
       \/ NoCurrent(p) /\ Bail(p)

\* verify --hash: shipped order if and only if original bytes.
VerifyHash(p) ==
    /\ At(p, "verify_hash")
    /\ LET matches == Sha(proc[p].m) = proc[p].cur.sha
       IN  Exit(p, IF IsIdentity(proc[p].cur) = matches THEN "ok" ELSE "mismatch")
    /\ UNCHANGED <<file, sidecar, tmp, failures>>

VerifyCommand(p) == VerifyLoad(p) \/ VerifyHash(p)

-----------------------------------------------------------------------------
\* An operation fails or the process is killed.  Files keep what was written:
\* a truncated document stays torn, a tensor stays as far as it was rewritten.
Fail(p) ==
    /\ Running(p)
    /\ failures < MaxFailures
    /\ failures' = failures + 1
    /\ LET k == proc[p].k  m == proc[p].m
       IN  IF At(p, "apply_tensor") /\ k \in Tensors /\ proc[p].cmd # "dry_run"
           THEN \E img \in C!CrashImages(DeltaAt(p, k), file[m][k], Torn) :
                    file' = [file EXCEPT ![m][k] = img]
           ELSE UNCHANGED file
    /\ Exit(p, "error")
    /\ UNCHANGED <<sidecar, tmp>>

Step(p) == InitCommand(p) \/ ApplyCommand(p) \/ RevertCommand(p) \/ VerifyCommand(p)

Next ==
    \E p \in Procs :
        \/ \E m \in Models :
              \/ \E cmd \in {"init", "revert", "verify"} : Start(p, cmd, m, Absent)
              \/ \E cmd \in {"apply", "dry_run"}, doc \in Targets : Start(p, cmd, m, doc)
        \/ Step(p)
        \/ Fail(p)

\* A started command keeps running; nothing obliges the user to start one.
Spec == Init /\ [][Next]_vars /\ \A p \in Procs : WF_vars(Step(p))

-----------------------------------------------------------------------------
(* Properties *)

Contents == Slots \cup {Torn}

TypeOK ==
    /\ file \in [Models -> [Tensors -> [Slots -> Contents]]]
    /\ \A m \in Models : IsLayout(sidecar[m]) =>
           /\ sidecar[m].n = N
           /\ \A l \in Layers : {sidecar[m].layers[l][x] : x \in Slots} = Slots
    /\ \A p \in Procs :
           /\ proc[p].m \in Models /\ proc[p].k \in 0 .. NL * NT
           /\ proc[p].result \in {"none", "ok", "error", "mismatch"}
    /\ failures \in 0 .. MaxFailures

\* The file a layout document describes.
Arranged(doc) == [k \in Tensors |-> C!Permute(doc.layers[LayerOf(k)], Pristine[k])]

\* Process p is between its first write of model m and its new sidecar.
Rewriting(p, m) ==
    proc[p].m = m /\ proc[p].pc \in {"apply_tensor", "apply_write"}

\* "The sidecar and the file are never out of step": except while a command is
\* rewriting the file, every tensor of it is in the order the sidecar names, so
\* that the router and the experts it selects agree in every layer.
InStep ==
    \A m \in Models :
        IsLayout(sidecar[m]) /\ (\A p \in Procs : ~Rewriting(p, m)) =>
            file[m] = Arranged(sidecar[m])

\* The known-good baseline: whatever commands ran, failed or were refused, a
\* sidecar that can be read holds the hash of the file as downloaded.
BaselineKept ==
    \A m \in Models : IsLayout(sidecar[m]) => sidecar[m].sha = Baseline(m)

\* revert reports success only when the file is the original byte for byte,
\* also after crashes that left it in no order at all.
RevertHonest ==
    [][\A p \in Procs :
          (At(p, "revert_hash") /\ proc'[p].result = "ok") =>
              file'[proc[p].m] = Pristine]_vars

\* verify --hash raises no false alarm: without failures it never reports that
\* the file and the sidecar disagree, and neither does revert.
NoFalseAlarm == \A p \in Procs : proc[p].result # "mismatch"

\* Without failures the sidecar is true of the file whenever no command is rewriting it, and
\* no command says otherwise.
SidecarTrue == InStep /\ NoFalseAlarm

\* The blocks of the original file that are no longer anywhere in their tensor.
Lost == {b \in Models \X Tensors \X Slots : \A x \in Slots : file[b[1]][b[2]][x] # b[3]}

\* However commands are rerun over a file that a crash left half rewritten, each
\* failure costs at most one expert block: running apply again never loses more,
\* and every sidecar that can be read is a layout.
LossBounded == TypeOK /\ Cardinality(Lost) <= failures

\* Nothing but a failure, or another revert that uses the same temporary file, can
\* stop a revert once there is a baseline: it ends with the original bytes and
\* says so.
RevertSucceeds ==
    \A p \in Procs :
        (At(p, "revert_load") /\ IsLayout(sidecar[proc[p].m]))
            ~> \/ (proc[p].cmd = "revert" /\ proc[p].result = "ok"
                  /\ file[proc[p].m] = Pristine)
               \/ failures > 0

\* Refinement: a command takes effect when it empties the old sidecar.  Until
\* then the tensors it has rewritten count as they were before.
Undone(p, k) ==
    LET t == file[proc[p].m][k]
        delta == DeltaAt(p, k)
    IN  [y \in Slots |-> t[CHOOSE x \in Slots : delta[x] = y]]

BytesBar ==
    [m \in Models |->
        [k \in Tensors |->
            IF \E p \in Procs : proc[p].m = m /\ At(p, "apply_tensor")
                                /\ proc[p].cmd # "dry_run" /\ k < proc[p].k
            THEN Undone(CHOOSE p \in Procs : proc[p].m = m /\ At(p, "apply_tensor"), k)
            ELSE file[m][k]]]

OrderOf(doc) == [l \in Layers |-> doc.layers[l]]

OrderBar ==
    [m \in Models |->
        CASE IsLayout(sidecar[m]) -> OrderOf(sidecar[m])
          [] sidecar[m] = Absent -> Absent
          [] OTHER ->
               LET p == CHOOSE q \in Procs : proc[q].m = m /\ Running(q)
               IN  IF At(p, "init_write") THEN [l \in Layers |-> Identity]
                   ELSE OrderOf(proc[p].target)]

R == INSTANCE Relabelling
        WITH bytes <- BytesBar, order <- OrderBar, Unrecorded <- Absent

\* Without failures, and with one command at a time on each model, ggufperm
\* changes the order of all tensors at once or not at all.
ImplementsRelabelling == R!Spec

=============================================================================
