--------------------------- MODULE ModelPreparation ---------------------------
(***************************************************************************)
(* How the native agent prepares the sealed MLX runtime and its models     *)
(* (internal/native/devruntime) and when it starts them: downloads into a  *)
(* wheelhouse and model directories, a Python environment built aside and  *)
(* renamed into place, receipts written last, a fast check that decides    *)
(* whether to prepare at all and a full check before every start.  The     *)
(* agent prepares for one assignment at a time.  Its process may be killed *)
(* between any two steps and inside a directory removal; the binary may be *)
(* replaced by another release; something else on the Mac may damage a     *)
(* file or move the Python the environment was made from.                  *)
(*                                                                         *)
(* A locked file's content is the release that pins it, Bad (right shape,  *)
(* wrong bytes), Torn (wrong shape) or Absent.                             *)
(***************************************************************************)
EXTENDS Naturals, Sequences, SequencesExt

CONSTANTS
    Releases,       \* releases of the binary, numbered from 1
    Wheels,         \* wheels of the runtime lock
    Files,          \* files of a model manifest
    Commits,        \* Hugging Face commits an assignment may name
    Matching,       \* those whose files hash to the pinned manifest
    MaxSources,     \* maxHFSources
    MaxFaults,      \* bound on crashes, failed downloads and outside events
    None

VARIABLES
    disk,   \* what is under the agent's root
    op,     \* the assignment being prepared or started
    env     \* the installed release and what happened outside

vars == <<disk, op, env>>

Absent == 0
Bad == 100
Torn == 101
Content == Releases \cup {Absent, Bad, Torn}

(* A Python environment: its lock marker, the inventory its dist-info      *)
(* directories give, the installed files, and whether bin/python resolves. *)
NoTree == [marker |-> Absent, packages |-> Absent, files |-> Absent, python |-> FALSE]
Trees == [marker : Content, packages : Content, files : Content, python : BOOLEAN]

Kinds == {"locked", "train", "mlx"}
NoOp == [kind |-> None, commit |-> None, at |-> "idle", todo |-> {}, prepared |-> FALSE]

TypeOK ==
    /\ disk \in [wheels : [Wheels -> Content], venv : Trees, tmp : Trees,
                 runtimeReceipt : Content, model : [Files -> Content],
                 runner : Content, receipt : Content,
                 hf : [Files -> Content], unlisted : BOOLEAN,
                 sources : UNION {[1..n -> Commits] : n \in 0..MaxSources}]
    /\ op \in [kind : Kinds \cup {None}, commit : Commits \cup {None},
               at : {"idle", "wheels", "checkVenv", "buildVenv", "removeVenv",
                     "activateVenv", "runtimeReceipt", "model", "runner", "receipt",
                     "resolve", "clear", "hf", "clearAgain", "merge", "start", "running"},
               todo : SUBSET (Wheels \cup Files), prepared : BOOLEAN]
    /\ env \in [release : Releases, faults : 0..MaxFaults, damaged : BOOLEAN,
                rolledBack : BOOLEAN, disturbed : BOOLEAN]

Init ==
    /\ disk = [wheels |-> [w \in Wheels |-> Absent], venv |-> NoTree, tmp |-> NoTree,
               runtimeReceipt |-> Absent, model |-> [f \in Files |-> Absent],
               runner |-> Absent, receipt |-> Absent,
               hf |-> [f \in Files |-> Absent], unlisted |-> FALSE, sources |-> <<>>]
    /\ op = NoOp
    /\ env = [release |-> 1, faults |-> 0, damaged |-> FALSE,
              rolledBack |-> FALSE, disturbed |-> FALSE]

-----------------------------------------------------------------------------
(* What the checks accept                                                  *)

RuntimeLock == env.release
ModelLock == env.release
lockedModelDescriptor == env.release
RunnerSource == env.release

(* The hub's files of the pinned manifest do not change with the release.  *)
Pinned == 1

validateLockedRegularInfo(content) == content \notin {Absent, Torn}

verifyRegularFile(content) == validateLockedRegularInfo(content)

openLockedRegular(content) == validateLockedRegularInfo(content)

verifyFile(content, expected) == openLockedRegular(content) /\ content = expected

verifyDigestOnly(content, expected) == openLockedRegular(content) /\ content = expected

verifyInstalledPackages(tree) == tree.packages = RuntimeLock

verifyWheelInstallation(tree) == tree.files = RuntimeLock

verifyInstalledRuntime(tree) ==
    /\ \A w \in Wheels : verifyDigestOnly(disk.wheels[w], RuntimeLock)
    /\ verifyWheelInstallation(tree)

verifyRuntime(strong) ==
    /\ disk.runtimeReceipt = RuntimeLock
    /\ disk.venv.marker = RuntimeLock
    /\ verifyInstalledPackages(disk.venv)
    /\ strong => verifyInstalledRuntime(disk.venv)
    /\ disk.venv.python

receiptMatchesBinary(receipt) == receipt = lockedModelDescriptor

verify(strong) ==
    /\ verifyRuntime(strong)
    /\ receiptMatchesBinary(disk.receipt)
    /\ verifyFile(disk.runner, RunnerSource)
    /\ \A f \in Files :
          IF strong THEN verifyFile(disk.model[f], ModelLock)
                    ELSE verifyRegularFile(disk.model[f])

readHFReceipt == Len(disk.sources) \in 1..MaxSources

Serves(commit) == \E i \in DOMAIN disk.sources : disk.sources[i] = commit

(* config.json is read and parsed by every check, fast or not, so wrong    *)
(* bytes in it may or may not still parse: the other files stand for it.   *)
verifyHFModelDirectory(strong) ==
    /\ ~disk.unlisted
    /\ \A f \in Files :
          /\ validateLockedRegularInfo(disk.hf[f])
          /\ strong => verifyFile(disk.hf[f], Pinned)

verifyHFModel(commit, strong) ==
    /\ readHFReceipt
    /\ Serves(commit)
    /\ verifyHFModelDirectory(strong)

verifyHFModelWithRuntime(commit, strong) ==
    /\ verifyRuntime(strong)
    /\ verifyFile(disk.runner, RunnerSource)
    /\ verifyHFModel(commit, strong)

(* The check an assignment of a kind is put through, fast or full.         *)
Verifies(kind, commit, strong) ==
    CASE kind = "locked" -> verify(strong)
      [] kind = "train"  -> verifyRuntime(strong)
      [] kind = "mlx"    -> verifyHFModelWithRuntime(commit, strong)

(* The prepared models a heartbeat lists.                                  *)
DiscoverHFModels ==
    IF readHFReceipt /\ verifyHFModel(disk.sources[1], FALSE)
    THEN {disk.sources[i] : i \in DOMAIN disk.sources}
    ELSE {}

-----------------------------------------------------------------------------
(* Steps and their failures                                                *)

Goto(at) == op' = [op EXCEPT !.at = at, !.todo = {}]

Loop(at, items) == op' = [op EXCEPT !.at = at, !.todo = items]

(* Prepare, PrepareHFModel or the start returns an error: ensureProcess    *)
(* returns it, and a later tick tries the assignment again from the top.   *)
GiveUp == op' = NoOp

Fault ==
    /\ env.faults < MaxFaults
    /\ env' = [env EXCEPT !.faults = @ + 1]

(* One locked file is kept when it verifies; otherwise a transfer leaves   *)
(* the pinned bytes, or others, in a temporary file that is checked before *)
(* it is renamed over the destination.                                     *)
ensureDownload(current, expected) ==
    IF verifyFile(current, expected) THEN {[content |-> current, ok |-> TRUE]}
    ELSE {[content |-> IF sent = expected THEN sent ELSE current, ok |-> sent = expected] :
             sent \in {expected, Bad, Torn}}

(* One file of a download loop: the next one, or the end of Prepare.       *)
Downloaded(item, result) ==
    IF result.ok
    THEN op' = [op EXCEPT !.todo = @ \ {item}] /\ UNCHANGED env
    ELSE GiveUp /\ Fault

(* The receipt is written and Prepare returns it: the agent goes on to     *)
(* start the assignment.                                                   *)
Prepared == op' = [op EXCEPT !.at = "start", !.prepared = TRUE]

-----------------------------------------------------------------------------
(* ensureProcess: check what is there, prepare when the fast check fails   *)

Begin(kind, commit) ==
    LET assigned == [NoOp EXCEPT !.kind = kind, !.commit = commit] IN
    op' = IF Verifies(kind, commit, FALSE)
          THEN [assigned EXCEPT !.at = "start"]
          ELSE [assigned EXCEPT !.at = "wheels", !.todo = Wheels]

EnsureModel ==
    /\ op.at = "idle"
    /\ Begin("locked", None)
    /\ env' = [env EXCEPT !.disturbed = FALSE]
    /\ UNCHANGED disk

EnsureTraining ==
    /\ op.at = "idle"
    /\ Begin("train", None)
    /\ env' = [env EXCEPT !.disturbed = FALSE]
    /\ UNCHANGED disk

prepareAssignedHFModel(commit) ==
    /\ op.at = "idle"
    /\ Begin("mlx", commit)
    /\ env' = [env EXCEPT !.disturbed = FALSE]
    /\ UNCHANGED disk

(* The startup lease cannot be renewed, or the agent stops: the context is *)
(* cancelled and the preparation ends at its next download or command.     *)
prepareWithLease ==
    /\ op.at \in {"wheels", "buildVenv", "model", "resolve", "hf"}
    /\ Fault
    /\ GiveUp
    /\ disk' = [disk EXCEPT !.tmp = NoTree]

-----------------------------------------------------------------------------
(* PrepareRuntime                                                          *)

EnsureWheel ==
    /\ op.at = "wheels"
    /\ IF op.todo = {}
       THEN Goto("checkVenv") /\ UNCHANGED <<disk, env>>
       ELSE \E w \in op.todo : \E result \in ensureDownload(disk.wheels[w], RuntimeLock) :
               /\ disk' = [disk EXCEPT !.wheels[w] = result.content]
               /\ Downloaded(w, result)

\* Mutated form: the runtime the wheels were installed into is not checked.
CheckVenvMarker ==
    /\ op.at = "checkVenv"
    /\ IF disk.venv.marker = RuntimeLock /\ verifyInstalledPackages(disk.venv)
       THEN Goto("runtimeReceipt")
       ELSE Goto("buildVenv")
    /\ UNCHANGED <<disk, env>>

CheckVenv ==
    /\ op.at = "checkVenv"
    /\ IF /\ disk.venv.marker = RuntimeLock
          /\ verifyInstalledPackages(disk.venv)
          /\ verifyInstalledRuntime(disk.venv)
       THEN Goto("runtimeReceipt")
       ELSE Goto("buildVenv")
    /\ UNCHANGED <<disk, env>>

(* venv.tmp is removed, made again, filled from the wheelhouse, stripped   *)
(* of pip and bytecode, and given its marker; a command that fails removes *)
(* it again.                                                               *)
BuildVenv ==
    /\ op.at = "buildVenv"
    /\ \/ /\ disk' = [disk EXCEPT !.tmp =
                [marker |-> RuntimeLock, packages |-> RuntimeLock,
                 files |-> IF \A w \in Wheels : verifyDigestOnly(disk.wheels[w], RuntimeLock)
                           THEN RuntimeLock ELSE Bad,
                 python |-> TRUE]]
          /\ Goto("removeVenv")
          /\ UNCHANGED env
       \/ /\ disk' = [disk EXCEPT !.tmp = NoTree]
          /\ GiveUp
          /\ Fault

(* Killed in the middle, a removal has deleted any part of the tree.       *)
PartsOf(tree) ==
    [marker : {tree.marker, Absent}, packages : {tree.packages, Absent, Bad},
     files : {tree.files, IF tree.files = Absent THEN Absent ELSE Bad, Absent},
     python : {tree.python, FALSE}]

RemoveVenv ==
    /\ op.at = "removeVenv"
    /\ \/ /\ disk' = [disk EXCEPT !.venv = NoTree]
          /\ Goto("activateVenv")
          /\ UNCHANGED env
       \/ /\ disk.venv # NoTree
          /\ \E rest \in PartsOf(disk.venv) : disk' = [disk EXCEPT !.venv = rest]
          /\ GiveUp
          /\ Fault

ActivateVenv ==
    /\ op.at = "activateVenv"
    /\ disk' = [disk EXCEPT !.venv = disk.tmp, !.tmp = NoTree]
    /\ Goto("runtimeReceipt")
    /\ UNCHANGED env

WriteRuntimeReceipt ==
    /\ op.at = "runtimeReceipt"
    /\ disk' = [disk EXCEPT !.runtimeReceipt = RuntimeLock]
    /\ CASE op.kind = "locked" -> Loop("model", Files)
         [] op.kind = "train"  -> Prepared
         [] op.kind = "mlx"    -> Goto("runner")
    /\ UNCHANGED env

-----------------------------------------------------------------------------
(* Prepare: the locked model                                               *)

EnsureModelFile ==
    /\ op.at = "model"
    /\ IF op.todo = {}
       THEN Goto("runner") /\ UNCHANGED <<disk, env>>
       ELSE \E f \in op.todo : \E result \in ensureDownload(disk.model[f], ModelLock) :
               /\ disk' = [disk EXCEPT !.model[f] = result.content]
               /\ Downloaded(f, result)

(* atomicWrite: a temporary file, synced and renamed.                      *)
WriteRunner ==
    /\ op.at = "runner"
    /\ disk' = [disk EXCEPT !.runner = RunnerSource]
    /\ Goto(IF op.kind = "locked" THEN "receipt" ELSE "resolve")
    /\ UNCHANGED env

WriteReceipt ==
    /\ op.at = "receipt"
    /\ disk' = [disk EXCEPT !.receipt = lockedModelDescriptor]
    /\ Prepared
    /\ UNCHANGED env

-----------------------------------------------------------------------------
(* PrepareHFModel: a model pinned by manifest digest                       *)

(* The commit is listed again and its manifest computed; one that differs  *)
(* from the pinned digest and size, or whose config.json names code to     *)
(* run, is refused before any weight is downloaded.                        *)
ResolveHFManifest ==
    /\ op.at = "resolve"
    /\ IF op.commit \in Matching THEN Goto("clear") ELSE GiveUp
    /\ UNCHANGED <<disk, env>>

removeUnlisted ==
    /\ op.at \in {"clear", "clearAgain"}
    /\ disk' = [disk EXCEPT !.unlisted = FALSE]
    /\ IF op.at = "clear" THEN Loop("hf", Files) ELSE Goto("merge")
    /\ UNCHANGED env

EnsureHFFile ==
    /\ op.at = "hf"
    /\ IF op.todo = {}
       THEN Goto("clearAgain") /\ UNCHANGED <<disk, env>>
       ELSE \E f \in op.todo : \E result \in ensureDownload(disk.hf[f], Pinned) :
               /\ disk' = [disk EXCEPT !.hf[f] = result.content]
               /\ Downloaded(f, result)

(* The new commit first, then those of a readable earlier receipt for the  *)
(* same manifest, cut to maxHFSources.                                     *)
mergedSources ==
    LET others == SelectSeq(disk.sources, LAMBDA c : c # op.commit)
        all == <<op.commit>> \o others
    IN  SubSeq(all, 1, IF Len(all) > MaxSources THEN MaxSources ELSE Len(all))

WriteHFReceipt ==
    /\ op.at = "merge"
    /\ disk' = [disk EXCEPT !.sources = mergedSources]
    /\ Prepared
    /\ UNCHANGED env

-----------------------------------------------------------------------------
(* Start: the full check, then the sandboxed process                       *)

StartModel ==
    /\ op.at = "start"
    /\ op.kind # "train"
    /\ IF Verifies(op.kind, op.commit, TRUE) THEN Goto("running") ELSE GiveUp
    /\ UNCHANGED <<disk, env>>

StartTraining ==
    /\ op.at = "start"
    /\ op.kind = "train"
    /\ IF verifyRuntime(TRUE) THEN Goto("running") ELSE GiveUp
    /\ UNCHANGED <<disk, env>>

(* The process ends and the assignment with it.                            *)
Finish ==
    /\ op.at = "running"
    /\ GiveUp
    /\ UNCHANGED <<disk, env>>

-----------------------------------------------------------------------------
(* Outside events                                                          *)

(* The agent is killed; what it has on disk stays as it is.                *)
Crash ==
    /\ op.at # "idle"
    /\ Fault
    /\ GiveUp
    /\ UNCHANGED disk

(* Another release is installed and the agent restarted.                   *)
InstallRelease ==
    /\ op.at = "idle"
    /\ env.faults < MaxFaults
    /\ \E r \in Releases \ {env.release} :
          env' = [env EXCEPT !.release = r, !.faults = @ + 1,
                             !.rolledBack = @ \/ r < env.release]
    /\ UNCHANGED <<disk, op>>

Outside(damaged) ==
    /\ env.faults < MaxFaults
    /\ env' = [env EXCEPT !.faults = @ + 1, !.disturbed = TRUE, !.damaged = @ \/ damaged]
    /\ UNCHANGED op

(* Something else on the Mac changes or removes a file the agent owns.     *)
Damage ==
    /\ \E content \in {Absent, Bad, Torn} :
          \/ \E w \in Wheels : disk' = [disk EXCEPT !.wheels[w] = content]
          \/ \E f \in Files : disk' = [disk EXCEPT !.model[f] = content]
          \/ \E f \in Files : disk' = [disk EXCEPT !.hf[f] = content]
          \/ disk.venv # NoTree /\ disk' = [disk EXCEPT !.venv.files = content]
          \/ disk' = [disk EXCEPT !.runner = content]
          \/ disk' = [disk EXCEPT !.unlisted = TRUE]
    /\ Outside(TRUE)

(* The Python 3.12 the environment was made from is removed, and another   *)
(* one is found from now on.                                               *)
PythonMoves ==
    /\ disk.venv.python
    /\ disk' = [disk EXCEPT !.venv.python = FALSE]
    /\ Outside(FALSE)

(* Prepared models are not removed automatically: the user deletes the     *)
(* directory and its receipt while nothing uses the model.                 *)
ReclaimSpace ==
    /\ op.at = "idle"
    /\ disk' = [disk EXCEPT !.hf = [f \in Files |-> Absent], !.sources = <<>>]
    /\ disk.sources # <<>>
    /\ UNCHANGED <<op, env>>

Next ==
    \/ EnsureModel \/ EnsureTraining \/ \E c \in Commits : prepareAssignedHFModel(c)
    \/ prepareWithLease
    \/ EnsureWheel \/ CheckVenv \/ BuildVenv \/ RemoveVenv \/ ActivateVenv
    \/ WriteRuntimeReceipt
    \/ EnsureModelFile \/ WriteRunner \/ WriteReceipt
    \/ ResolveHFManifest \/ removeUnlisted \/ EnsureHFFile \/ WriteHFReceipt
    \/ StartModel \/ StartTraining \/ Finish
    \/ Crash \/ InstallRelease \/ Damage \/ PythonMoves \/ ReclaimSpace

Spec == Init /\ [][Next]_vars

-----------------------------------------------------------------------------
(* A preparation that returns a receipt leaves what the full check before  *)
(* the start accepts, whatever crash, failed download, damage or other     *)
(* release came before it: Prepare repairs.  Two things are excepted:      *)
(* something outside changing a file while it runs, and a bin/python that  *)
(* does not resolve, which prepareVenv keeps because its own check does    *)
(* not look at it.                                                         *)
PreparedVerifies ==
    op.at = "start" /\ op.prepared /\ ~env.disturbed /\ disk.venv.python
        => Verifies(op.kind, op.commit, TRUE)

(* The agent prepares only when the fast check fails, so a state the fast  *)
(* check accepts and the full check refuses is never repaired.  As long as *)
(* nothing outside damaged a file and no release was rolled back, no crash *)
(* at any point leaves such a state.                                       *)
FastMeansSound ==
    ~env.damaged /\ ~env.rolledBack =>
        /\ verify(FALSE) => verify(TRUE)
        /\ verifyRuntime(FALSE) => verifyRuntime(TRUE)
        /\ \A c \in Commits : verifyHFModelWithRuntime(c, FALSE)
                                   => verifyHFModelWithRuntime(c, TRUE)

(* The heartbeat advertises, and the agent starts without listing it again,*)
(* only commits whose files hash to the manifest the assignment pins.      *)
AdvertisedMatches == DiscoverHFModels \subseteq Matching

(* Preparation is sound: what it returns verifies, what passes the fast    *)
(* check verifies, and what is advertised is what was pinned.              *)
PreparationSound == PreparedVerifies /\ FastMeansSound /\ AdvertisedMatches
=============================================================================
