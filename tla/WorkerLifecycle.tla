--------------------------- MODULE WorkerLifecycle ---------------------------
(***************************************************************************)
(* The life of one Kubernetes worker on a host: `idlectl create | start |  *)
(* stop | delete worker` and the detached certificate maintainer.          *)
(* A command holds the state lock from beginning to end, so one command    *)
(* runs at a time; it may die between any two steps and leave the state    *)
(* file, the runtime directory, the VM, the Lease of its subnet, the Node  *)
(* and the maintainer as they are. The cluster moves on its own: kubelets  *)
(* register, Pods are bound, other workers take and drop subnets.          *)
(***************************************************************************)
EXTENDS Naturals

CONSTANTS Subnets,     \* the /29 candidates of this node name
          Children,    \* process slots for spawned maintainers
          MaxCreates,  \* bound: `create worker` commands that reserve a network
          MaxFaults,   \* bound: failed calls, failed saves, crashes, reboots
          None, Other  \* no value; the holder of somebody else's Lease

VARIABLES env,   \* the backend, the mesh, the user's intent and the bounds
          cmd,   \* the command that holds the state lock
          file,  \* the state file, None when there is none
          host,  \* runtime directory, VM and what the guest has been given
          k8s,   \* Leases, Node, Pods, bootstrap token, mesh peer and claim
          maint  \* maintainer processes and their metadata file

vars == <<env, cmd, file, host, k8s, maint>>

Phases == {"enrolling", "registered", "ready", "local-delete-pending", "local-deleted"}
Gone(st) == st.phase \in {"local-delete-pending", "local-deleted"}

\* What the state file records of a worker.
State(id) ==
    [phase |-> "enrolling", planned |-> FALSE, placed |-> FALSE,
     id |-> id, lease |-> None, claimed |-> FALSE]

States == [phase : Phases, planned : BOOLEAN, placed : BOOLEAN,
           id : 0..MaxCreates, lease : Subnets \cup {None}, claimed : BOOLEAN]

NoCommand == [op |-> "none", at |-> "idle", st |-> State(0), force |-> FALSE,
              local |-> FALSE, skip |-> FALSE, seen |-> FALSE,
              schedulable |-> FALSE, prev |-> "enrolling", pid |-> None]

Idle == cmd.op = "none"
At(label) == cmd.at = label
Goto(label) == [cmd EXCEPT !.at = label]
VMBackend == env.backend = "krunkit"

Fault == env.faults < MaxFaults /\ env' = [env EXCEPT !.faults = @ + 1]

\* A "partial" runtime directory holds files but no marker; a "marked" one
\* has the marker but not what Create adds to it: the lock file of a VM, the
\* node address unit of an in-place worker, without which neither starts.
Marked == host.dir \in {"marked", "ready"}

----------------------------------------------------------------------------
(* Ending a command. The deferred token.Delete runs on every return.       *)

TokenDelete == [k8s EXCEPT !.token = FALSE]

\* Return, successfully or with an error: the lock is released.
Return == cmd' = NoCommand /\ k8s' = TokenDelete
ReturnWith(cluster) == cmd' = NoCommand /\ k8s' = [cluster EXCEPT !.token = FALSE]

\* The command dies; the lock goes with it and nothing else is undone.
\* A marker that is being written or a directory that is being removed is
\* left half way.
Crash ==
    /\ ~Idle
    /\ Fault
    /\ cmd' = NoCommand
    /\ \/ UNCHANGED host
       \/ /\ At("mark") \/ (At("rmdir") /\ cmd.st.placed /\ Marked)
          /\ host' = [host EXCEPT !.dir = "partial"]
    /\ UNCHANGED <<file, k8s, maint>>

\* The host goes down: every process ends. The services of an in-place
\* worker come back with it, a VM does not.
Reboot ==
    /\ Fault
    /\ cmd' = NoCommand
    /\ maint' = [maint EXCEPT !.child = [c \in Children |-> "none"]]
    /\ host' = IF VMBackend THEN [host EXCEPT !.vm = "off"] ELSE host
    /\ UNCHANGED <<file, k8s>>

----------------------------------------------------------------------------
(* Ownership of the runtime directory.                                     *)

validateRuntimeOwnership(st) == st.placed /\ Marked
acquireRuntimeLock == host.dir = "ready"
recoverablePlanned(st) == st.planned /\ host.dir = "empty"

ValidateKrunkit(st) ==
    \/ ~st.placed
    \/ host.dir = "absent"
    \/ recoverablePlanned(st)
    \/ validateRuntimeOwnership(st) /\ acquireRuntimeLock

ValidateInPlace(st) == ~st.placed \/ host.dir = "absent" \/ Marked

Validate(st) == IF VMBackend THEN ValidateKrunkit(st) ELSE ValidateInPlace(st)

----------------------------------------------------------------------------
(* The Lease of the subnet and the mesh address claim.                     *)

HoldsNetworkReservation(st) == st.id # 0
HoldsMeshAddressClaim(st) == st.claimed

FindRuntimeNetworkReservation(st) == {s \in Subnets : k8s.lease[s] = st.id}

ValidateRuntimeNetworkReservation(st) ==
    st.lease # None /\ k8s.lease[st.lease] = st.id

ValidateNetworkReservationIfHeld(st) ==
    HoldsNetworkReservation(st) => ValidateRuntimeNetworkReservation(st)

\* ReleaseRuntimeNetwork deletes the Lease under its UID; one that is not
\* recorded or already gone is no error, one that is somebody else's is.
notOurs(st) == st.lease # None /\ k8s.lease[st.lease] \notin {None, st.id}

ReleaseRuntimeNetwork(st) ==
    IF st.lease # None /\ k8s.lease[st.lease] = st.id
    THEN [k8s EXCEPT !.lease[st.lease] = None] ELSE k8s

ReleaseMeshAddress(st) ==
    IF st.claimed THEN [k8s EXCEPT !.claim = FALSE] ELSE k8s

releaseWorkerReservations(st) ==
    IF HoldsNetworkReservation(st) THEN ReleaseRuntimeNetwork(st) ELSE ReleaseMeshAddress(st)

\* Subnets whose Lease nobody holds: Create fails with AlreadyExists for the
\* others and the loop goes on to the next candidate.
freeSubnets == {s \in Subnets : k8s.lease[s] = None}

----------------------------------------------------------------------------
(* Saving the state: written to a temporary file, renamed, the directory   *)
(* synced. A save that fails may have replaced the file or not.            *)

Deferred == "exit"

AfterSave ==
    CASE At("intent")   -> "reserve"
      [] At("leased")   -> "plan"
      [] At("planned")  -> "mkdir"
      [] At("failed")   -> Deferred
      [] At("created")  -> "token"
      [] At("started")  -> IF cmd.st.phase = "enrolling" THEN "token" ELSE "online"
      [] At("phase")    -> "probe-start"
      [] At("adopt")    -> "check"
      [] At("deleting") -> "probe-stop"
      [] At("restore")  -> "rollback"
      [] At("gone")     -> IF cmd.local THEN Deferred ELSE "drop-node"
      [] OTHER          -> "none"

\* Mutated form: the save after the runtime was created is undone like the earlier.
AfterFailedSaveUndone ==
    CASE At("intent") -> "unsave"
      [] cmd.at \in {"leased", "planned", "created"} -> "unreserve"
      [] At("started") -> "stop-again"
      [] At("deleting") /\ ~cmd.local -> "rollback"
      [] At("restore") -> "rollback"
      [] OTHER -> Deferred

AfterFailedSave ==
    CASE At("intent")   -> "unsave"
      [] At("leased")   -> "unreserve"
      [] At("planned")  -> "unreserve"
      [] At("started")  -> "stop-again"
      [] At("deleting") -> IF cmd.local THEN Deferred ELSE "rollback"
      [] At("restore")  -> "rollback"
      [] OTHER          -> Deferred

SaveState ==
    /\ AfterSave # "none"
    /\ \/ file' = cmd.st /\ cmd' = Goto(AfterSave) /\ UNCHANGED env
       \/ file' \in {file, cmd.st} /\ cmd' = Goto(AfterFailedSave) /\ Fault
    /\ UNCHANGED <<host, k8s, maint>>

Exit ==
    /\ At(Deferred)
    /\ Return
    /\ UNCHANGED <<env, file, host, maint>>

\* removeStateFile ends the command.
RemoveStateFile ==
    /\ At("unsave")
    /\ \/ file' = None /\ UNCHANGED env
       \/ UNCHANGED file /\ Fault
    /\ Return
    /\ UNCHANGED <<host, maint>>

\* Undo the reservation of a create that failed before the runtime exists. A
\* release that fails keeps the state file for recovery, except when the first
\* save of an in-place worker failed: it is removed all the same.
Unreserve ==
    /\ At("unreserve")
    /\ \/ /\ k8s' = releaseWorkerReservations(cmd.st)
          /\ cmd' = Goto("unsave")
          /\ UNCHANGED env
       \/ /\ Fault
          /\ k8s' \in {k8s, releaseWorkerReservations(cmd.st)}
          /\ cmd' = Goto(IF ~VMBackend /\ ~cmd.st.placed THEN "unsave" ELSE Deferred)
    /\ UNCHANGED <<file, host, maint>>

----------------------------------------------------------------------------
(* create worker                                                           *)

\* The Node is looked up before the state lock is taken.
CheckNode ==
    /\ ~env.waiting /\ ~env.retiring
    /\ env.creates < MaxCreates
    /\ k8s.node = "none"
    /\ env' = [env EXCEPT !.waiting = TRUE]
    /\ UNCHANGED <<cmd, file, host, k8s, maint>>

\* Mutated form: the state path is not checked before the state is built.
CreateBeginAgain(skip) ==
    /\ Idle
    /\ env' = [env EXCEPT !.waiting = FALSE, !.creates = @ + 1]
    /\ cmd' = [NoCommand EXCEPT !.op = "create", !.skip = skip, !.st = State(env.creates + 1), !.at = "intent"]
    /\ UNCHANGED <<file, host, k8s, maint>>

\* The lock is free: the command starts if the state path is available.
CreateBegin(skip) ==
    /\ env.waiting /\ Idle
    /\ IF file # None
       THEN env' = [env EXCEPT !.waiting = FALSE] /\ UNCHANGED cmd
       ELSE /\ env' = [env EXCEPT !.waiting = FALSE, !.creates = @ + 1]
            /\ cmd' = [NoCommand EXCEPT
                 !.op = "create", !.skip = skip,
                 !.at = IF VMBackend THEN "intent" ELSE "claim",
                 !.st = State(IF VMBackend THEN env.creates + 1 ELSE 0)]
    /\ UNCHANGED <<file, host, k8s, maint>>

\* ReserveRuntimeNetwork: the reservation ID is already in the state file, so
\* an error here, even after the Lease was created, only returns.
Reserve ==
    /\ At("reserve")
    /\ LET found == FindRuntimeNetworkReservation(cmd.st)
           candidates == IF found # {} THEN found ELSE freeSubnets
       IN  \/ /\ \E s \in candidates :
                   /\ k8s' = [k8s EXCEPT !.lease[s] = cmd.st.id]
                   /\ cmd' = [Goto("leased") EXCEPT !.st.lease = s]
              /\ UNCHANGED env
           \/ /\ candidates = {}
              /\ cmd' = Goto(Deferred)
              /\ UNCHANGED <<env, k8s>>
           \/ /\ Fault
              /\ cmd' = Goto(Deferred)
              /\ \/ UNCHANGED k8s
                 \/ \E s \in freeSubnets : k8s' = [k8s EXCEPT !.lease[s] = cmd.st.id]
    /\ UNCHANGED <<file, host, maint>>

\* ReserveMeshAddress: a claim where the mesh arbitrates addresses. An error
\* removes the state file, which an in-place worker has not written yet.
ReserveMeshAddress ==
    /\ At("claim")
    /\ \/ /\ k8s' = [k8s EXCEPT !.claim = env.arbitrates]
          /\ cmd' = [Goto("leased") EXCEPT !.st.claimed = env.arbitrates]
          /\ UNCHANGED env
       \/ /\ Fault
          /\ k8s' \in {k8s, [k8s EXCEPT !.claim = env.arbitrates]}
          /\ cmd' = Goto("unsave")
    /\ UNCHANGED <<file, host, maint>>

\* Plan refuses a runtime directory that is already there.
Plan ==
    /\ At("plan")
    /\ cmd' = IF host.dir = "absent"
              THEN [Goto("planned") EXCEPT !.st.planned = TRUE, !.st.placed = TRUE]
              ELSE Goto("unreserve")
    /\ UNCHANGED <<env, file, host, k8s, maint>>

\* Runtime.Create, one file system effect at a time. A failed marker removes
\* the directory again; after it the runtime counts as created, and a later
\* failure stops what was started and leaves the directory.
MakeDirectory ==
    /\ At("mkdir")
    /\ \/ /\ host.dir = "absent"
          /\ host' = [host EXCEPT !.dir = "empty"]
          /\ cmd' = Goto("mark")
          /\ UNCHANGED env
       \/ /\ Fault
          /\ cmd' = Goto("failed")
          /\ UNCHANGED host
    /\ UNCHANGED <<file, k8s, maint>>

WriteMarker ==
    /\ At("mark")
    /\ \/ /\ host' = [host EXCEPT !.dir = "marked"]
          /\ cmd' = [Goto(IF VMBackend THEN "lock" ELSE "boot") EXCEPT !.st.planned = FALSE]
          /\ UNCHANGED env
       \/ /\ Fault
          /\ host' = [host EXCEPT !.dir = "absent"]
          /\ cmd' = Goto("failed")
    /\ UNCHANGED <<file, k8s, maint>>

TakeRuntimeLock ==
    /\ At("lock")
    /\ \/ host' = [host EXCEPT !.dir = "ready"] /\ cmd' = Goto("boot") /\ UNCHANGED env
       \/ UNCHANGED host /\ cmd' = Goto("failed") /\ Fault
    /\ UNCHANGED <<file, k8s, maint>>

\* stopUnlocked: krunkit, then gvproxy.
Stopped == [host EXCEPT !.vm = "off"]

\* startUnlocked: a VM that runs is left alone, one that runs by half is
\* stopped first, then gvproxy is started.
StartRuntime ==
    /\ VMBackend
    /\ cmd.at \in {"boot", "start"}
    /\ \/ /\ host.vm = "off"
          /\ host' = [host EXCEPT !.vm = "half"]
          /\ cmd' = Goto(IF At("boot") THEN "boot-vm" ELSE "start-vm")
       \/ host.vm = "half" /\ host' = Stopped /\ UNCHANGED cmd
       \/ host.vm = "on" /\ At("start") /\ UNCHANGED host /\ cmd' = Goto("started")
    /\ UNCHANGED <<env, file, k8s, maint>>

\* Then krunkit; a failure of either stops both.
StartVM ==
    /\ cmd.at \in {"boot-vm", "start-vm"}
    /\ \/ /\ host' = [host EXCEPT !.vm = "on"]
          /\ cmd' = Goto(IF At("boot-vm") THEN "created" ELSE "started")
          /\ UNCHANGED env
       \/ /\ Fault
          /\ host' = Stopped
          /\ cmd' = Goto(IF At("boot-vm") THEN "failed" ELSE Deferred)
    /\ UNCHANGED <<file, k8s, maint>>

\* An in-place worker is prepared by scripts; the last one installs the unit
\* of the node address.
PrepareInPlace ==
    /\ ~VMBackend /\ At("boot")
    /\ \/ host' = [host EXCEPT !.vm = "on", !.dir = "ready"] /\ cmd' = Goto("created") /\ UNCHANGED env
       \/ UNCHANGED host /\ cmd' = Goto("failed") /\ Fault
    /\ UNCHANGED <<file, k8s, maint>>

StartInPlace ==
    /\ ~VMBackend /\ At("start")
    /\ \/ host' = [host EXCEPT !.vm = "on"] /\ cmd' = Goto("started") /\ UNCHANGED env
       \/ UNCHANGED host /\ cmd' = Goto(Deferred) /\ Fault
    /\ UNCHANGED <<file, k8s, maint>>

----------------------------------------------------------------------------
(* Enrollment, shared by create and by the resume of an interrupted one.   *)

CreateBootstrapToken ==
    /\ At("token")
    /\ \/ k8s' = [k8s EXCEPT !.token = TRUE] /\ cmd' = Goto("bundle") /\ UNCHANGED env
       \/ UNCHANGED k8s /\ cmd' = Goto(Deferred) /\ Fault
    /\ UNCHANGED <<file, host, maint>>

\* The bundle brings kubelet and its bootstrap identity; a client certificate
\* the guest already has stays.
installed ==
    [host EXCEPT !.guest = IF @ = "bare" THEN "bootstrap" ELSE IF @ = "joined" THEN "certified" ELSE @]

InstallBundle ==
    /\ At("bundle")
    /\ \/ /\ host.vm = "on"
          /\ host' = installed
          /\ cmd' = Goto("register")
          /\ UNCHANGED env
       \/ UNCHANGED host /\ cmd' = Goto(Deferred) /\ (host.vm = "on" => Fault)
                                                  /\ (host.vm # "on" => UNCHANGED env)
    /\ UNCHANGED <<file, k8s, maint>>

waitForNode == k8s.node # "none"
labelNode == [k8s EXCEPT !.vpn = TRUE]
cordonNode == [k8s EXCEPT !.node = "cordoned"]
uncordonNode == [k8s EXCEPT !.node = "open"]

\* The Node is labelled, its serving certificate approved.
RegisterNode ==
    /\ At("register")
    /\ \/ /\ waitForNode
          /\ k8s' = labelNode
          /\ cmd' = Goto(IF cmd.skip THEN "cordon" ELSE "online")
       \/ UNCHANGED k8s /\ cmd' = Goto(Deferred)        \* the wait ran out
    /\ UNCHANGED <<env, file, host, maint>>

\* registerWorkerWithoutWaiting leaves the Node cordoned.
CordonRegistered ==
    /\ At("cordon")
    /\ \/ k8s.node # "none" /\ k8s' = cordonNode /\ cmd' = Goto("unboot")
          /\ UNCHANGED env
       \/ UNCHANGED k8s /\ cmd' = Goto(Deferred) /\ Fault
    /\ UNCHANGED <<file, host, maint>>

\* The waits for the mesh peer and for the Node to be Ready; they may run out.
waitForNodeReady == host.vm = "on" /\ k8s.node # "none"

WaitOnline ==
    /\ At("online")
    /\ \/ /\ waitForNodeReady
          /\ cmd' = Goto(IF cmd.st.phase = "enrolling" THEN "unboot" ELSE "uncordon")
       \/ cmd' = Goto(Deferred)
    /\ UNCHANGED <<env, file, host, k8s, maint>>

\* Delete the token, then the bootstrap kubeconfig in the guest.
removeBootstrapIdentity ==
    /\ At("unboot")
    /\ k8s' = TokenDelete
    /\ \/ /\ host' = [host EXCEPT !.guest = IF @ = "certified" THEN "joined" ELSE @]
          /\ cmd' = [Goto("phase") EXCEPT !.st.phase = IF cmd.skip THEN "registered" ELSE "ready"]
          /\ UNCHANGED env
       \/ UNCHANGED host /\ cmd' = Goto(Deferred) /\ Fault
    /\ UNCHANGED <<file, maint>>

----------------------------------------------------------------------------
(* The certificate maintainer, a detached process with a lock of its own.  *)

Holder == {c \in Children : maint.child[c] \in {"locked", "loaded", "up"}}
maintainerLockHeld == Holder # {}
\* The metadata names the process that holds the lock.
readAndValidateMaintainer == maint.meta \in Holder

\* startMaintainer: probe, remove stale metadata, spawn, wait for metadata.
ProbeStart ==
    /\ At("probe-start")
    /\ cmd' = IF maintainerLockHeld THEN Goto(Deferred) ELSE Goto("clear-start")
    /\ UNCHANGED <<env, file, host, k8s, maint>>

Spawn ==
    /\ At("clear-start")
    /\ \E c \in Children :
         /\ maint.child[c] = "none"
         /\ maint' = [child |-> [maint.child EXCEPT ![c] = "spawned"], meta |-> None]
         /\ cmd' = [Goto("await") EXCEPT !.pid = c]
    /\ UNCHANGED <<env, file, host, k8s>>

\* A process that ends takes its own metadata with it.
Ended(c) == [child |-> [maint.child EXCEPT ![c] = "none"],
             meta  |-> IF maint.meta = c THEN None ELSE maint.meta]

AwaitMaintainer ==
    /\ At("await")
    /\ \/ maint.meta = cmd.pid /\ UNCHANGED <<env, maint>>
       \/ maint' = Ended(cmd.pid) /\ Fault            \* five seconds have passed
       \/ maint.child[cmd.pid] = "none" /\ UNCHANGED <<env, maint>>
    /\ cmd' = Goto(Deferred)
    /\ UNCHANGED <<file, host, k8s>>

\* Maintain: take the lock or exit.
MaintainLock(c) ==
    /\ maint.child[c] = "spawned"
    /\ maint' = IF maintainerLockHeld THEN Ended(c) ELSE [maint EXCEPT !.child[c] = "locked"]
    /\ UNCHANGED <<env, cmd, file, host, k8s>>

\* LoadState without the state lock; a worker that is being deleted needs no
\* maintainer.
MaintainLoad(c) ==
    /\ maint.child[c] = "locked"
    /\ maint' = IF file = None \/ Gone(file) THEN Ended(c) ELSE [maint EXCEPT !.child[c] = "loaded"]
    /\ UNCHANGED <<env, cmd, file, host, k8s>>

writeMaintainerMetadata(c) ==
    /\ maint.child[c] = "loaded"
    /\ maint' = [child |-> [maint.child EXCEPT ![c] = "up"], meta |-> c]
    /\ UNCHANGED <<env, cmd, file, host, k8s>>

\* approveServingCSRsOnce reads the state under the state lock. It ends the
\* process when the worker is stopped or going; a state file that cannot be
\* read is only logged.
maintainerStops == file # None /\ (Gone(file) \/ host.vm # "on")

MaintainOnce(c) ==
    /\ maint.child[c] = "up" /\ Idle
    /\ maintainerStops
    /\ maint' = Ended(c)
    /\ UNCHANGED <<env, cmd, file, host, k8s>>

\* stopMaintainer: an unheld lock means stale metadata; a held one must name
\* its owner, who is terminated.
AfterStopMaintainer ==
    CASE cmd.op = "stop" -> Deferred
      [] cmd.op = "delete" /\ cmd.st.phase = "local-deleted" -> "drop-node"
      [] OTHER -> "destroy"

AfterStopFailure ==
    IF cmd.op = "delete" /\ ~cmd.local /\ cmd.st.phase # "local-deleted"
    THEN [Goto("restore") EXCEPT !.st.phase = cmd.prev]
    ELSE Goto(Deferred)

ProbeStop ==
    /\ At("probe-stop")
    /\ cmd' = IF ~maintainerLockHeld THEN Goto("clear-stop")
              ELSE IF readAndValidateMaintainer THEN [Goto("terminate") EXCEPT !.pid = maint.meta]
              ELSE AfterStopFailure
    /\ UNCHANGED <<env, file, host, k8s, maint>>

ClearStop ==
    /\ At("clear-stop")
    /\ maint' = [maint EXCEPT !.meta = None]
    /\ cmd' = Goto(AfterStopMaintainer)
    /\ UNCHANGED <<env, file, host, k8s>>

\* Signal the owner and wait for the lock to come free; another process that
\* took it meanwhile is not the one that was asked to stop.
Terminate ==
    /\ At("terminate")
    /\ \/ /\ maint' = Ended(cmd.pid)
          /\ cmd' = IF Holder \subseteq {cmd.pid} THEN Goto(AfterStopMaintainer) ELSE AfterStopFailure
          /\ UNCHANGED env
       \/ UNCHANGED maint /\ cmd' = AfterStopFailure /\ Fault
    /\ UNCHANGED <<file, host, k8s>>

----------------------------------------------------------------------------
(* start worker                                                            *)

\* What Start checks before it changes anything, phase by phase. A resume saves
\* the state after the runtime has started only when its SSH port has moved;
\* the file is then what it was before, as far as it is modelled.
startReady == file.phase = "ready" /\ k8s.node # "none"
completeRegisteredEnrollment == file.phase = "registered"
resumeEnrollment == file.phase = "enrolling" /\ ~file.planned

\* Runtime.Start: the directory is ours and complete.
runtimeStartable == validateRuntimeOwnership(file) /\ host.dir = "ready"

StartBegin ==
    /\ Idle /\ ~env.retiring
    /\ file # None
    /\ ValidateNetworkReservationIfHeld(file)
    /\ resumeEnrollment \/ completeRegisteredEnrollment \/ startReady
    /\ runtimeStartable
    /\ cmd' = [NoCommand EXCEPT !.op = "start", !.at = "start", !.st = file]
    /\ UNCHANGED <<env, file, host, k8s, maint>>

\* The state could not be saved after the runtime was started.
StopAgain ==
    /\ At("stop-again")
    /\ host' = Stopped
    /\ cmd' = Goto(Deferred)
    /\ UNCHANGED <<env, file, k8s, maint>>

\* uncordonNode, then ready is recorded (a registered worker) or already is.
Uncordon ==
    /\ At("uncordon")
    /\ \/ /\ k8s.node # "none"
          /\ k8s' = uncordonNode
          /\ cmd' = IF cmd.st.phase = "registered" THEN [Goto("phase") EXCEPT !.st.phase = "ready"]
                                                   ELSE Goto("probe-start")
          /\ UNCHANGED env
       \/ UNCHANGED k8s /\ cmd' = Goto(Deferred) /\ Fault
    /\ UNCHANGED <<file, host, maint>>

----------------------------------------------------------------------------
(* stop worker and delete worker                                           *)

StopBegin(local) ==
    /\ Idle
    /\ file # None
    /\ ~local => Validate(file) /\ ValidateNetworkReservationIfHeld(file)
    /\ cmd' = [NoCommand EXCEPT !.op = "stop", !.st = file, !.local = local,
                                !.at = IF local THEN "halt" ELSE "get-node"]
    /\ UNCHANGED <<env, file, host, k8s, maint>>

DeleteBegin(force, local) ==
    /\ Idle
    /\ file # None
    /\ Validate(file)
    /\ cmd' = [NoCommand EXCEPT !.op = "delete", !.force = force, !.local = local, !.prev = file.phase,
                 !.at = IF local THEN "deleting" ELSE "find",
                 !.st = IF local THEN [file EXCEPT !.phase = "local-delete-pending"] ELSE file]
    /\ UNCHANGED <<env, file, host, k8s, maint>>

\* A reservation whose Lease was never recorded is looked up by its ID.
FindReservation ==
    /\ At("find")
    /\ LET found == FindRuntimeNetworkReservation(cmd.st)
       IN  IF cmd.st.lease = None /\ HoldsNetworkReservation(cmd.st) /\ found # {}
           THEN \E s \in found : cmd' = [Goto("adopt") EXCEPT !.st.lease = s]
           ELSE cmd' = Goto("check")
    /\ UNCHANGED <<env, file, host, k8s, maint>>

\* Mutated form: a missing Lease is always an error.
CheckReservationStrict ==
    /\ At("check")
    /\ cmd' = IF cmd.st.lease = None \/ ValidateRuntimeNetworkReservation(cmd.st)
              THEN Goto("get-node") ELSE Goto(Deferred)
    /\ UNCHANGED <<env, file, host, k8s, maint>>

\* A missing Lease is accepted only once the runtime is known to be gone.
CheckReservation ==
    /\ At("check")
    /\ cmd' = IF cmd.st.lease = None \/ ValidateRuntimeNetworkReservation(cmd.st)
                 \/ (cmd.st.phase = "local-deleted" /\ k8s.lease[cmd.st.lease] = None)
              THEN Goto("get-node") ELSE Goto(Deferred)
    /\ UNCHANGED <<env, file, host, k8s, maint>>

\* Where the command goes when nothing stands in its way.
proceed(c) ==
    CASE c.op = "stop" -> [c EXCEPT !.at = "halt"]
      [] c.st.phase = "local-deleted" -> [c EXCEPT !.at = "probe-stop"]
      [] OTHER -> [c EXCEPT !.at = "deleting", !.st.phase = "local-delete-pending"]

\* Mutated form: the Pods are listed before the Node is cordoned.
GetNodeUncordoned ==
    /\ At("get-node")
    /\ cmd' = IF k8s.node = "none" /\ cmd.op = "stop" THEN Goto(Deferred)
              ELSE IF k8s.node = "none" THEN proceed(cmd)
              ELSE [Goto("list-pods") EXCEPT !.seen = TRUE, !.schedulable = (k8s.node = "open")]
    /\ UNCHANGED <<env, file, host, k8s, maint>>

\* Get the Node; cordon it if it is schedulable. Delete goes on without one;
\* Stop gets an empty Node back and fails to cordon that.
GetNode ==
    /\ At("get-node")
    /\ \/ /\ k8s.node = "none"
          /\ cmd' = IF cmd.op = "stop" THEN Goto(Deferred) ELSE proceed(cmd)
          /\ UNCHANGED <<env, k8s>>
       \/ /\ k8s.node # "none"
          /\ k8s' = cordonNode
          /\ cmd' = [Goto("list-pods") EXCEPT !.seen = TRUE, !.schedulable = (k8s.node = "open")]
          /\ UNCHANGED env
       \/ UNCHANGED k8s /\ cmd' = Goto(Deferred) /\ Fault
    /\ UNCHANGED <<file, host, maint>>

\* activeWorkloadPods; a busy worker is refused unless forced.
ListPods ==
    /\ At("list-pods")
    /\ \/ cmd' = (IF k8s.pods /\ ~cmd.force THEN Goto("rollback") ELSE proceed(cmd)) /\ UNCHANGED env
       \/ cmd' = Goto("rollback") /\ Fault
    /\ UNCHANGED <<file, host, k8s, maint>>

\* Make the Node schedulable again if this command cordoned it.
Rollback ==
    /\ At("rollback")
    /\ \/ /\ ReturnWith(IF cmd.schedulable /\ k8s.node # "none" THEN uncordonNode ELSE k8s)
          /\ UNCHANGED env
       \/ Return /\ Fault
    /\ UNCHANGED <<file, host, maint>>

\* Runtime.Stop refuses a directory it does not own; that of an in-place
\* worker only stops the kubelet.
canStop(st) ==
    VMBackend => host.dir = "absent" \/ (validateRuntimeOwnership(st) /\ acquireRuntimeLock)

Halt ==
    /\ At("halt")
    /\ \/ canStop(cmd.st) /\ host' = Stopped /\ cmd' = Goto("probe-stop")
       \/ ~canStop(cmd.st) /\ UNCHANGED host /\ cmd' = Goto(Deferred)
    /\ UNCHANGED <<env, file, k8s, maint>>

\* Runtime.Delete: stop, then remove the directory.
Destroy ==
    /\ VMBackend /\ At("destroy")
    /\ \/ ValidateKrunkit(cmd.st) /\ host' = [Stopped EXCEPT !.guest = "bare"]
          /\ cmd' = Goto("rmdir") /\ UNCHANGED env
       \/ UNCHANGED host /\ cmd' = Goto(Deferred) /\ Fault
    /\ UNCHANGED <<file, k8s, maint>>

\* In place, a script disables kubelet, kills what it started and takes the
\* configuration away.
DestroyInPlace ==
    /\ ~VMBackend /\ At("destroy")
    /\ \/ host' = [Stopped EXCEPT !.guest = "bare"] /\ cmd' = Goto("rmdir") /\ UNCHANGED env
       \/ UNCHANGED host /\ cmd' = Goto(Deferred) /\ Fault
    /\ UNCHANGED <<file, k8s, maint>>

RemoveDirectory ==
    /\ At("rmdir")
    /\ \/ /\ host' = [host EXCEPT !.dir = IF cmd.st.placed THEN "absent" ELSE @]
          /\ cmd' = [Goto("gone") EXCEPT !.st.phase = "local-deleted"]
          /\ UNCHANGED env
       \/ cmd.st.placed /\ Marked /\ host' = [host EXCEPT !.dir = "partial"] /\ cmd' = Goto(Deferred) /\ Fault
    /\ UNCHANGED <<file, k8s, maint>>

\* The Node is deleted by name, if GetNode saw one.
DropNode ==
    /\ At("drop-node")
    /\ \/ /\ k8s' = IF cmd.seen THEN [k8s EXCEPT !.node = "none", !.vpn = FALSE, !.pods = FALSE] ELSE k8s
          /\ cmd' = Goto("release")
          /\ UNCHANGED env
       \/ UNCHANGED k8s /\ cmd' = Goto(Deferred) /\ Fault
    /\ UNCHANGED <<file, host, maint>>

Release ==
    /\ At("release")
    /\ \/ /\ ~notOurs(cmd.st)
          /\ k8s' = ReleaseRuntimeNetwork(cmd.st)
          /\ cmd' = Goto(IF HoldsMeshAddressClaim(cmd.st) THEN "peer-gone" ELSE "cleanup")
          /\ UNCHANGED env
       \/ notOurs(cmd.st) /\ cmd' = Goto(Deferred) /\ UNCHANGED <<env, k8s>>
       \/ k8s' \in {k8s, ReleaseRuntimeNetwork(cmd.st)} /\ cmd' = Goto(Deferred) /\ Fault
    /\ UNCHANGED <<file, host, maint>>

\* Mutated form: the claim is released with the Node, not after the peer.
ReleaseClaimAtOnce ==
    /\ At("peer-gone")
    /\ k8s' = ReleaseMeshAddress(cmd.st)
    /\ cmd' = Goto("cleanup")
    /\ UNCHANGED <<env, file, host, maint>>

\* waitForPeerGone; a peer that stays, or a failed release, is only a warning.
ReleaseClaim ==
    /\ At("peer-gone")
    /\ \/ ~k8s.peer /\ k8s' = ReleaseMeshAddress(cmd.st)
       \/ UNCHANGED k8s
    /\ cmd' = Goto("cleanup")
    /\ UNCHANGED <<env, file, host, maint>>

\* cleanupMaintainerFiles takes the maintainer lock for a moment.
Cleanup ==
    /\ At("cleanup")
    /\ \/ ~maintainerLockHeld /\ maint' = [maint EXCEPT !.meta = None] /\ cmd' = Goto("remove")
       \/ maintainerLockHeld /\ UNCHANGED maint /\ cmd' = Goto(Deferred)
    /\ UNCHANGED <<env, file, host, k8s>>

RemoveState ==
    /\ At("remove")
    /\ \/ file' = None /\ UNCHANGED env
       \/ UNCHANGED file /\ Fault
    /\ Return
    /\ UNCHANGED <<host, maint>>

----------------------------------------------------------------------------
(* The surroundings.                                                       *)

Quiet == UNCHANGED <<env, cmd, file, maint>>

\* kubelet turns the bootstrap token into a client certificate.
KubeletBootstraps ==
    /\ host.vm = "on" /\ host.guest = "bootstrap" /\ k8s.token
    /\ host' = [host EXCEPT !.guest = "certified"]
    /\ Quiet /\ UNCHANGED k8s

\* kubelet registers its Node.
KubeletRegisters ==
    /\ host.vm = "on" /\ host.guest \in {"certified", "joined"} /\ k8s.node = "none"
    /\ k8s' = [k8s EXCEPT !.node = "open"]
    /\ Quiet /\ UNCHANGED host

SchedulerBinds ==
    /\ k8s.node = "open" /\ ~k8s.pods
    /\ k8s' = [k8s EXCEPT !.pods = TRUE]
    /\ Quiet /\ UNCHANGED host

PodsFinish ==
    /\ k8s.pods
    /\ k8s' = [k8s EXCEPT !.pods = FALSE]
    /\ Quiet /\ UNCHANGED host

\* The mesh agent of a labelled Node publishes a peer; the garbage collector
\* removes it after the Node.
PeerAppears ==
    /\ env.arbitrates /\ host.vm = "on" /\ k8s.vpn /\ ~k8s.peer
    /\ k8s' = [k8s EXCEPT !.peer = TRUE]
    /\ Quiet /\ UNCHANGED host

PeerCollected ==
    /\ k8s.peer /\ k8s.node = "none"
    /\ k8s' = [k8s EXCEPT !.peer = FALSE]
    /\ Quiet /\ UNCHANGED host

TokenExpires ==
    /\ k8s.token
    /\ k8s' = TokenDelete
    /\ Quiet /\ UNCHANGED host

\* Another worker takes or gives back a subnet.
OtherWorker(s) ==
    /\ VMBackend
    /\ \/ k8s.lease[s] = None /\ k8s' = [k8s EXCEPT !.lease[s] = Other]
       \/ k8s.lease[s] = Other /\ k8s' = [k8s EXCEPT !.lease[s] = None]
    /\ Quiet /\ UNCHANGED host

\* The user gives the worker up for good.
Retire ==
    /\ ~env.retiring
    /\ env' = [env EXCEPT !.retiring = TRUE, !.waiting = FALSE]
    /\ UNCHANGED <<cmd, file, host, k8s, maint>>

\* "if this directory is left over from an old worker, remove it manually"
RemoveManually ==
    /\ env.retiring /\ Idle
    /\ host.vm = "off" /\ file # None /\ ~Validate(file)
    /\ host' = [host EXCEPT !.dir = "absent"]
    /\ UNCHANGED <<env, cmd, file, k8s, maint>>

----------------------------------------------------------------------------
Init ==
    /\ \E b \in {"krunkit", "inplace"}, a \in BOOLEAN :
         env = [backend |-> b, arbitrates |-> a /\ b = "inplace", creates |-> 0,
                faults |-> 0, waiting |-> FALSE, retiring |-> FALSE]
    /\ cmd = NoCommand
    /\ file = None
    /\ host = [dir |-> "absent", vm |-> "off", guest |-> "bare"]
    /\ k8s = [lease |-> [s \in Subnets |-> None], node |-> "none", vpn |-> FALSE, pods |-> FALSE,
              token |-> FALSE, peer |-> FALSE, claim |-> FALSE]
    /\ maint = [child |-> [c \in Children |-> "none"], meta |-> None]

\* The steps of a command that has begun.
Work ==
    \/ SaveState \/ Exit \/ RemoveStateFile \/ Unreserve
    \/ Reserve \/ ReserveMeshAddress \/ Plan \/ MakeDirectory \/ WriteMarker \/ TakeRuntimeLock
    \/ StartRuntime \/ StartVM \/ PrepareInPlace \/ StartInPlace
    \/ CreateBootstrapToken \/ InstallBundle \/ RegisterNode \/ CordonRegistered
    \/ WaitOnline \/ removeBootstrapIdentity
    \/ ProbeStart \/ Spawn \/ AwaitMaintainer \/ ProbeStop \/ ClearStop \/ Terminate
    \/ StopAgain \/ Uncordon
    \/ FindReservation \/ CheckReservation \/ GetNode \/ ListPods \/ Rollback
    \/ Halt \/ Destroy \/ DestroyInPlace \/ RemoveDirectory \/ DropNode \/ Release \/ ReleaseClaim
    \/ Cleanup \/ RemoveState

Maintain(c) == MaintainLock(c) \/ MaintainLoad(c) \/ writeMaintainerMetadata(c) \/ MaintainOnce(c)

Surroundings ==
    \/ KubeletBootstraps \/ KubeletRegisters \/ SchedulerBinds \/ PodsFinish
    \/ PeerAppears \/ PeerCollected \/ TokenExpires
    \/ \E s \in Subnets : OtherWorker(s)

Next ==
    \/ Work
    \/ CheckNode \/ StartBegin \/ Retire \/ RemoveManually
    \/ \E b \in BOOLEAN : CreateBegin(b) \/ StopBegin(b)
    \/ \E force, local \in BOOLEAN : DeleteBegin(force, local)
    \/ \E c \in Children : Maintain(c)
    \/ Surroundings
    \/ Crash \/ Reboot

Spec == Init /\ [][Next]_vars

\* A user who gives the worker up keeps deleting it, stops it when that fails,
\* and removes a directory Idleloom refuses to touch, leaving the state lock
\* free now and then for the maintainer; commands and processes keep going.
Fairness ==
    /\ WF_vars(Work) /\ WF_vars(Retire) /\ SF_vars(RemoveManually)
    /\ SF_vars(env.retiring /\ DeleteBegin(TRUE, FALSE))
    /\ SF_vars(env.retiring /\ DeleteBegin(TRUE, TRUE))
    /\ SF_vars(env.retiring /\ StopBegin(TRUE))
    /\ \A c \in Children : SF_vars(Maintain(c))

FairSpec == Spec /\ Fairness

----------------------------------------------------------------------------
(* Properties.                                                             *)

TypeOK ==
    /\ env \in [backend : {"krunkit", "inplace"}, arbitrates : BOOLEAN, creates : 0..MaxCreates,
               faults : 0..MaxFaults, waiting : BOOLEAN, retiring : BOOLEAN]
    /\ cmd.op \in {"none", "create", "start", "stop", "delete"}
    /\ cmd.st \in States /\ cmd.pid \in Children \cup {None}
    /\ file \in States \cup {None}
    /\ host \in [dir : {"absent", "empty", "partial", "marked", "ready"}, vm : {"off", "half", "on"},
                guest : {"bare", "bootstrap", "certified", "joined"}]
    /\ k8s \in [lease : [Subnets -> {None, Other} \cup 1..MaxCreates], node : {"none", "open", "cordoned"},
               vpn : BOOLEAN, pods : BOOLEAN, token : BOOLEAN, peer : BOOLEAN, claim : BOOLEAN]
    /\ maint \in [child : [Children -> {"none", "spawned", "locked", "loaded", "up"}], meta : Children \cup {None}]

\* Nothing a command leaves behind is out of reach of `delete worker`: without
\* a state file there is no runtime directory, no VM and no Lease of ours,
\* whatever failed or died; a Lease always carries the recorded ID.  And a VM,
\* or one of its two halves, exists only while the Lease of its subnet is held
\* under that ID: Delete releases the Lease after the runtime, and a failed
\* create only while there is no runtime, so no two workers run on one subnet.
NothingForgotten ==
    /\ VMBackend /\ host.vm # "off" => file # None /\ ValidateRuntimeNetworkReservation(file)
    /\ file = None => host.dir = "absent" /\ host.vm = "off"
    /\ \A s \in Subnets : k8s.lease[s] \notin {None, Other} => file # None /\ file.id = k8s.lease[s]

\* Stop, and Delete without --force, halt a worker whose Node they saw only
\* when it runs no workload Pod: the cordon comes before the list, and no Pod
\* can arrive between the list and the halt.
DrainedBeforeHalt ==
    cmd.at \in {"halt", "destroy"} /\ cmd.seen /\ ~cmd.force => ~k8s.pods

\* When `delete worker` removes the state file, no maintainer is past its look
\* at that file, although one may have been spawned at any time before: it
\* would go on for ever, as a missing state file does not end it.  And the mesh
\* address is never handed back while the worker's peer still advertises it:
\* the peer is collected some time after the Node.
DeleteStep ==
    cmd.op = "delete" =>
        /\ file # None /\ file' = None =>
             \A c \in Children : maint.child[c] \notin {"loaded", "up"}
        /\ k8s.peer => k8s'.claim = k8s.claim

DeletesInOrder == [][DeleteStep]_vars

\* A worker that its user gives up is gone in the end: `delete worker` is
\* never wedged by what an earlier command, crash or reboot left behind. The
\* exception: a Lease that an earlier delete released before it died, and
\* that another worker has taken since, is refused as long as that one lives.
DeletionCompletes == env.retiring ~> file = None \/ notOurs(file)
=============================================================================
