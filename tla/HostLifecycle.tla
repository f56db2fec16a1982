---------------------------- MODULE HostLifecycle ----------------------------
(***************************************************************************)
(* The life of a Native host on one Mac: `idlectl join HOST` enrolls it in *)
(* the cluster (internal/native/enroll) and installs its launchd services  *)
(* (internal/native/serviceinstall); a join that fails while installing    *)
(* rolls itself back; `idlectl delete host` takes everything away again.   *)
(* One command runs at a time.  Any call of it may fail, the user may      *)
(* interrupt it (every later call under its context then fails), and it    *)
(* may die between two steps.  Meanwhile namespaces finish terminating,    *)
(* controllers schedule workloads onto the host and another Mac may use    *)
(* the host's name.                                                        *)
(*                                                                         *)
(* What Enroll and Revoke of the mesh link do call by call is the subject  *)
(* of MeshEnrollment; here the peer, its claim and its identity are one    *)
(* object of the cluster.                                                  *)
(***************************************************************************)
EXTENDS Naturals, Sequences, SequencesExt

CONSTANTS MaxJoins,     \* bound: enrollments that draw a new nonce
          MaxWorkloads, \* bound: workloads that are scheduled onto the host
          MaxFaults,    \* bound: failed calls, interrupts and deaths of commands
          None, Other   \* no value; the enrollment of another Mac

VARIABLES cmd,   \* the command in progress
          dir,   \* the state directory
          mac,   \* launchd jobs and their files, the runtime root
          k8s,   \* the host's namespace, its mesh link, the workloads on it
          env    \* what the bounds count

vars == <<cmd, dir, mac, k8s, env>>

Kinds == <<"account", "rbac", "host", "lease">>
Manifests == {"native", "projection", "catalog"}
Labels == {"controller", "agent", "projection"}
Links == {"wirekube", "api-only"}

\* The user services of Install, in the order they are started.
services == <<"controller", "agent">> \o (IF cmd.projected THEN <<"projection">> ELSE <<>>)

NoCommand == [op |-> "none", at |-> "idle", link |-> "api-only", projected |-> FALSE,
              i |-> 1, labels |-> {}, phase |-> "none", ret |-> "none",
              errs |-> FALSE, failed |-> FALSE, cancelled |-> FALSE]

Idle == cmd.op = "none"
At(label) == cmd.at = label
Goto(label) == cmd' = [cmd EXCEPT !.at = label]
Return == cmd' = NoCommand

Receipt(phase, labels) == [phase |-> phase, labels |-> labels]

Fault == env.faults < MaxFaults /\ env' = [env EXCEPT !.faults = @ + 1]

\* A call under the command's context: it works unless the context is
\* cancelled, and fails then or by a fault.
Works == ~cmd.cancelled /\ UNCHANGED env
Fails == IF cmd.cancelled THEN UNCHANGED env ELSE Fault

TypeOK ==
    /\ cmd.op \in {"none", "join", "delete"} /\ cmd.link \in Links
    /\ cmd.labels \subseteq Labels /\ cmd.phase \in {"none", "planned", "owned"}
    /\ cmd.i \in 1..5 /\ {cmd.projected, cmd.errs, cmd.failed, cmd.cancelled} \subseteq BOOLEAN
    /\ dir \in [intent : 0..MaxJoins, leaf : BOOLEAN,
                receipt : {None} \cup [phase : {"none", "planned", "owned"},
                                       labels : SUBSET Labels]]
    /\ mac \in [plists : SUBSET Labels, loaded : SUBSET Labels,
                rootDir : {"absent", "empty", "owned"}, helper : BOOLEAN,
                rootPlist : BOOLEAN, rootLoaded : BOOLEAN,
                runtime : {"absent", "empty", "torn", "ours", "theirs"}]
    /\ k8s \in [owner : {None, Other} \cup 1..MaxJoins, dying : BOOLEAN,
                objects : SUBSET ToSet(Kinds), link : BOOLEAN, used : BOOLEAN,
                fresh : BOOLEAN, mesh : BOOLEAN]
    /\ env \in [nonces : 0..MaxJoins,
                workloads : 0..MaxWorkloads, faults : 0..MaxFaults]

Init ==
    /\ cmd = NoCommand
    /\ dir = [intent |-> 0, leaf |-> FALSE, receipt |-> None]
    /\ mac \in [plists : {{}}, loaded : {{}}, rootDir : {"absent"}, helper : {FALSE},
                rootPlist : {FALSE}, rootLoaded : {FALSE}, runtime : {"absent", "theirs"}]
    /\ k8s = [owner |-> None, dying |-> FALSE, objects |-> {}, link |-> FALSE,
              used |-> FALSE, fresh |-> FALSE, mesh |-> FALSE]
    /\ env = [nonces |-> 0, workloads |-> 0, faults |-> 0]

----------------------------------------------------------------------------
(* The end of a command.                                                   *)

\* The command is killed, or the Mac loses power.  Only the claim of the
\* runtime root and its removal are left half way: a directory without its
\* marker, a marker that is not complete, contents without their marker.
Crash ==
    /\ ~Idle
    /\ Fault
    /\ Return
    /\ \/ UNCHANGED mac
       \/ /\ At("claim") /\ mac.runtime \in {"absent", "empty"}
          /\ \E r \in {"empty", "torn"} : mac' = [mac EXCEPT !.runtime = r]
       \/ /\ cmd.at \in {"removeRuntime", "undoRuntime"} /\ mac.runtime = "ours"
          /\ mac' = [mac EXCEPT !.runtime = "torn"]
    /\ UNCHANGED <<dir, k8s>>

\* Ctrl-C cancels the context; the command goes on until a call notices.
Interrupt ==
    /\ ~Idle /\ ~cmd.cancelled
    /\ Fault
    /\ cmd' = [cmd EXCEPT !.cancelled = TRUE]
    /\ UNCHANGED <<dir, mac, k8s>>

----------------------------------------------------------------------------
(* join: the cluster-wide parts.                                           *)

\* HasReceipt refuses a Mac whose services were installed.
JoinBegin(link, projected) ==
    /\ Idle
    /\ dir.receipt = None
    /\ cmd' = [NoCommand EXCEPT !.op = "join", !.link = link, !.projected = projected,
                                !.at = IF link = "wirekube" THEN "wirekube" ELSE "native"]
    /\ UNCHANGED <<dir, mac, k8s, env>>

\* What is applied next; each is a server-side apply of manifests that may
\* have been applied before, stays in the cluster and is not looked at again.
afterApply(what) ==
    CASE what = "native" -> IF cmd.projected THEN "projection" ELSE "catalog"
      [] what = "projection" -> "catalog"
      [] what = "catalog" -> "intent"

\* The mesh is installed when it is missing and the user agrees.
ensureWireKubeForJoin ==
    /\ At("wirekube")
    /\ \/ Works /\ k8s' = [k8s EXCEPT !.mesh = TRUE] /\ Goto("native")
       \/ Fails /\ Return /\ UNCHANGED k8s
       \/ ~k8s.mesh /\ Return /\ UNCHANGED <<k8s, env>>      \* declined
    /\ UNCHANGED <<dir, mac>>

\* install.Apply, ApplyProjection and ApplyCatalog: the CRDs, the roles and the
\* model catalog.
Apply(what) ==
    /\ At(what)
    /\ (Works /\ Goto(afterApply(what))) \/ (Fails /\ Return)
    /\ UNCHANGED <<dir, mac, k8s>>

----------------------------------------------------------------------------
(* join: enroll.Run.                                                       *)

\* An api-only join refuses the link state of an earlier one.  The nonce is
\* drawn once and kept: it marks everything in the cluster as this Mac's.
loadOrCreateIntent ==
    /\ At("intent")
    /\ \/ /\ cmd.link = "api-only" /\ dir.leaf
          /\ Return /\ UNCHANGED <<dir, env>>
       \/ /\ cmd.link = "api-only" => ~dir.leaf
          /\ dir.intent # 0
          /\ Goto("namespace") /\ UNCHANGED <<dir, env>>
       \/ /\ cmd.link = "api-only" => ~dir.leaf
          /\ dir.intent = 0 /\ env.nonces < MaxJoins
          /\ dir' = [dir EXCEPT !.intent = env.nonces + 1]
          /\ env' = [env EXCEPT !.nonces = @ + 1]
          /\ Goto("namespace")
    /\ UNCHANGED <<mac, k8s>>

ensureNamespace ==
    /\ At("namespace")
    /\ \/ /\ Works /\ k8s.owner = None
          /\ k8s' = [k8s EXCEPT !.owner = dir.intent] /\ Goto(Kinds[1])
       \/ /\ Works /\ k8s.owner = dir.intent
          /\ Goto(Kinds[1]) /\ UNCHANGED k8s
       \/ /\ Works /\ k8s.owner \notin {None, dir.intent}
          /\ Return /\ UNCHANGED k8s
       \/ /\ Fails /\ Return
          /\ \E made \in {FALSE, TRUE} :
               k8s' = IF made /\ k8s.owner = None
                      THEN [k8s EXCEPT !.owner = dir.intent] ELSE k8s
    /\ UNCHANGED <<dir, mac>>

\* ensureServiceAccount, ensureAgentRBAC, ensureHost, ensureFencingLease: an
\* object that exists carries the nonce of its namespace; a namespace that is
\* going away accepts no new one; whether it is going away is not looked at.
ensureObject(n) ==
    /\ At(Kinds[n])
    /\ \/ /\ Works /\ k8s.owner = dir.intent
          /\ k8s.dying => Kinds[n] \in k8s.objects
          /\ k8s' = [k8s EXCEPT !.objects = @ \cup {Kinds[n]}]
          /\ Goto(IF n < Len(Kinds) THEN Kinds[n + 1]
                  ELSE IF cmd.link = "wirekube" THEN "leaf" ELSE "tokens")
       \/ /\ \/ Fails
             \/ /\ UNCHANGED env
                /\ k8s.owner # dir.intent \/ (k8s.dying /\ Kinds[n] \notin k8s.objects)
          /\ Return /\ UNCHANGED k8s
    /\ UNCHANGED <<dir, mac>>

\* wirekube.Enroll: the leaf state comes first, then the peer and the claim; a
\* failure takes back what was created, as far as its calls get through.
enrollLeaf ==
    /\ At("leaf")
    /\ \/ /\ Works
          /\ dir' = [dir EXCEPT !.leaf = TRUE] /\ k8s' = [k8s EXCEPT !.link = TRUE]
          /\ Goto("bridge")
       \/ /\ Fails
          /\ \E l \in {k8s.link, TRUE}, state \in {dir.leaf, TRUE} :
               /\ l => state
               /\ k8s' = [k8s EXCEPT !.link = l] /\ dir' = [dir EXCEPT !.leaf = state]
          /\ Return
    /\ UNCHANGED mac

\* The cluster's client CA is saved for the logs bridge.
ensureClientCA ==
    /\ At("bridge")
    /\ (Works /\ Goto("serving")) \/ (Fails /\ Return)
    /\ UNCHANGED <<dir, mac, k8s>>

\* A serving certificate that is valid for more than a week, and fits its key,
\* is kept; another is signed by the cluster.
EnsureServingIdentity ==
    /\ At("serving")
    /\ \E next \in {"tokens", "csr"} : Goto(next)
    /\ UNCHANGED <<dir, mac, k8s, env>>

requestKubeletServingCertificate ==
    /\ At("csr")
    /\ (Works /\ Goto("tokens")) \/ (Fails /\ Return)
    /\ UNCHANGED <<dir, mac, k8s>>

\* The tokens of the controller and of the agent, and their kubeconfigs.
writeKubeconfigs ==
    /\ At("tokens")
    /\ \/ /\ Works /\ "account" \in k8s.objects /\ k8s.owner = dir.intent
          /\ Goto(IF cmd.projected THEN "projectionToken" ELSE "claim")
       \/ /\ Fails \/ (UNCHANGED env /\ "account" \notin k8s.objects)
          /\ Return
    /\ UNCHANGED <<dir, mac, k8s>>

\* The roll-back of a join runs under a context of its own.
Rollback == [cmd EXCEPT !.at = "remove", !.ret = "revokePartial",
                        !.failed = FALSE, !.cancelled = FALSE]

WriteServiceKubeconfig ==
    /\ At("projectionToken")
    /\ (Works /\ Goto("claim")) \/ (Fails /\ cmd' = Rollback)
    /\ UNCHANGED <<dir, mac, k8s>>

----------------------------------------------------------------------------
(* join: serviceinstall.Install.  From here on an error rolls the join     *)
(* back, after Install has cleaned up after itself: `Undone` is its         *)
(* deferred removal of the runtime root.                                   *)

Undone == [cmd EXCEPT !.at = "undoRuntime"]
RemoveThenUndo == [cmd EXCEPT !.at = "remove", !.ret = "undoRuntime"]
RemoveRootThenUndo == [cmd EXCEPT !.at = "removeRoot", !.ret = "rootOnly", !.errs = FALSE]

writeReceipt(phase, labels) == dir' = [dir EXCEPT !.receipt = Receipt(phase, labels)]
dropReceipt == dir' = [dir EXCEPT !.receipt = None]

\* A runtime root is taken when it is absent or empty, or marked as this
\* enrollment's; a failed claim leaves it as it was.
claimRuntimeRoot ==
    /\ At("claim")
    /\ \/ /\ mac.runtime \in {"absent", "empty", "ours"}
          /\ mac' = [mac EXCEPT !.runtime = "ours"]
          /\ Goto(IF cmd.link = "wirekube" THEN "plan" ELSE "record")
          /\ UNCHANGED env
       \/ /\ Fault \/ (UNCHANGED env /\ mac.runtime \in {"torn", "theirs"})
          /\ cmd' = Rollback /\ UNCHANGED mac
    /\ UNCHANGED <<dir, k8s>>

\* The receipt names the root service before anything of it exists.
planRoot ==
    /\ At("plan")
    /\ \/ /\ writeReceipt("planned", {})
          /\ cmd' = [cmd EXCEPT !.at = "test", !.phase = "planned"]
          /\ UNCHANGED env
       \/ Fault /\ cmd' = Undone /\ UNCHANGED dir
    /\ UNCHANGED <<mac, k8s>>

rootAbsent == mac.rootDir = "absent" /\ ~mac.helper /\ ~mac.rootPlist

\* The privileged artifacts of an earlier installation are not replaced.
testRoot ==
    /\ At("test")
    /\ \/ Works /\ rootAbsent /\ Goto("makeRoot") /\ UNCHANGED dir
       \/ /\ Fails \/ (UNCHANGED env /\ ~rootAbsent)
          /\ dropReceipt /\ cmd' = Undone
    /\ UNCHANGED <<mac, k8s>>

makeRootDirectory ==
    /\ At("makeRoot")
    /\ \/ Works /\ mac' = [mac EXCEPT !.rootDir = "empty"] /\ Goto("own") /\ UNCHANGED dir
       \/ Fails /\ dropReceipt /\ cmd' = Undone /\ UNCHANGED mac
    /\ UNCHANGED k8s

\* The ownership file; when it cannot be written the directory is removed
\* again, which a cancelled context does not allow.
writeOwnership ==
    /\ At("own")
    /\ \/ Works /\ mac' = [mac EXCEPT !.rootDir = "owned"] /\ Goto("recordOwned") /\ UNCHANGED dir
       \/ /\ Fails
          /\ mac' = IF cmd.cancelled THEN mac ELSE [mac EXCEPT !.rootDir = "absent"]
          /\ dropReceipt /\ cmd' = Undone
    /\ UNCHANGED k8s

recordOwned ==
    /\ At("recordOwned")
    /\ \/ /\ writeReceipt("owned", {})
          /\ cmd' = [cmd EXCEPT !.at = "rootState", !.phase = "owned"]
          /\ UNCHANGED env
       \/ Fault /\ cmd' = [RemoveRootThenUndo EXCEPT !.phase = "owned"] /\ UNCHANGED dir
    /\ UNCHANGED <<mac, k8s>>

\* The link's state and kubeconfig inside the directory, its helper, its
\* LaunchDaemon; then the daemon is started.
installRoot(step, next, result) ==
    /\ At(step)
    /\ \/ Works /\ mac' = result /\ Goto(next)
       \/ Fails /\ cmd' = RemoveThenUndo /\ UNCHANGED mac
    /\ UNCHANGED <<dir, k8s>>

InstallRoot ==
    \/ installRoot("rootState", "helper", mac)
    \/ installRoot("helper", "rootPlist", [mac EXCEPT !.helper = TRUE])
    \/ installRoot("rootPlist", "rootLoad", [mac EXCEPT !.rootPlist = TRUE])
    \/ installRoot("rootLoad", "record", [mac EXCEPT !.rootLoaded = TRUE])

recordRoot ==
    /\ At("record")
    /\ \/ writeReceipt(cmd.phase, {}) /\ Goto("label") /\ UNCHANGED env
       \/ Fault /\ cmd' = RemoveRootThenUndo /\ UNCHANGED dir
    /\ UNCHANGED <<mac, k8s>>

\* Mutated form of recordLabel: the receipt is written once, at the end.
recordLabelLast ==
    /\ At("label")
    /\ \/ /\ IF cmd.i <= Len(services)
             THEN /\ cmd' = [cmd EXCEPT !.at = "userPlist", !.labels = @ \cup {services[cmd.i]}]
                  /\ UNCHANGED dir
             ELSE Goto("ready") /\ writeReceipt(cmd.phase, cmd.labels)
          /\ UNCHANGED env
       \/ Fault /\ cmd' = RemoveThenUndo /\ UNCHANGED dir
    /\ UNCHANGED <<mac, k8s>>

\* A user service is recorded, then written, then started.
recordLabel ==
    /\ At("label")
    /\ \/ /\ IF cmd.i <= Len(services)
             THEN cmd' = [cmd EXCEPT !.at = "userPlist", !.labels = @ \cup {services[cmd.i]}]
             ELSE Goto("ready")
          /\ writeReceipt(cmd.phase, cmd'.labels)
          /\ UNCHANGED env
       \/ Fault /\ cmd' = RemoveThenUndo /\ UNCHANGED dir
    /\ UNCHANGED <<mac, k8s>>

writeUserPlist ==
    /\ At("userPlist")
    /\ \/ mac' = [mac EXCEPT !.plists = @ \cup {services[cmd.i]}] /\ Goto("userLoad") /\ UNCHANGED env
       \/ Fault /\ cmd' = RemoveThenUndo /\ UNCHANGED mac
    /\ UNCHANGED <<dir, k8s>>

bootstrapUser ==
    /\ At("userLoad")
    /\ \/ /\ Works
          /\ mac' = [mac EXCEPT !.loaded = @ \cup {services[cmd.i]}]
          /\ cmd' = [cmd EXCEPT !.at = "label", !.i = @ + 1]
       \/ Fails /\ cmd' = RemoveThenUndo /\ UNCHANGED mac
    /\ UNCHANGED <<dir, k8s>>

\* The services stay, whether the host becomes ready in time or not.
waitForHostReady == At("ready") /\ Return /\ UNCHANGED <<dir, mac, k8s, env>>

verifyRuntimeOwner == mac.runtime = "ours"

\* removeRuntimeRoot removes a root that carries this enrollment's marker.
\* A removal that fails may have taken the marker already.
removeRuntimeRoot(ok, failed) ==
    \/ /\ mac.runtime = "absent" \/ verifyRuntimeOwner
       /\ mac' = [mac EXCEPT !.runtime = "absent"] /\ cmd' = ok /\ UNCHANGED env
    \/ /\ mac.runtime # "absent" /\ ~verifyRuntimeOwner
       /\ cmd' = failed /\ UNCHANGED <<mac, env>>
    \/ /\ verifyRuntimeOwner /\ Fault
       /\ \E r \in {"ours", "torn"} : mac' = [mac EXCEPT !.runtime = r]
       /\ cmd' = failed

undoRuntime ==
    /\ At("undoRuntime")
    /\ removeRuntimeRoot(Rollback, Rollback)
    /\ UNCHANGED <<dir, k8s>>

----------------------------------------------------------------------------
(* serviceinstall.Remove, a part of roll-backs and of delete.              *)

\* Where Remove returns to: Install ignores its error, the roll-back notes
\* it, delete ends.
Removed(ok) ==
    CASE cmd.ret = "revokePartial" -> [cmd EXCEPT !.at = cmd.ret, !.failed = ~ok]
      [] cmd.ret = "reverify" /\ ~ok -> NoCommand
      [] OTHER -> [cmd EXCEPT !.at = cmd.ret]

\* The ownership file inside the root directory names this enrollment.
verifyRootReceipt == mac.rootDir = "owned"

\* No receipt, nothing to remove.  Before a user service is stopped, the
\* ownership of an installed root service is read back.
preflightRootRemoval ==
    LET rc == dir.receipt
        stop == [cmd EXCEPT !.at = "bootout", !.errs = FALSE,
                            !.phase = rc.phase, !.labels = rc.labels]
    IN /\ At("remove")
       /\ \/ rc = None /\ cmd' = Removed(TRUE) /\ UNCHANGED env
          \/ rc # None /\ rc.phase # "owned" /\ cmd' = stop /\ UNCHANGED env
          \/ rc # None /\ rc.phase = "owned" /\ verifyRootReceipt /\ Works /\ cmd' = stop
          \/ /\ rc # None /\ rc.phase = "owned"
             /\ Fails \/ (UNCHANGED env /\ ~verifyRootReceipt)
             /\ cmd' = Removed(FALSE)
       /\ UNCHANGED <<dir, mac, k8s>>

firstLabel == SelectSeq(<<"controller", "agent", "projection">>, LAMBDA l : l \in cmd.labels)[1]

\* Each user service is stopped and its file removed; errors are collected.
bootoutUser ==
    LET l == firstLabel
        rest == [cmd EXCEPT !.labels = @ \ {l}]
    IN /\ At("bootout") /\ cmd.labels # {}
       /\ \/ /\ Works
             /\ mac' = [mac EXCEPT !.loaded = @ \ {l}, !.plists = @ \ {l}]
             /\ cmd' = rest
          \/ /\ Fails
             /\ mac' = [mac EXCEPT !.plists = @ \ {l}]
             /\ cmd' = [rest EXCEPT !.errs = TRUE]
       /\ UNCHANGED <<dir, k8s>>

\* Where removeRoot returns to.
RootRemoved(errs) ==
    CASE cmd.ret = "rootOnly" -> Undone
      [] cmd.ret # "rootOnly" /\ errs -> Removed(FALSE)
      [] OTHER -> [cmd EXCEPT !.at = "removeRuntime"]

\* cleanUnownedRootPlan removes a directory that is not ours yet when it is
\* all there is and it has no contents.
cleanable == mac.rootDir # "owned" /\ ~mac.helper /\ ~mac.rootPlist

removeRoot ==
    /\ At("removeRoot") \/ (At("bootout") /\ cmd.labels = {})
    /\ \/ cmd.phase = "none" /\ cmd' = RootRemoved(cmd.errs) /\ UNCHANGED <<mac, env>>
       \/ /\ cmd.phase # "none" /\ verifyRootReceipt /\ Works
          /\ Goto("rootBootout") /\ UNCHANGED mac
       \/ /\ cmd.phase = "planned" /\ cleanable /\ Works
          /\ mac' = [mac EXCEPT !.rootDir = "absent"] /\ cmd' = RootRemoved(cmd.errs)
       \/ /\ cmd.phase # "none"
          /\ \/ Fails
             \/ UNCHANGED env /\ ~verifyRootReceipt /\ (cmd.phase = "owned" \/ ~cleanable)
          /\ cmd' = RootRemoved(TRUE) /\ UNCHANGED mac
    /\ UNCHANGED <<dir, k8s>>

\* The daemon is stopped, its files removed, then its directory; each is
\* tried whatever became of the one before.
dismantle(step, result, next) ==
    /\ At(step)
    /\ \/ Works /\ mac' = result /\ cmd' = [cmd EXCEPT !.at = next]
       \/ Fails /\ UNCHANGED mac /\ cmd' = [cmd EXCEPT !.at = next, !.errs = TRUE]
    /\ UNCHANGED <<dir, k8s>>

DismantleRoot ==
    \/ dismantle("rootBootout", [mac EXCEPT !.rootLoaded = FALSE], "rootFiles")
    \/ dismantle("rootFiles", [mac EXCEPT !.helper = FALSE, !.rootPlist = FALSE], "rootTree")
    \/ dismantle("rootTree", [mac EXCEPT !.rootDir = "absent"], "rootGone")

rootGone ==
    /\ At("rootGone")
    /\ cmd' = RootRemoved(cmd.errs)
    /\ UNCHANGED <<dir, mac, k8s, env>>

removeRuntime ==
    /\ At("removeRuntime")
    /\ removeRuntimeRoot([cmd EXCEPT !.at = "dropReceipt"], Removed(FALSE))
    /\ UNCHANGED <<dir, k8s>>

\* The receipt goes last.
removeReceipt ==
    /\ At("dropReceipt")
    /\ \/ dropReceipt /\ cmd' = Removed(TRUE) /\ UNCHANGED env
       \/ Fault /\ cmd' = Removed(FALSE) /\ UNCHANGED dir
    /\ UNCHANGED <<mac, k8s>>

----------------------------------------------------------------------------
(* rollbackJoin.                                                           *)

\* wirekube.Revoke takes the peer and the claim away and then the leaf state.
\* Only delete refuses while the link daemon runs.
Revoke(next, refused) ==
    \/ ~dir.leaf /\ cmd' = next /\ UNCHANGED <<dir, k8s, env>>
    \/ /\ dir.leaf /\ Works /\ (cmd.op = "delete" => ~mac.rootLoaded)
       /\ dir' = [dir EXCEPT !.leaf = FALSE] /\ k8s' = [k8s EXCEPT !.link = FALSE]
       /\ cmd' = next
    \/ /\ dir.leaf
       /\ \/ Fails /\ \E l \in {k8s.link, FALSE} : k8s' = [k8s EXCEPT !.link = l]
          \/ cmd.op = "delete" /\ mac.rootLoaded /\ UNCHANGED <<k8s, env>>
       /\ cmd' = refused /\ UNCHANGED dir

revokePartial ==
    /\ At("revokePartial")
    /\ LET next == [cmd EXCEPT !.at = "deletePartial"]
       IN Revoke(next, [next EXCEPT !.failed = TRUE])
    /\ UNCHANGED mac

\* Deleting the namespace starts its termination; its absence is no error.
namespaceDeleted == IF k8s.owner = None THEN k8s ELSE [k8s EXCEPT !.dying = TRUE]

\* The namespace is deleted even when the services could not be removed; the
\* state directory is kept then.
deletePartial ==
    /\ At("deletePartial")
    /\ \/ /\ Works /\ k8s' = namespaceDeleted
          /\ IF cmd.failed THEN Return ELSE Goto("removeAll")
       \/ Fails /\ Return /\ UNCHANGED k8s
    /\ UNCHANGED <<dir, mac>>

removeAll ==
    /\ At("removeAll")
    /\ dir' = [intent |-> 0, leaf |-> FALSE, receipt |-> None]
    /\ Return
    /\ UNCHANGED <<mac, k8s, env>>

----------------------------------------------------------------------------
(* delete host.                                                            *)

\* IdentityFromState.
DeleteBegin ==
    /\ Idle /\ dir.intent # 0
    /\ cmd' = [NoCommand EXCEPT !.op = "delete", !.at = "verify"]
    /\ UNCHANGED <<dir, mac, k8s, env>>

namespaceOwnedByEnrollment == k8s.owner = dir.intent

\* The namespace must be there and carry this enrollment's nonce, before the
\* services are removed and again after the user typed a password.
verifyNamespace(step, next) ==
    /\ At(step)
    /\ \/ Works /\ namespaceOwnedByEnrollment /\ Goto(next)
       \/ Works /\ ~namespaceOwnedByEnrollment /\ Return
       \/ Fails /\ Return
    /\ UNCHANGED <<dir, mac, k8s>>

\* No workload is assigned to the host, none is being cleaned up there.
ensureHostUnused(step, next) ==
    /\ At(step)
    /\ \/ Works /\ ~k8s.used /\ cmd' = next
       \/ Works /\ k8s.used /\ Return
       \/ Fails /\ Return
    /\ UNCHANGED <<dir, mac, k8s>>

VerifyDelete ==
    \/ verifyNamespace("verify", "unused")
    \/ ensureHostUnused("unused", [cmd EXCEPT !.at = "remove", !.ret = "reverify"])
    \/ verifyNamespace("reverify", "reunused")
    \/ ensureHostUnused("reunused", [cmd EXCEPT !.at = "revoke"])

revokeLink ==
    /\ At("revoke")
    /\ Revoke([cmd EXCEPT !.at = "deleteNamespace"], NoCommand)
    /\ UNCHANGED mac

deleteNamespace ==
    /\ At("deleteNamespace")
    /\ \/ Works /\ k8s' = namespaceDeleted /\ Goto("waitGone")
       \/ Fails /\ Return /\ UNCHANGED k8s
    /\ UNCHANGED <<dir, mac>>

\* The wait ends with the namespace, or in a time-out.
waitGone ==
    /\ At("waitGone")
    /\ \/ Works /\ k8s.owner = None /\ Goto("removeAll")
       \/ UNCHANGED env /\ k8s.owner # None /\ Return
       \/ Fails /\ Return
    /\ UNCHANGED <<dir, mac, k8s>>

----------------------------------------------------------------------------
(* The cluster, the other Macs and the user.                               *)

\* A terminating namespace loses its objects one by one, then itself, and
\* with it the assignment of a workload that was scheduled meanwhile.
NamespaceController ==
    /\ k8s.dying
    /\ \/ \E o \in k8s.objects : k8s' = [k8s EXCEPT !.objects = @ \ {o}]
       \/ /\ k8s.objects = {}
          /\ k8s' = [k8s EXCEPT !.owner = None, !.dying = FALSE, !.used = FALSE, !.fresh = FALSE]
    /\ UNCHANGED <<cmd, dir, mac, env>>

\* Another Mac joins under the same name, and leaves again.
OtherMac ==
    /\ \/ k8s.owner = None /\ k8s' = [k8s EXCEPT !.owner = Other]
       \/ k8s.owner = Other /\ ~k8s.dying /\ k8s' = [k8s EXCEPT !.dying = TRUE]
    /\ UNCHANGED <<cmd, dir, mac, env>>

agentServes == "agent" \in mac.loaded /\ "host" \in k8s.objects /\ k8s.owner = dir.intent

\* The agent keeps the host's heartbeat fresh; without it the heartbeat ages.
Heartbeat ==
    /\ k8s' = [k8s EXCEPT !.fresh = agentServes]
    /\ UNCHANGED <<cmd, dir, mac, env>>

\* A controller assigns a workload to a host whose heartbeat is fresh; the
\* workload leaves when the agent has stopped it.
Schedule ==
    /\ \/ /\ ~k8s.used /\ k8s.fresh /\ ~k8s.dying /\ env.workloads < MaxWorkloads
          /\ k8s' = [k8s EXCEPT !.used = TRUE]
          /\ env' = [env EXCEPT !.workloads = @ + 1]
       \/ k8s.used /\ agentServes /\ k8s' = [k8s EXCEPT !.used = FALSE] /\ UNCHANGED env
    /\ UNCHANGED <<cmd, dir, mac>>

Work ==
    \/ ensureWireKubeForJoin
    \/ \E what \in Manifests : Apply(what)
    \/ loadOrCreateIntent \/ ensureNamespace
    \/ \E n \in 1..Len(Kinds) : ensureObject(n)
    \/ enrollLeaf \/ ensureClientCA \/ EnsureServingIdentity \/ requestKubeletServingCertificate
    \/ writeKubeconfigs \/ WriteServiceKubeconfig
    \/ claimRuntimeRoot \/ planRoot \/ testRoot \/ makeRootDirectory
    \/ writeOwnership \/ recordOwned \/ InstallRoot \/ recordRoot
    \/ recordLabel \/ writeUserPlist \/ bootstrapUser \/ waitForHostReady
    \/ undoRuntime
    \/ preflightRootRemoval \/ bootoutUser \/ removeRoot \/ DismantleRoot
    \/ rootGone \/ removeRuntime \/ removeReceipt
    \/ revokePartial \/ deletePartial \/ removeAll
    \/ VerifyDelete \/ revokeLink \/ deleteNamespace \/ waitGone

Commands ==
    \/ \E link \in Links, projected \in BOOLEAN : JoinBegin(link, projected)
    \/ DeleteBegin

Surroundings == NamespaceController \/ OtherMac \/ Heartbeat \/ Schedule

Next == Work \/ Commands \/ Surroundings \/ Crash \/ Interrupt

Spec == Init /\ [][Next]_vars

----------------------------------------------------------------------------
(* Properties.                                                             *)

\* Every launchd job and job file of the host is named in the receipt, through
\* every failure, interrupt and death of a join, a roll-back or a delete: a
\* service that runs can be found and removed again.
NoUnrecordedService ==
    /\ mac.plists \cup mac.loaded # {} =>
         dir.receipt # None /\ mac.plists \cup mac.loaded \subseteq dir.receipt.labels
    /\ mac.helper \/ mac.rootPlist \/ mac.rootLoaded =>
         dir.receipt # None /\ dir.receipt.phase # "none"

\* What `delete host` needs to find to remove the services the receipt names.
removable ==
    /\ namespaceOwnedByEnrollment
    /\ dir.receipt.phase = "owned" => mac.rootDir = "owned"
    /\ mac.runtime \in {"absent", "ours"}

\* The services of a Mac can always be removed by `delete host`: the refusal of
\* a second join names it as the way out, and the troubleshooting guide tells
\* the user not to remove launchd files in any other way.
DeleteHostWorks == Idle /\ dir.receipt # None => removable
=============================================================================
