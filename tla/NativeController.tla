-------------------------- MODULE NativeController --------------------------
(***************************************************************************)
(* The Native controller (internal/native/controller/reconciler.go): a     *)
(* cycle that lists the workloads once and then brings each of them a step *)
(* further - finalizer, scheduling intent, assignment, reference to it,    *)
(* reflected status, and for a deleted one stop, deletion and removal of   *)
(* the finalizer - and at the end gives each server its endpoint           *)
(* (serving.go).  Every call to the API server is an action of its own:    *)
(* users, agents, failures and, while leadership overlaps, another         *)
(* controller come between any two.                                        *)
(*                                                                         *)
(* A controller acts on the copies it listed.  An update from a copy is    *)
(* refused when the object has changed since it was read: "current" holds  *)
(* the workloads whose copy is up to date.                                 *)
(***************************************************************************)
EXTENDS Naturals, Sequences, FiniteSets, FiniteSetsExt

CONSTANTS
    Controllers,    \* controller processes that hold, or believe to hold, leadership
    Kind,           \* per workload: "server" or "finite"; listed in this order
    Hosts,          \* hosts, each with a namespace and one mailbox
    NoHost,
    MaxEpoch,       \* bound: fencing epochs allocated per host
    MaxUid,         \* bound: assignment objects created
    MaxFaults       \* bound: failed calls and controller restarts

ASSUME ControllerAssumption ==
    /\ Kind \in Seq({"server", "finite"}) /\ Len(Kind) > 0
    /\ NoHost \notin Hosts
    /\ MaxEpoch \in Nat /\ MaxUid \in Nat /\ MaxFaults \in Nat

Workloads == DOMAIN Kind

Finite(w) == Kind[w] = "finite"

Assignments == (1..MaxUid) \X Workloads

VARIABLES
    workload,       \* per workload: the object in the API server
    mailbox,        \* per host: the assignment object "active"
    epoch,          \* per host: the last fencing epoch allocated
    offered,        \* history, per host: the assignments created, each a UID and a workload
    stray,          \* history: those created when the API server no longer held their intent
    endpoint,       \* the workloads with an EndpointSlice
    ended,          \* history, per host: its assignment has been reported finished
    ctl,            \* per controller: its place in the cycle and what it has read
    faults          \* how many calls have failed

vars == <<workload, mailbox, epoch, offered, stray, endpoint, ended, ctl, faults>>

Phases == {"none", "Scheduling", "Assigned", "Blocked", "Running", "Succeeded", "Failed",
           "Fenced", "Stopped"}

\* The phases an agent reports while its assignment is to run.  "Blocked"
\* stands for those that are neither running nor final.
Reports == {"Blocked", "Running", "Succeeded", "Failed"}

\* Its state, finalizer, generation, scheduling intent (host and epoch), the
\* UID of its assignment reference (0 for none) and phase.
Workload == [state : {"none", "live", "deleting", "gone"}, finalizer : BOOLEAN, gen : 1..2,
             host : Hosts \cup {NoHost}, epoch : 0..MaxEpoch, ref : 0..MaxUid, phase : Phases]

NewWorkload == [state |-> "none", finalizer |-> FALSE, gen |-> 1, host |-> NoHost,
                epoch |-> 0, ref |-> 0, phase |-> "none"]

Mailbox == [uid : 0..MaxUid, w : Workloads \cup {0}, gen : 0..2, epoch : 0..MaxEpoch,
            stop : BOOLEAN, phase : Phases, ack : BOOLEAN]

Absent == [uid |-> 0, w |-> 0, gen |-> 0, epoch |-> 0, stop |-> FALSE, phase |-> "none",
           ack |-> FALSE]

\* cycle.hosts before the hosts have been listed.
Unloaded == Hosts \cup {NoHost}

\* The workload at turn, the listed copies and which are up to date, the hosts
\* taken for eligible, the host and epoch picked, and a copy of a mailbox.
Cycle == [at : {"idle", "visit", "select", "allocate", "intend", "mailbox", "create", "refer",
                "archive", "reclaim", "wait", "reflect", "copy", "deleting", "stop", "delete",
                "cleanup", "finalize", "serve", "probe", "publish", "unserve", "ready"},
          turn : 0..Len(Kind), listed : [Workloads -> Workload],
          current : SUBSET Workloads, hosts : {Unloaded} \cup SUBSET Hosts,
          host : Hosts \cup {NoHost}, epoch : 0..MaxEpoch, read : Mailbox]

Idle == [at |-> "idle", turn |-> 0, listed |-> [w \in Workloads |-> NewWorkload],
         current |-> {}, hosts |-> Unloaded, host |-> NoHost, epoch |-> 0, read |-> Absent]

TypeOK ==
    /\ workload \in [Workloads -> Workload]
    /\ mailbox \in [Hosts -> Mailbox]
    /\ epoch \in [Hosts -> 0..MaxEpoch]
    /\ offered \in [Hosts -> SUBSET Assignments] /\ stray \subseteq Assignments
    /\ endpoint \subseteq {w \in Workloads : ~Finite(w)}
    /\ ended \in [Hosts -> BOOLEAN]
    /\ ctl \in [Controllers -> Cycle]
    /\ faults \in 0..MaxFaults

Init ==
    /\ workload = [w \in Workloads |-> NewWorkload]
    /\ mailbox = [h \in Hosts |-> Absent] /\ epoch = [h \in Hosts |-> 0]
    /\ offered = [h \in Hosts |-> {}] /\ stray = {} /\ endpoint = {}
    /\ ended = [h \in Hosts |-> FALSE]
    /\ ctl = [c \in Controllers |-> Idle]
    /\ faults = 0

Outdated(s, ws) == [s EXCEPT !.current = s.current \ ws]

-----------------------------------------------------------------------------
(* Users and agents.                                                       *)

UserWrites(w, new) ==
    /\ workload' = [workload EXCEPT ![w] = new]
    /\ ctl' = [c \in Controllers |-> Outdated(ctl[c], {w})]
    /\ UNCHANGED <<mailbox, epoch, offered, stray, endpoint, ended, faults>>

CreateWorkload(w) ==
    /\ workload[w].state = "none"
    /\ UserWrites(w, [NewWorkload EXCEPT !.state = "live"])

\* Without a finalizer the object goes at once; with one it is marked, which
\* the API server counts as a new generation.
DeleteWorkload(w) ==
    /\ workload[w].state = "live"
    /\ UserWrites(w, IF workload[w].finalizer
                     THEN [workload[w] EXCEPT !.state = "deleting",
                                                !.gen = 2]
                     ELSE [NewWorkload EXCEPT !.state = "gone"])

\* The agent side of HostMailbox.
AgentReports(h, phase) ==
    /\ mailbox[h] # Absent /\ ~mailbox[h].stop
    /\ phase = "Succeeded" => Finite(mailbox[h].w)
    /\ mailbox' = [mailbox EXCEPT ![h].phase = phase]
    /\ ended' = [ended EXCEPT ![h] = ended[h] \/ (phase \in {"Succeeded", "Failed"}
                                                   /\ Finite(mailbox[h].w))]
    /\ UNCHANGED <<workload, epoch, offered, stray, endpoint, ctl, faults>>

AgentAcknowledges(h) ==
    /\ mailbox[h] # Absent /\ mailbox[h].stop
    /\ mailbox' = [mailbox EXCEPT ![h].phase = "Stopped", ![h].ack = TRUE]
    /\ UNCHANGED <<workload, epoch, offered, stray, endpoint, ended, ctl, faults>>

-----------------------------------------------------------------------------
(* The cycle.  s is the controller's state, s.listed[s.turn] its copy of   *)
(* the workload it is working on.                                          *)

Listed(s) == s.listed[s.turn]

\* The controller goes on in state new, having written the workloads ws.
Move(c, new, ws) ==
    ctl' = [d \in Controllers |-> Outdated(IF d = c THEN new ELSE ctl[d], ws)]

\* The servers listed, which get their endpoint at the end of the cycle.
servingWorkloads(s) ==
    {w \in Workloads : ~Finite(w) /\ s.listed[w].state \in {"live", "deleting"}}

Serving == {"serve", "probe", "publish", "unserve", "ready"}

\* The workload is done with, for better or worse: on to the next one.
Done(s) ==
    LET rest == {w \in servingWorkloads(s) : s.at \in Serving => w > s.turn}
    IN  IF s.at \notin Serving /\ s.turn < Len(Kind)
        THEN [s EXCEPT !.at = "visit", !.turn = s.turn + 1, !.host = NoHost, !.epoch = 0,
                       !.read = Absent]
        ELSE IF rest # {}
        THEN [Idle EXCEPT !.at = "serve", !.turn = Min(rest), !.listed = s.listed]
        ELSE Idle

Go(s, place) == [s EXCEPT !.at = place]

\* Mutated form: the update is sent without a resourceVersion.
updateUnconditional(c, s, new) ==
    /\ workload' = [workload EXCEPT ![s.turn] = new]
    /\ Move(c, Done(s), {s.turn})

\* updateWorkload from the listed copy, as the last thing done for it.
updateWorkload(c, s, new) ==
    /\ s.turn \in s.current
    /\ workload' = [workload EXCEPT ![s.turn] = new]
    /\ Move(c, Done(s), {s.turn})

\* ReconcileOnce lists the workloads.
ReconcileOnce(c) ==
    /\ ctl[c].at = "idle"
    /\ Move(c, [Idle EXCEPT !.at = "visit", !.turn = 1, !.listed = workload,
                            !.current = Workloads], {})
    /\ UNCHANGED <<workload, mailbox, epoch, offered, stray, endpoint, ended, faults>>

terminalFiniteWorkload(w, o) == Finite(w) /\ o.phase \in {"Succeeded", "Failed"}

\* Mutated form: the scheduling intent is not looked at.
unreferenced(o) == o.ref = 0

\* A deleted workload with neither reference nor intent has no assignment.
unassigned(o) == o.ref = 0 /\ o.host = NoHost

\* Before the finalizer is removed a server's endpoint is.
finalizing(s) == IF Finite(s.turn) THEN "finalize" ELSE "cleanup"

\* reconcileWorkloadWithCycle, on the listed copy.
reconcileWorkload(c) ==
    LET s == ctl[c]
        o == Listed(s)
    IN  /\ s.at = "visit"
        /\ \/ /\ \/ o.state \in {"none", "gone"}
                 \/ o.state = "live" /\ o.finalizer /\ terminalFiniteWorkload(s.turn, o)
              /\ Move(c, Done(s), {})
              /\ UNCHANGED workload
           \/ /\ o.state = "live" /\ ~o.finalizer
              /\ updateWorkload(c, s, [o EXCEPT !.finalizer = TRUE])
           \/ /\ o.state = "live" /\ o.finalizer /\ ~terminalFiniteWorkload(s.turn, o)
              /\ Move(c, Go(s, IF o.ref # 0 THEN "reflect"
                               ELSE IF o.host = NoHost THEN "select" ELSE "mailbox"), {})
              /\ UNCHANGED workload
           \/ /\ o.state = "deleting"
              /\ Move(c, Go(s, IF unassigned(o) THEN finalizing(s) ELSE "deleting"), {})
              /\ UNCHANGED workload
        /\ UNCHANGED <<mailbox, epoch, offered, stray, endpoint, ended, faults>>

\* hostList and SelectHost: the hosts are listed once per cycle, and which of
\* them are eligible for this workload is left open.
SelectHost(c) ==
    LET s == ctl[c]
    IN  /\ s.at = "select"
        /\ \E hs \in IF s.hosts = Unloaded THEN SUBSET Hosts ELSE {s.hosts} :
              \/ Move(c, [s EXCEPT !.at = "wait", !.hosts = hs], {})
              \/ \E h \in hs :
                    Move(c, [s EXCEPT !.at = "allocate", !.hosts = hs, !.host = h], {})
        /\ UNCHANGED <<workload, mailbox, epoch, offered, stray, endpoint, ended, faults>>

\* PlanAssignment: whether the host is still eligible is left open.  If not the
\* workload is given up for this cycle, or marked waiting if its own
\* specification is at fault.
PlanAssignment(s, place) == {Go(s, place), Go(s, "wait"), Done(s)}

\* Mutated form: the last epoch is taken for a usable predecessor.
exhaustedLate(h) == epoch[h] > MaxEpoch

\* No epoch is left for the host.
exhausted(h) == epoch[h] >= MaxEpoch

\* fencing.Allocate: a fresh epoch (see FencingAllocator), used or not.
Allocate(c) ==
    LET s == ctl[c]
    IN  /\ s.at = "allocate"
        /\ \/ /\ ~exhausted(s.host)
              /\ epoch' = [epoch EXCEPT ![s.host] = epoch[s.host] + 1]
              /\ \E next \in PlanAssignment([s EXCEPT !.epoch = epoch[s.host] + 1], "intend") :
                    Move(c, next, {})
           \/ /\ exhausted(s.host)
              /\ Move(c, Done(s), {})
              /\ UNCHANGED epoch
        /\ UNCHANGED <<workload, mailbox, offered, stray, endpoint, ended, faults>>

\* persistSchedulingIntent, and reserveHost for the rest of the cycle.
persistSchedulingIntent(c) ==
    LET s == ctl[c]
    IN  /\ s.at = "intend"
        /\ updateWorkload(c, [s EXCEPT !.hosts = s.hosts \ {s.host}],
                          [Listed(s) EXCEPT !.host = s.host, !.epoch = s.epoch,
                                            !.phase = "Scheduling"])
        /\ UNCHANGED <<mailbox, epoch, offered, stray, endpoint, ended, faults>>

\* validateAssignmentIdentity
validateAssignmentIdentity(s, m) ==
    m.w = s.turn /\ m.gen = Listed(s).gen /\ m.epoch = Listed(s).epoch

\* Mutated form: a server's assignment counts as well.
terminalAny(m) == ~m.stop /\ m.phase \in {"Succeeded", "Failed"}

\* terminalAssignment
terminalAssignment(m) == ~m.stop /\ m.phase \in {"Succeeded", "Failed"} /\ Finite(m.w)

\* createAssignmentFromIntent reads the mailbox of the intended host.
GetMailbox(c) ==
    LET s == ctl[c]
        m == mailbox[Listed(s).host]
    IN  /\ s.at = "mailbox"
        /\ \/ /\ m = Absent
              /\ \E next \in PlanAssignment(s, "create") : Move(c, next, {})
           \/ /\ m # Absent /\ validateAssignmentIdentity(s, m)
              /\ Move(c, [s EXCEPT !.at = "refer", !.read = m], {})
           \/ /\ m # Absent /\ m.w # s.turn /\ terminalAssignment(m)
              /\ Move(c, [s EXCEPT !.at = "archive", !.read = m], {})
           \/ /\ m # Absent /\ m.w # s.turn /\ ~terminalAssignment(m)
              /\ Move(c, Go(s, "wait"), {})
        /\ UNCHANGED <<workload, mailbox, epoch, offered, stray, endpoint, ended, faults>>

\* The intent the controller acts on is still the workload's.
intended(s) == /\ workload[s.turn].host = Listed(s).host
               /\ workload[s.turn].epoch = Listed(s).epoch

\* The assignment is created; one that exists by now must be the intended one.
CreateAssignment(c) ==
    LET s == ctl[c]
        o == Listed(s)
        uids == Cardinality(UNION {offered[h] : h \in Hosts})
        new == [uid |-> uids + 1, w |-> s.turn, gen |-> o.gen, epoch |-> o.epoch,
                stop |-> FALSE, phase |-> "none", ack |-> FALSE]
    IN  /\ s.at = "create"
        /\ \/ /\ mailbox[o.host] = Absent /\ uids < MaxUid
              /\ mailbox' = [mailbox EXCEPT ![o.host] = new]
              /\ offered' = [offered EXCEPT ![o.host] = @ \cup {<<new.uid, new.w>>}]
              /\ stray' = IF intended(s) THEN stray ELSE stray \cup {<<new.uid, new.w>>}
              /\ Move(c, [s EXCEPT !.at = "refer", !.read = new], {})
           \/ /\ mailbox[o.host] # Absent
              /\ IF validateAssignmentIdentity(s, mailbox[o.host])
                 THEN Move(c, [s EXCEPT !.at = "refer", !.read = mailbox[o.host]], {})
                 ELSE Move(c, Done(s), {})
              /\ UNCHANGED <<mailbox, offered, stray>>
           \/ /\ mailbox[o.host] = Absent /\ uids = MaxUid
              /\ Move(c, Done(s), {})
              /\ UNCHANGED <<mailbox, offered, stray>>
        /\ UNCHANGED <<workload, epoch, endpoint, ended, faults>>

persistAssignmentReference(c) ==
    LET s == ctl[c]
    IN  /\ s.at = "refer"
        /\ updateWorkload(c, s, [Listed(s) EXCEPT !.ref = s.read.uid, !.phase = "Assigned"])
        /\ UNCHANGED <<mailbox, epoch, offered, stray, endpoint, ended, faults>>

\* Mutated form: the owner keeps its state.
NotArchived(c) ==
    LET s == ctl[c]
    IN  /\ s.at = "archive"
        /\ Move(c, Go(s, IF workload[s.read.w].state = "deleting" THEN "wait" ELSE "reclaim"), {})
        /\ UNCHANGED <<workload, mailbox, epoch, offered, stray, endpoint, ended, faults>>

\* reclaimTerminalMailbox archives the completed status in the workload that
\* owns the mailbox, unless that is gone; one being deleted keeps its mailbox.
ArchiveOwner(c) ==
    LET s == ctl[c]
        o == workload[s.read.w]
    IN  /\ s.at = "archive"
        /\ \/ /\ o.state = "gone"
              /\ Move(c, Go(s, "reclaim"), {})
              /\ UNCHANGED workload
           \/ /\ o.state = "deleting"
              /\ Move(c, Go(s, "wait"), {})
              /\ UNCHANGED workload
           \/ /\ o.state = "live"
              /\ workload' = [workload EXCEPT ![s.read.w] =
                                [o EXCEPT !.phase = s.read.phase, !.host = NoHost,
                                          !.epoch = 0, !.ref = 0]]
              /\ Move(c, Go(s, "reclaim"), {s.read.w})
        /\ UNCHANGED <<mailbox, epoch, offered, stray, endpoint, ended, faults>>

\* The UID precondition of a deletion; nothing there is as good as deleted.
sameObject(m, read) == m = Absent \/ m.uid = read.uid

DeleteBox(h) ==
    /\ mailbox' = [mailbox EXCEPT ![h] = Absent]
    /\ ended' = [ended EXCEPT ![h] = FALSE]

\* Then the mailbox is deleted, if it is still the same object.
ReclaimMailbox(c) ==
    LET s == ctl[c]
        h == Listed(s).host
    IN  /\ s.at = "reclaim"
        /\ \/ /\ sameObject(mailbox[h], s.read)
              /\ DeleteBox(h)
              /\ Move(c, Go(s, "wait"), {})
           \/ /\ ~sameObject(mailbox[h], s.read)
              /\ Move(c, Done(s), {})
              /\ UNCHANGED <<mailbox, ended>>
        /\ UNCHANGED <<workload, epoch, offered, stray, endpoint, faults>>

\* markWorkloadWaiting
markWorkloadWaiting(c) ==
    LET s == ctl[c]
    IN  /\ s.at = "wait"
        /\ updateWorkload(c, s, [Listed(s) EXCEPT !.phase = "Scheduling"])
        /\ UNCHANGED <<mailbox, epoch, offered, stray, endpoint, ended, faults>>

\* reflectAssignment reads the referenced assignment.
GetAssignment(c) ==
    LET s == ctl[c]
        o == Listed(s)
        m == mailbox[o.host]
    IN  /\ s.at = "reflect"
        /\ \/ /\ m # Absent /\ m.uid = o.ref /\ m.w = s.turn /\ m.gen = o.gen
              /\ Move(c, [s EXCEPT !.at = "copy", !.read = m], {})
           \/ /\ m = Absent \/ m.uid # o.ref \/ m.w # s.turn \/ m.gen # o.gen
              /\ Move(c, Done(s), {})
        /\ UNCHANGED <<workload, mailbox, epoch, offered, stray, endpoint, ended, faults>>

\* assignmentPhase: Fenced when the heartbeat is stale.
assignmentPhase(m) ==
    (IF m.stop THEN {} ELSE {"Fenced"})
        \cup {IF m.phase = "none" /\ ~m.stop THEN "Assigned" ELSE m.phase}

\* It copies the phase to the workload.
reflectAssignment(c) ==
    LET s == ctl[c]
    IN  /\ s.at = "copy"
        /\ \E phase \in assignmentPhase(s.read) :
              updateWorkload(c, s, [Listed(s) EXCEPT !.phase = phase])
        /\ UNCHANGED <<mailbox, epoch, offered, stray, endpoint, ended, faults>>

\* Mutated form: a requested stop is taken for an acknowledged one.
stopRequestedOnly(m) == m.stop

\* ValidateStopAcknowledgement
ValidateStopAcknowledgement(m) == m.stop /\ m.ack

\* Mutated form: a referenced mailbox must match the intent, too.
ownIntended(s, m) == validateAssignmentIdentity(s, m)

\* The mailbox is the workload's own, as its reference or else its intent says.
own(s, m) == IF Listed(s).ref # 0 THEN m.w = s.turn /\ m.uid = Listed(s).ref
             ELSE validateAssignmentIdentity(s, m)

\* reconcileDeleting reads the mailbox and decides what is left to do.
reconcileDeleting(c) ==
    LET s == ctl[c]
        m == mailbox[Listed(s).host]
    IN  /\ s.at = "deleting"
        /\ \/ /\ m = Absent \/ m.w # s.turn
              /\ Move(c, Go(s, finalizing(s)), {})
           \/ /\ m # Absent /\ m.w = s.turn /\ ~own(s, m)
              /\ Move(c, Done(s), {})
           \/ /\ m # Absent /\ own(s, m) /\ ~m.stop
              /\ Move(c, [s EXCEPT !.at = "stop", !.read = m], {})
           \/ /\ m # Absent /\ own(s, m) /\ ValidateStopAcknowledgement(m)
              /\ Move(c, [s EXCEPT !.at = "delete", !.read = m], {})
           \/ /\ m # Absent /\ own(s, m) /\ m.stop /\ ~ValidateStopAcknowledgement(m)
              /\ Move(c, Done(s), {})
        /\ UNCHANGED <<workload, mailbox, epoch, offered, stray, endpoint, ended, faults>>

\* The desired state is set to Stopped, unless the assignment has changed: the
\* agent's next heartbeat is enough for that.
RequestStop(c) ==
    LET s == ctl[c]
        h == Listed(s).host
    IN  /\ s.at = "stop"
        /\ \/ mailbox[h] = s.read /\ mailbox' = [mailbox EXCEPT ![h].stop = TRUE]
           \/ UNCHANGED mailbox
        /\ Move(c, Done(s), {})
        /\ UNCHANGED <<workload, epoch, offered, stray, endpoint, ended, faults>>

\* The stopped assignment is deleted.
DeleteAssignment(c) ==
    LET s == ctl[c]
        h == Listed(s).host
    IN  /\ s.at = "delete"
        /\ \/ /\ sameObject(mailbox[h], s.read)
              /\ DeleteBox(h)
              /\ Move(c, Go(s, finalizing(s)), {})
           \/ /\ ~sameObject(mailbox[h], s.read)
              /\ Move(c, Done(s), {})
              /\ UNCHANGED <<mailbox, ended>>
        /\ UNCHANGED <<workload, epoch, offered, stray, endpoint, faults>>

\* cleanupServingResources
cleanupServingResources(c) ==
    /\ ctl[c].at = "cleanup"
    /\ endpoint' = endpoint \ {ctl[c].turn}
    /\ Move(c, Go(ctl[c], "finalize"), {})
    /\ UNCHANGED <<workload, mailbox, epoch, offered, stray, ended, faults>>

\* removeFinalizer, upon which the object goes.
removeFinalizer(c) ==
    LET s == ctl[c]
    IN  /\ s.at = "finalize"
        /\ updateWorkload(c, s, [NewWorkload EXCEPT !.state = "gone"])
        /\ UNCHANGED <<mailbox, epoch, offered, stray, endpoint, ended, faults>>

-----------------------------------------------------------------------------
(* The end of the cycle: endpoints.                                        *)

\* The workload is read again; one that is gone is passed over.
RefreshServing(c) ==
    LET s == ctl[c]
        o == workload[s.turn]
        fresh == [s EXCEPT !.listed[s.turn] = o, !.current = {s.turn}]
    IN  /\ s.at = "serve"
        /\ \/ o.state = "gone" /\ Move(c, Done(s), {})
           \/ /\ o.state \in {"live", "deleting"}
              /\ Move(c, Go(fresh, IF o.state = "deleting" \/ o.ref = 0 THEN "unserve"
                                   ELSE "probe"), {})
        /\ UNCHANGED <<workload, mailbox, epoch, offered, stray, endpoint, ended, faults>>

\* reconcileServingEndpoint: the assignment must be the referenced one and
\* running; whether the Service, the heartbeat, the host and its address are
\* in order is left open.
reconcileServingEndpoint(c) ==
    LET s == ctl[c]
        m == mailbox[Listed(s).host]
    IN  /\ s.at = "probe"
        /\ \/ /\ m.uid = Listed(s).ref /\ m.w = s.turn /\ ~m.stop /\ m.phase = "Running"
              /\ Move(c, Go(s, "publish"), {})
           \/ Move(c, Go(s, "unserve"), {})
        /\ UNCHANGED <<workload, mailbox, epoch, offered, stray, endpoint, ended, faults>>

ensureServingEndpoint(c) ==
    /\ ctl[c].at = "publish"
    /\ endpoint' = endpoint \cup {ctl[c].turn}
    /\ Move(c, Go(ctl[c], "ready"), {})
    /\ UNCHANGED <<workload, mailbox, epoch, offered, stray, ended, faults>>

deleteServingEndpoint(c) ==
    /\ ctl[c].at = "unserve"
    /\ endpoint' = endpoint \ {ctl[c].turn}
    /\ Move(c, Go(ctl[c], "ready"), {})
    /\ UNCHANGED <<workload, mailbox, epoch, offered, stray, ended, faults>>

\* updateServingReadyCondition writes a condition, which is not modelled, but
\* the object has changed.
updateServingReadyCondition(c) ==
    LET s == ctl[c]
        o == Listed(s)
    IN  /\ s.at = "ready"
        /\ \/ /\ o.state = "live" /\ o.ref # 0
              /\ updateWorkload(c, s, o)
           \/ /\ o.state = "deleting" \/ o.ref = 0
              /\ Move(c, Done(s), {})
              /\ UNCHANGED workload
        /\ UNCHANGED <<mailbox, epoch, offered, stray, endpoint, ended, faults>>

-----------------------------------------------------------------------------
(* Conflicts and failures.                                                 *)

\* The controller is about to update the workload from its copy.
updating(s) ==
    \/ s.at \in {"intend", "refer", "wait", "copy", "finalize"}
    \/ s.at = "visit" /\ Listed(s).state = "live" /\ ~Listed(s).finalizer
    \/ s.at = "ready" /\ Listed(s).state = "live" /\ Listed(s).ref # 0

\* An update is refused because the listed copy is out of date.
Conflict(c) ==
    LET s == ctl[c]
    IN  /\ updating(s)
        /\ s.turn \notin s.current
        /\ Move(c, Done(s), {})
        /\ UNCHANGED <<workload, mailbox, epoch, offered, stray, endpoint, ended, faults>>

\* A call fails with nothing done.  One that was carried out and whose answer
\* was lost is the call, followed by the failure of the next one.
CallFails(c) ==
    LET s == ctl[c]
    IN  /\ s.at \notin {"idle", "visit", "ready"} \/ updating(s)
        /\ faults < MaxFaults
        /\ faults' = faults + 1
        /\ Move(c, Done(s), {})
        /\ UNCHANGED <<workload, mailbox, epoch, offered, stray, endpoint, ended>>

\* The controller dies; another one starts from the API server's state.
Crash(c) ==
    /\ ctl[c].at # "idle"
    /\ faults < MaxFaults
    /\ faults' = faults + 1
    /\ Move(c, Idle, {})
    /\ UNCHANGED <<workload, mailbox, epoch, offered, stray, endpoint, ended>>

Step(c) ==
    \/ ReconcileOnce(c) \/ reconcileWorkload(c)
    \/ SelectHost(c) \/ Allocate(c) \/ persistSchedulingIntent(c)
    \/ GetMailbox(c) \/ CreateAssignment(c) \/ persistAssignmentReference(c)
    \/ ArchiveOwner(c) \/ ReclaimMailbox(c) \/ markWorkloadWaiting(c)
    \/ GetAssignment(c) \/ reflectAssignment(c)
    \/ reconcileDeleting(c) \/ RequestStop(c) \/ DeleteAssignment(c)
    \/ cleanupServingResources(c) \/ removeFinalizer(c)
    \/ RefreshServing(c) \/ reconcileServingEndpoint(c) \/ ensureServingEndpoint(c)
    \/ deleteServingEndpoint(c) \/ updateServingReadyCondition(c)
    \/ Conflict(c)

Agent(h) == AgentAcknowledges(h) \/ \E phase \in Reports : AgentReports(h, phase)

Next ==
    \/ \E c \in Controllers : Step(c) \/ CallFails(c) \/ Crash(c)
    \/ \E h \in Hosts : Agent(h)
    \/ \E w \in Workloads : CreateWorkload(w) \/ DeleteWorkload(w)

Spec == Init /\ [][Next]_vars

\* The controller's cycle goes on and agents answer a stop request.  An agent
\* that keeps writing its heartbeat cannot make every stop request conflict.
Fairness ==
    /\ \A c \in Controllers : WF_vars(Step(c))
    /\ \A c \in Controllers :
          SF_vars(RequestStop(c) /\ mailbox' # mailbox)
    /\ \A h \in Hosts : WF_vars(AgentAcknowledges(h))

FairSpec == Spec /\ Fairness

-----------------------------------------------------------------------------
(* Properties.                                                             *)

\* A workload never has assignments on two hosts: the intent pins the host
\* before the first one is created, and outlives it.
OneHostPerWorkload ==
    \A h, i \in Hosts : mailbox[h] # Absent /\ mailbox[h].w = mailbox[i].w => h = i

\* Every mailbox follows the contract of HostMailbox: it is overwritten by no
\* second assignment, and emptied only after an acknowledged stop or after
\* the run in it was reported finished, however the copies the controller
\* acts on have aged.
Contract(h) == INSTANCE HostMailbox
                 WITH Ids <- Assignments,
                      FiniteIds <- {a \in Assignments : Finite(a[2])},
                      box <- IF mailbox[h] = Absent THEN Absent
                             ELSE [id |-> <<mailbox[h].uid, mailbox[h].w>>,
                                   stop |-> mailbox[h].stop, phase |-> mailbox[h].phase,
                                   ack |-> mailbox[h].ack],
                      offered <- offered[h],
                      ended <- ended[h]

ContractStep ==
    \A h \in Hosts : UNCHANGED Contract(h)!boxVars \/ Contract(h)!MailboxNext

KeepsContract ==
    /\ \A h \in Hosts : Contract(h)!MailboxInit
    /\ [][ContractStep]_vars

\* A finite workload gets one assignment, stray ones aside: neither a failed
\* update of its reference, a restarted cycle nor the reclaiming of its
\* mailbox starts it a second time.
FiniteRunsOnce ==
    \A w \in Workloads : Finite(w) =>
        Cardinality({a \in (UNION {offered[h] : h \in Hosts}) \ stray : a[2] = w}) <= 1

\* When a workload is gone no host holds an unfinished run of it, stray ones
\* aside: its finalizer outlives the assignment, whether the reference was
\* written or only the intent, and whenever the deletion comes.  (A finished
\* run's mailbox may stay, archived, if reclaiming it failed.)  Its endpoint is
\* gone as well: traffic is not sent to a host that has another run.
GoneMeansFinished ==
    \A w \in Workloads : workload[w].state = "gone" =>
        /\ w \notin endpoint
        /\ \A h \in Hosts :
              mailbox[h].w = w => ended[h] \/ <<mailbox[h].uid, w>> \in stray

\* A deleted workload goes away if it had a reference or no intent yet.
ReferencedDeletionCompletes ==
    \A w \in Workloads :
        (/\ workload[w].state = "deleting"
         /\ workload[w].ref # 0 \/ workload[w].host = NoHost) ~> (workload[w].state = "gone")

\* Any deleted workload goes away: a stop is requested "for assignment
\* discovered from scheduling intent" (reconciler_test.go).
DeletionCompletes ==
    \A w \in Workloads : (workload[w].state = "deleting") ~> (workload[w].state = "gone")

\* types.go: the intent "is durably written with resourceVersion CAS before the
\* controller creates an Assignment".  An assignment is created only while the
\* API server holds the intent it is created from.
CreatedFromIntent == stray = {}
=============================================================================
