---------------------------- MODULE PodProjection ----------------------------
(***************************************************************************)
(* The projection controller (internal/native/projection): every native    *)
(* assignment is shown as a short-lived Node and Pod.  A leader lists the  *)
(* assignments, then goes through them one API call at a time: it makes    *)
(* and updates the Pod and the Node of each, probes the logs endpoint,     *)
(* removes the projection of an assignment whose stop is acknowledged, and *)
(* at the end collects projections of assignments that were not listed.    *)
(* The list and the collector's lists are stale by the time they are used. *)
(* A leader that slept may go on for a while beside its successor.         *)
(***************************************************************************)
EXTENDS Naturals, FiniteSets

CONSTANTS
    Controllers,    \* processes that may lead
    Assignments,    \* assignment UIDs; one name per UID (refForUID)
    MaxFaults,      \* bound on failed calls, crashes, overlaps and edits
    NotYet, Gone,   \* an assignment before and after it exists
    None

VARIABLES
    api,    \* assignments, hosts, Pods and Nodes in the API server
    ctl,    \* where each controller is in ReconcileOnce
    env     \* faults so far, and whether two leaders overlapped

vars == <<api, ctl, env>>

AssignmentPhases == {"Preparing", "Running", "Succeeded", "Failed", "Fenced"}
PodPhases == {"Pending", "Running", "Succeeded", "Failed"}

Assignment == [desired : {"Running", "Stopped"}, acked : BOOLEAN,
               phase : AssignmentPhases, server : BOOLEAN, garbled : BOOLEAN]

Pod == [uid : Nat, phase : PodPhases, logs : BOOLEAN, contract : BOOLEAN]
Node == [uid : Nat, ready : {"True", "False", "Unknown"}, logs : BOOLEAN,
         address : BOOLEAN, contract : BOOLEAN]

(* snap is the listed assignments still to go through, state what the      *)
(* current one is shown as, logs whether its logs are offered.             *)
Idle == [at |-> "idle", snap |-> [a \in Assignments |-> Gone], active |-> {},
         collect |-> TRUE, cur |-> None, state |-> None, logs |-> FALSE,
         seen |-> None, listed |-> {}, blocked |-> {}]

Steps == {"idle", "each", "pod", "node", "nodeStatus", "probe", "podAgain", "nodeAgain",
          "nodeStatusAgain", "readPod", "patchPod", "dropPod", "dropNode",
          "listPods", "collectPods", "listNodes", "collectNodes"}

TypeOK ==
    /\ api \in [assignments : [Assignments -> Assignment \cup {NotYet, Gone}],
                workload : [Assignments -> BOOLEAN],
                uids : Nat,
                pods : [Assignments -> Pod \cup {None}],
                nodes : [Assignments -> Node \cup {None}]]
    /\ \A c \in Controllers :
          /\ ctl[c].at \in Steps
          /\ ctl[c].snap \in [Assignments -> Assignment \cup {Gone}]
          /\ ctl[c].active \subseteq Assignments
          /\ ctl[c].cur \in Assignments \cup {None}
          /\ ctl[c].seen \in PodPhases \cup {None}
          /\ ctl[c].blocked \subseteq Assignments
    /\ env \in [faults : 0..MaxFaults, overlapped : BOOLEAN]

Init ==
    /\ api = [assignments |-> [a \in Assignments |-> NotYet],
              workload |-> [a \in Assignments |-> TRUE],
              uids |-> 0,
              pods |-> [a \in Assignments |-> None], nodes |-> [a \in Assignments |-> None]]
    /\ ctl = [c \in Controllers |-> Idle]
    /\ env = [faults |-> 0, overlapped |-> FALSE]

-----------------------------------------------------------------------------
(* What an assignment is shown as                                          *)

Live(a) == api.assignments[a] \notin {NotYet, Gone}

Fault ==
    /\ env.faults < MaxFaults
    /\ env' = [env EXCEPT !.faults = @ + 1]

terminalPodPhase(phase) == phase \in {"Succeeded", "Failed"}

State(podPhase, nodeStatus) == [podPhase |-> podPhase, nodeStatus |-> nodeStatus]

(* The heartbeat may be found fresh or stale at any time.                  *)
heartbeatStale == BOOLEAN

stateFor(assignment, stale) ==
    CASE assignment.desired = "Stopped" -> State("Pending", "False")
      [] assignment.desired = "Running" /\ assignment.phase = "Succeeded" ->
            State("Succeeded", "False")
      [] assignment.desired = "Running" /\ assignment.phase = "Failed" ->
            State(IF assignment.server THEN "Pending" ELSE "Failed", "False")
      [] assignment.desired = "Running" /\ ~terminalPodPhase(assignment.phase) ->
            CASE stale -> State("Pending", "Unknown")
              [] ~stale /\ assignment.phase = "Running" -> State("Running", "True")
              [] ~stale /\ assignment.phase = "Fenced"  -> State("Pending", "Unknown")
              [] OTHER -> State("Pending", "False")

(* ValidateStopAcknowledgement: the agent acknowledged this exact stop.    *)
projectionComplete(assignment) == assignment.desired = "Stopped" /\ assignment.acked

(* The host may be found connected, with a fresh heartbeat and one IPv4    *)
(* address, or not.                                                        *)
connectedKubeletAddress == BOOLEAN

(* The Pod and the Node the controller makes, and what it accepts of ones  *)
(* it finds: its own, in either log state, and nothing edited beyond that. *)
managedPod(uid, logs) ==
    [uid |-> uid, phase |-> "Pending", logs |-> logs, contract |-> TRUE]

managedNode(uid, logs) ==
    [uid |-> uid, ready |-> "Unknown", logs |-> logs, address |-> FALSE, contract |-> TRUE]

validateManagedPod(pod) == pod.contract

validateManagedNode(node) == node.contract

-----------------------------------------------------------------------------
(* ReconcileOnce                                                           *)

Cur(c) == ctl[c].cur
Go(c, at) == ctl' = [ctl EXCEPT ![c].at = at]

(* The error of one assignment is kept and the loop goes on.               *)
NextAssignment(c) ==
    ctl' = [ctl EXCEPT ![c].at = "each", ![c].cur = None, ![c].state = None,
                       ![c].logs = FALSE, ![c].seen = None]

ListAssignments(c) ==
    /\ ctl[c].at = "idle"
    /\ IF \E d \in Controllers \ {c} : ctl[d].at # "idle"
       THEN /\ env.faults < MaxFaults
            /\ env' = [env EXCEPT !.faults = @ + 1, !.overlapped = TRUE]
       ELSE UNCHANGED env
    /\ ctl' = [ctl EXCEPT ![c].at = "each", ![c].snap =
                 [a \in Assignments |-> IF Live(a) THEN api.assignments[a] ELSE Gone]]
    /\ UNCHANGED api

(* The next listed assignment, and the list without it.                    *)
Takes(c, a) == ctl[c].at = "each" /\ ctl[c].snap[a] # Gone
Taken(c, a) == [ctl[c] EXCEPT !.snap[a] = Gone]

\* Mutated form: what cannot be decoded is passed over.
SkipUndecodableCollecting(c, a) ==
    /\ Takes(c, a) /\ ctl[c].snap[a].garbled
    /\ ctl' = [ctl EXCEPT ![c] = Taken(c, a)]
    /\ UNCHANGED <<api, env>>

(* An item that cannot be decoded is not among the active ones, so nothing *)
(* may be collected in this round.                                         *)
SkipUndecodable(c, a) ==
    /\ Takes(c, a) /\ ctl[c].snap[a].garbled
    /\ ctl' = [ctl EXCEPT ![c] = [Taken(c, a) EXCEPT !.collect = FALSE]]
    /\ UNCHANGED <<api, env>>

DropCompleted(c, a) ==
    /\ Takes(c, a) /\ ~ctl[c].snap[a].garbled
    /\ projectionComplete(ctl[c].snap[a])
    /\ ctl' = [ctl EXCEPT ![c] = [Taken(c, a) EXCEPT !.cur = a, !.at = "dropPod"]]
    /\ UNCHANGED <<api, env>>

getWorkload(a) == api.workload[a]

(* The host is read with its connectivity; a failed read of it or of the   *)
(* workload keeps the projection and ends this assignment's round.         *)
Resolve(c, a) ==
    /\ Takes(c, a) /\ ~ctl[c].snap[a].garbled
    /\ ~projectionComplete(ctl[c].snap[a])
    /\ LET considered == [Taken(c, a) EXCEPT !.active = @ \cup {a}] IN
       \/ /\ getWorkload(a)
          /\ \E logs \in connectedKubeletAddress, stale \in heartbeatStale :
                ctl' = [ctl EXCEPT ![c] =
                   [considered EXCEPT !.cur = a, !.at = "pod", !.logs = logs,
                                      !.state = stateFor(ctl[c].snap[a], stale)]]
          /\ UNCHANGED env
       \/ /\ ctl' = [ctl EXCEPT ![c] = considered]
          /\ IF getWorkload(a) THEN Fault ELSE UNCHANGED env
    /\ UNCHANGED api

(* Get, validate, and create or update: the update carries the             *)
(* resourceVersion read and a create meets what was created first.         *)
ensurePod(a, logs) ==
    LET pod == api.pods[a] IN
    IF pod = None
    THEN api' = [api EXCEPT !.pods[a] = managedPod(api.uids + 1, logs), !.uids = @ + 1]
    ELSE api' = [api EXCEPT !.pods[a].logs = logs]

EnsurePod(c) ==
    /\ ctl[c].at \in {"pod", "podAgain"}
    /\ LET a == Cur(c)
           again == ctl[c].at = "podAgain"
       IN  IF api.pods[a] # None /\ ~validateManagedPod(api.pods[a])
           THEN NextAssignment(c) /\ UNCHANGED <<api, env>>
           ELSE \/ /\ ensurePod(a, ctl[c].logs)
                   /\ Go(c, IF again THEN "nodeAgain" ELSE "node")
                   /\ UNCHANGED env
                \/ Fault /\ NextAssignment(c) /\ UNCHANGED api

ensureNode(a, logs) ==
    LET node == api.nodes[a] IN
    IF node = None
    THEN api' = [api EXCEPT !.nodes[a] = managedNode(api.uids + 1, logs), !.uids = @ + 1]
    ELSE api' = [api EXCEPT !.nodes[a].logs = logs]

EnsureNode(c) ==
    /\ ctl[c].at \in {"node", "nodeAgain"}
    /\ LET a == Cur(c)
           again == ctl[c].at = "nodeAgain"
       IN  IF api.nodes[a] # None /\ ~validateManagedNode(api.nodes[a])
           THEN NextAssignment(c) /\ UNCHANGED <<api, env>>
           ELSE \/ /\ ensureNode(a, ctl[c].logs)
                   /\ Go(c, IF again THEN "nodeStatusAgain" ELSE "nodeStatus")
                   /\ UNCHANGED env
                \/ Fault /\ NextAssignment(c) /\ UNCHANGED api

(* Get and UpdateStatus, tried again on a conflict; the address is shown   *)
(* only with logs.                                                         *)
updateNodeStatus(c) ==
    /\ ctl[c].at \in {"nodeStatus", "nodeStatusAgain"}
    /\ LET a == Cur(c)
           again == ctl[c].at = "nodeStatusAgain"
       IN  IF api.nodes[a] = None
           THEN NextAssignment(c) /\ UNCHANGED api
           ELSE /\ api' = [api EXCEPT !.nodes[a].ready = ctl[c].state.nodeStatus,
                                      !.nodes[a].address = ctl[c].logs]
                /\ Go(c, IF again THEN "readPod" ELSE "probe")
    /\ UNCHANGED env

(* A one-line log request through the API server, after the address is     *)
(* published; when it fails what was published is taken back.              *)
probeLogs(c) ==
    /\ ctl[c].at = "probe"
    /\ \/ Go(c, "readPod")
       \/ ctl[c].logs /\ ctl' = [ctl EXCEPT ![c].logs = FALSE, ![c].at = "podAgain"]
    /\ UNCHANGED <<api, env>>

(* updatePodStatus reads the Pod, leaves a terminal one alone, and patches *)
(* the status without a resourceVersion.                                   *)
ReadPod(c) ==
    /\ ctl[c].at = "readPod"
    /\ LET pod == api.pods[Cur(c)] IN
       IF pod = None \/ (pod # None /\ terminalPodPhase(pod.phase))
       THEN NextAssignment(c)
       ELSE ctl' = [ctl EXCEPT ![c].seen = pod.phase, ![c].at = "patchPod"]
    /\ UNCHANGED <<api, env>>

\* Mutated form: the phase is patched to what the assignment says.
phasePatched(seen, state) == state.podPhase

(* A running Pod is not shown pending again while its host is unreachable, *)
(* its server restarts or its stop is under way.                           *)
patchedPhase(seen, state) ==
    IF seen = "Running" /\ state.podPhase = "Pending" THEN "Running" ELSE state.podPhase

(* The API server refuses to take a terminated container back to running   *)
(* or waiting under restartPolicy Never.                                   *)
admitsStatus(pod, phase) == terminalPodPhase(pod.phase) => terminalPodPhase(phase)

PatchPod(c) ==
    /\ ctl[c].at = "patchPod"
    /\ LET pod == api.pods[Cur(c)]
           phase == patchedPhase(ctl[c].seen, ctl[c].state)
       IN  api' = IF pod # None /\ admitsStatus(pod, phase)
                  THEN [api EXCEPT !.pods[Cur(c)].phase = phase]
                  ELSE api
    /\ NextAssignment(c)
    /\ UNCHANGED env

(* deleteProjection: both are tried, whatever the first one returns.       *)
deleteManagedPod(c) ==
    /\ ctl[c].at = "dropPod"
    /\ LET a == Cur(c) IN
       \/ /\ IF api.pods[a] # None /\ validateManagedPod(api.pods[a])
             THEN api' = [api EXCEPT !.pods[a] = None] ELSE UNCHANGED api
          /\ UNCHANGED env
       \/ Fault /\ UNCHANGED api
    /\ Go(c, "dropNode")

deleteManagedNode(c) ==
    /\ ctl[c].at = "dropNode"
    /\ LET a == Cur(c) IN
       \/ /\ IF api.nodes[a] # None /\ validateManagedNode(api.nodes[a])
             THEN api' = [api EXCEPT !.nodes[a] = None] ELSE UNCHANGED api
          /\ UNCHANGED env
       \/ Fault /\ UNCHANGED api
    /\ NextAssignment(c)

-----------------------------------------------------------------------------
(* garbageCollect                                                          *)

ListPods(c) ==
    /\ ctl[c].at = "each" /\ \A a \in Assignments : ctl[c].snap[a] = Gone
    /\ IF ctl[c].collect
       THEN ctl' = [ctl EXCEPT ![c].at = "collectPods",
                ![c].listed = {<<a, api.pods[a].uid>> :
                                  a \in {b \in Assignments : api.pods[b] # None}}]
       ELSE ctl' = [ctl EXCEPT ![c] = Idle]
    /\ UNCHANGED <<api, env>>

(* A Pod that is not of an active assignment is deleted, by UID; one out   *)
(* of contract, or that cannot be deleted, keeps its Node.                 *)
CollectPod(c) ==
    /\ ctl[c].at = "collectPods"
    /\ \E item \in ctl[c].listed :
          LET a == item[1]
              rest == [ctl EXCEPT ![c].listed = @ \ {item}]
              keep == [rest EXCEPT ![c].blocked = @ \cup {a}]
              pod == api.pods[a]
          IN  IF a \in ctl[c].active
              THEN ctl' = rest /\ UNCHANGED <<api, env>>
              ELSE IF pod # None /\ ~validateManagedPod(pod)
              THEN ctl' = keep /\ UNCHANGED <<api, env>>
              ELSE \/ /\ IF pod # None /\ pod.uid = item[2]
                         THEN api' = [api EXCEPT !.pods[a] = None] /\ ctl' = rest
                         ELSE /\ UNCHANGED api
                              /\ ctl' = IF pod = None THEN rest ELSE keep
                      /\ UNCHANGED env
                   \/ Fault /\ ctl' = keep /\ UNCHANGED api

ListNodes(c) ==
    /\ ctl[c].at = "collectPods" /\ ctl[c].listed = {}
    /\ ctl' = [ctl EXCEPT ![c].at = "collectNodes",
             ![c].listed = {<<a, api.nodes[a].uid>> :
                               a \in {b \in Assignments : api.nodes[b] # None}}]
    /\ UNCHANGED <<api, env>>

CollectNode(c) ==
    /\ ctl[c].at = "collectNodes"
    /\ \E item \in ctl[c].listed :
          LET a == item[1]
              node == api.nodes[a]
              mine == /\ a \notin ctl[c].active \cup ctl[c].blocked
                      /\ node # None /\ node.uid = item[2] /\ validateManagedNode(node)
          IN  /\ ctl' = [ctl EXCEPT ![c].listed = @ \ {item}]
              /\ \/ /\ api' = IF mine THEN [api EXCEPT !.nodes[a] = None] ELSE api
                    /\ UNCHANGED env
                 \/ mine /\ Fault /\ UNCHANGED api

EndRound(c) ==
    /\ ctl[c].at = "collectNodes" /\ ctl[c].listed = {}
    /\ ctl' = [ctl EXCEPT ![c] = Idle]
    /\ UNCHANGED <<api, env>>

-----------------------------------------------------------------------------
(* Outside the controller                                                  *)

(* The process ends, or loses the lease and is cancelled, between calls.   *)
Crash(c) ==
    /\ ctl[c].at # "idle"
    /\ Fault
    /\ ctl' = [ctl EXCEPT ![c] = Idle]
    /\ UNCHANGED api

Outside == UNCHANGED <<ctl, env>>

Assign(a) ==
    /\ api.assignments[a] = NotYet
    /\ \E server \in BOOLEAN : api' = [api EXCEPT !.assignments[a] =
          [desired |-> "Running", acked |-> FALSE,
           phase |-> "Preparing", server |-> server, garbled |-> FALSE]]
    /\ Outside

(* The agent reports a phase.                                              *)
Report(a) ==
    /\ Live(a) /\ ~terminalPodPhase(api.assignments[a].phase)
    /\ \E phase \in AssignmentPhases \ {"Preparing"} :
          api' = [api EXCEPT !.assignments[a].phase = phase]
    /\ Outside

(* A failed server is started again by its agent.                          *)
Restart(a) ==
    /\ Live(a) /\ api.assignments[a].server /\ api.assignments[a].phase = "Failed"
    /\ api' = [api EXCEPT !.assignments[a].phase = "Preparing"]
    /\ Outside

RequestStop(a) ==
    /\ Live(a) /\ api.assignments[a].desired = "Running"
    /\ api' = [api EXCEPT !.assignments[a].desired = "Stopped"]
    /\ Outside

AcknowledgeStop(a) ==
    /\ Live(a) /\ api.assignments[a].desired = "Stopped"
    /\ api' = [api EXCEPT !.assignments[a].acked = TRUE]
    /\ Outside

(* Once stopped, the assignment and then its workload go away.             *)
DeleteAssignment(a) ==
    /\ Live(a) /\ api.assignments[a].acked
    /\ api' = [api EXCEPT !.assignments[a] = Gone]
    /\ Outside

DeleteWorkload(a) ==
    /\ api.assignments[a] = Gone /\ api.workload[a]
    /\ api' = [api EXCEPT !.workload[a] = FALSE]
    /\ Outside

(* A newer release writes a field this one does not know.                  *)
Garble(a) ==
    /\ Live(a) /\ ~api.assignments[a].garbled
    /\ Fault
    /\ api' = [api EXCEPT !.assignments[a].garbled = TRUE]
    /\ UNCHANGED ctl

(* An eviction, the Pod collector or a user removes the Pod.               *)
RemovePod(a) ==
    /\ api.pods[a] # None
    /\ Fault
    /\ api' = [api EXCEPT !.pods[a] = None]
    /\ UNCHANGED ctl

(* Somebody edits the Pod or the Node beyond what the controller accepts.  *)
Edit(a) ==
    /\ Fault
    /\ \/ api.pods[a] # None /\ api' = [api EXCEPT !.pods[a].contract = FALSE]
       \/ api.nodes[a] # None /\ api' = [api EXCEPT !.nodes[a].contract = FALSE]
    /\ UNCHANGED ctl

Reconcile(c) ==
    \/ ListAssignments(c)
    \/ \E a \in Assignments : SkipUndecodable(c, a) \/ DropCompleted(c, a) \/ Resolve(c, a)
    \/ EnsurePod(c) \/ EnsureNode(c) \/ updateNodeStatus(c) \/ probeLogs(c)
    \/ ReadPod(c) \/ PatchPod(c) \/ deleteManagedPod(c) \/ deleteManagedNode(c)
    \/ ListPods(c) \/ CollectPod(c) \/ ListNodes(c) \/ CollectNode(c) \/ EndRound(c)

Next ==
    \/ \E c \in Controllers : Reconcile(c) \/ Crash(c)
    \/ \E a \in Assignments :
          \/ Assign(a) \/ Report(a) \/ Restart(a) \/ RequestStop(a) \/ AcknowledgeStop(a)
          \/ DeleteAssignment(a) \/ DeleteWorkload(a) \/ Garble(a) \/ RemovePod(a) \/ Edit(a)

Spec == Init /\ [][Next]_vars

-----------------------------------------------------------------------------
(* The assignment no longer needs to be seen.                              *)
Over(a) ==
    \/ api.assignments[a] = Gone
    \/ Live(a) /\ api.assignments[a].desired = "Stopped" /\ api.assignments[a].acked

(* A leader that is alone removes the Node or the Pod of an assignment     *)
(* only when the assignment is gone or its stop is acknowledged, although  *)
(* it decides by a list that is a whole round old, some items of which it  *)
(* may have been unable to read.                                           *)
RemovesOnlyOver ==
    \A a \in Assignments :
        /\ \/ api.pods[a] # None /\ api'.pods[a] = None
           \/ api.nodes[a] # None /\ api'.nodes[a] = None
        /\ ~env.overlapped'
        /\ \E c \in Controllers : Reconcile(c)
        => Over(a)

ProjectionOutlivesRun == [][RemovesOnlyOver]_vars

(* A Pod's phase never goes back: what ended stays ended even with two     *)
(* leaders, and what ran is not shown pending again by a leader that is    *)
(* alone, whatever heartbeats are missed and servers restarted.            *)
PhaseAdvances ==
    \A a \in Assignments :
        LET pod == api.pods[a]
            now == api'.pods[a]
        IN  pod # None /\ now # None /\ pod.uid = now.uid =>
              /\ terminalPodPhase(pod.phase) => now.phase = pod.phase
              /\ pod.phase = "Running" /\ ~env.overlapped' => now.phase # "Pending"

PhaseNeverRegresses == [][PhaseAdvances]_vars

=============================================================================
