----------------------------- MODULE NativeAgent -----------------------------
(***************************************************************************)
(* The Native host agent (internal/native/agent/devagent.go): a polling    *)
(* loop that makes the processes of one host follow the single assignment  *)
(* mailbox in its namespace, a watchdog goroutine that kills the process   *)
(* when the API server has been silent for too long, and the journal that  *)
(* lets a restarted agent find what its predecessor started.               *)
(*                                                                         *)
(* An assignment is named by its fencing epoch, a process by the number of *)
(* the run that spawned it, which also stands for the run's nonce.  The    *)
(* loop is a program counter; each action is the code between two points   *)
(* at which the mailbox, the processes or the journal are touched.         *)
(***************************************************************************)
EXTENDS Naturals, Sequences

CONSTANTS
    Kind,           \* per assignment: "server", "batch" (inference) or "job" (shell, training)
    MaxRuns,        \* bound: processes started in a behaviour
    MaxFaults,      \* bound: crashes, failed calls and kills, reused PIDs in a behaviour
    CreateInOrder   \* whether the controller creates mailboxes in epoch order

ASSUME AgentAssumption ==
    /\ Kind \in Seq({"server", "batch", "job"})
    /\ MaxRuns \in Nat
    /\ MaxFaults \in Nat
    /\ CreateInOrder \in BOOLEAN

Assignments == DOMAIN Kind
Runs == 1..MaxRuns

VARIABLES
    mailbox,        \* the assignment object "active" in the API server, or Absent
    used,           \* the assignments created so far
    ended,          \* history: the assignment in the mailbox has been reported finished
    hostActive,     \* ActiveAssignmentUID in the host's status, 0 when empty
    proc,           \* per run: "none", "live" or "gone", the process group it spawned
    owner,          \* per run: the assignment it was started for
    reused,         \* the PID in the journal now names some other program's process
    jdisk,          \* the journal on disk
    jmem,           \* the journal in the agent's memory
    pc,             \* where the agent is; "down" when no agent runs
    goal,           \* why it is stopping or publishing
    out,            \* the phase it is about to publish
    snap,           \* its copy of the mailbox
    fresh,          \* whether the copy's resourceVersion is still current
    kr,             \* whether it saw the VM running in this pass
    handle,         \* a.process: the run it holds a process handle of, 0 when nil
    exit,           \* what the handle reports: "alive", "ok" or "error"
    cur,            \* a.assignment, 0 when nil
    expired,        \* the time since lastAPISuccess exceeds the lease duration
    wd,             \* where the watchdog is: "idle", "halt" or "term"
    runs,           \* how many runs have begun
    faults,         \* how many faults have happened
    good,           \* history: the runs whose process finished with success
    interrupted,    \* history: the runs whose stop was attempted and failed
    lost,           \* history: the runs whose process the agent lost track of
    published       \* history: the assignments reported Succeeded

api     == <<mailbox, used, ended, hostActive>>
os      == <<proc, owner, reused, good>>
journal == <<jdisk, jmem>>
loop    == <<pc, goal, out, snap, fresh, kr>>
process == <<handle, exit, cur>>
history == <<interrupted, lost, published>>

vars == <<mailbox, used, ended, hostActive, proc, owner, reused, jdisk, jmem, pc, goal,
          out, snap, fresh, kr, handle, exit, cur, expired, wd, runs, faults, good,
          interrupted, lost, published>>

Absent == [n |-> 0, stop |-> FALSE, phase |-> "none", ack |-> FALSE]
NoRecord == [n |-> 0, run |-> 0, started |-> FALSE, done |-> FALSE, ok |-> FALSE]

Phases == {"none", "Starting", "Running", "Succeeded", "Failed", "Blocked", "Stopped"}

Mailbox == [n : Assignments \cup {0}, stop : BOOLEAN, phase : Phases, ack : BOOLEAN]
Record == [n : Assignments \cup {0}, run : Runs \cup {0}, started : BOOLEAN,
           done : BOOLEAN, ok : BOOLEAN]

TypeOK ==
    /\ mailbox \in Mailbox /\ snap \in Mailbox
    /\ used \subseteq Assignments /\ ended \in BOOLEAN
    /\ hostActive \in Assignments \cup {0} /\ cur \in Assignments \cup {0}
    /\ kr \in BOOLEAN /\ fresh \in BOOLEAN
    /\ reused \in BOOLEAN /\ expired \in BOOLEAN
    /\ proc \in [Runs -> {"none", "live", "gone"}]
    /\ owner \in [Runs -> Assignments \cup {0}]
    /\ jdisk \in Record /\ jmem \in Record
    /\ pc \in {"down", "idle", "get", "decide", "ensure", "begin", "spawn", "record",
               "ready", "halt", "term", "clear", "publish", "host"}
    /\ goal \in {"none", "krunkit", "absent", "fence", "unfenced", "stop", "replace",
                 "exited", "restart", "completed", "error", "refused"}
    /\ out \in Phases
    /\ handle \in Runs \cup {0}
    /\ exit \in {"alive", "ok", "error"}
    /\ wd \in {"idle", "halt", "term"}
    /\ runs \in 0..MaxRuns /\ faults \in 0..MaxFaults
    /\ good \subseteq Runs /\ interrupted \subseteq Runs /\ lost \subseteq Runs
    /\ published \subseteq Assignments

Init ==
    /\ mailbox = Absent /\ used = {} /\ ended = FALSE /\ hostActive = 0
    /\ proc = [r \in Runs |-> "none"] /\ owner = [r \in Runs |-> 0]
    /\ reused = FALSE /\ jdisk = NoRecord /\ jmem = NoRecord
    /\ pc = "down" /\ goal = "none" /\ out = "none" /\ snap = Absent
    /\ fresh = FALSE /\ kr = FALSE
    /\ handle = 0 /\ exit = "alive" /\ cur = 0 /\ expired = TRUE /\ wd = "idle"
    /\ runs = 0 /\ faults = 0
    /\ good = {} /\ interrupted = {} /\ lost = {}
    /\ published = {}

\* finiteAssignment
Finite(n) == Kind[n] # "server"

\* Only the MLX batch runner carries the nonce on its command line, which is
\* what FindRunnerPIDs searches for.
Traceable(n) == Kind[n] = "batch"

Live == {r \in Runs : proc[r] = "live"}

Fault(k) == faults + k <= MaxFaults /\ faults' = faults + k

\* Mutated form: the killed process is not waited for and stays a zombie.
killedNotReaped(r) == [proc EXCEPT ![r] = "zombie"]

\* The process group of run r, killed and waited for.
Killed(r) == [proc EXCEPT ![r] = "gone"]

-----------------------------------------------------------------------------
(* The mailbox, as the controller writes it.                               *)

\* completedAssignmentPhase: a finite assignment with a terminal status.
completed(m) == m.phase \in {"Succeeded", "Failed"} /\ Finite(m.n)

ControllerStep ==
    /\ fresh' = FALSE
    /\ UNCHANGED <<hostActive, os, journal, pc, goal, out, snap, kr, process,
                   expired, wd, runs, faults, history>>

CreateMailbox(n) ==
    /\ mailbox = Absent
    /\ n \notin used
    /\ CreateInOrder => \A u \in used : u < n
    /\ mailbox' = [n |-> n, stop |-> FALSE, phase |-> "none", ack |-> FALSE]
    /\ used' = used \cup {n}
    /\ ended' = FALSE
    /\ ControllerStep

RequestStop ==
    /\ mailbox # Absent /\ ~mailbox.stop
    /\ mailbox' = [mailbox EXCEPT !.stop = TRUE]
    /\ UNCHANGED <<used, ended>>
    /\ ControllerStep

\* The mailbox is deleted once its stop is acknowledged, or reclaimed by a
\* controller that has seen it completed.
DeleteMailbox ==
    /\ mailbox # Absent
    /\ IF mailbox.stop THEN mailbox.ack ELSE ended
    /\ mailbox' = Absent
    /\ ended' = FALSE
    /\ UNCHANGED used
    /\ ControllerStep

-----------------------------------------------------------------------------
(* The host.                                                               *)

HostStep ==
    UNCHANGED <<api, owner, journal, loop, handle, cur, wd, runs, history>>

\* The whole process group of a run ends by itself.  A batch whose stop has
\* been attempted ends without error when its request was cancelled.
ProcessExits(r) ==
    /\ proc[r] = "live"
    /\ proc' = [proc EXCEPT ![r] = "gone"]
    /\ \E result \in {"ok", "error"} :
          /\ r \in interrupted /\ result = "ok" => Kind[owner[r]] = "batch"
          /\ good' = IF result = "ok" /\ r \notin interrupted THEN good \cup {r} ELSE good
          /\ exit' = IF handle = r /\ exit = "alive" THEN result ELSE exit
    /\ UNCHANGED <<reused, expired, faults>>
    /\ HostStep

\* The handle ends before the process group does: a job leaves children, the
\* batch runner cannot be stopped, or the serving relay loses its listener.
HandleEnds ==
    /\ handle # 0 /\ exit = "alive" /\ proc[handle] = "live"
    /\ \/ exit' = "error" /\ UNCHANGED good
       \/ /\ Kind[owner[handle]] = "job"
          /\ handle \notin interrupted
          /\ exit' = "ok" /\ good' = good \cup {handle}
    /\ UNCHANGED <<proc, reused, expired, faults>>
    /\ HostStep

\* The PID of a journaled process that has ended is given to another program.
PidReused ==
    /\ jmem.started /\ ~jmem.done /\ proc[jmem.run] = "gone" /\ ~reused
    /\ reused' = TRUE
    /\ Fault(1)
    /\ UNCHANGED <<proc, good, exit, expired>>
    /\ HostStep

\* That program ends.
PidFreed ==
    /\ reused
    /\ reused' = FALSE
    /\ UNCHANGED <<proc, good, exit, expired, faults>>
    /\ HostStep

\* The lease duration passes without an API success.
LeaseExpires ==
    /\ cur # 0 /\ ~expired
    /\ expired' = TRUE
    /\ UNCHANGED <<proc, reused, good, exit, faults>>
    /\ HostStep

-----------------------------------------------------------------------------
(* Stopping processes and writing the journal.                             *)

\* stopProcess: stop the handle's process group, drop the handle and remove
\* the work directories.  "dirty": the removal fails.  "fail": Stop fails,
\* before or after the process has died, and the handle is kept.  "closed":
\* the second Stop of a server closes a listener that is closed already,
\* which is an error even though the process is gone.
relayClosed == handle # 0 /\ Kind[owner[handle]] = "server" /\ handle \in interrupted

stopProcess(result) ==
    \/ /\ ~relayClosed
       /\ result = "ok" \/ (result = "dirty" /\ cur # 0)
       /\ proc' = IF handle = 0 THEN proc ELSE Killed(handle)
       /\ handle' = 0 /\ exit' = "alive"
       /\ UNCHANGED interrupted
    \/ /\ result = "fail" /\ handle # 0
       /\ interrupted' = interrupted \cup {handle}
       /\ \/ UNCHANGED <<proc, exit>>
          \/ /\ proc' = Killed(handle)
             /\ \/ exit' = IF exit = "alive" THEN "error" ELSE exit
                \/ Kind[owner[handle]] = "batch" /\ exit = "alive" /\ exit' = "ok"
       /\ UNCHANGED handle
    \/ /\ result = "closed" /\ relayClosed
       /\ proc' = Killed(handle) /\ exit' = "error"
       /\ UNCHANGED <<handle, interrupted>>

\* terminateRecorded, on the current record: kill the recorded process unless
\* its PID was reused; with no PID recorded, search for the nonce.
terminateRecorded(result) ==
    \/ /\ result = "ok"
       /\ ~(jmem.started /\ ~jmem.done /\ reused)
       /\ proc' = IF /\ jmem # NoRecord /\ ~jmem.done /\ proc[jmem.run] = "live"
                     /\ jmem.started \/ Traceable(jmem.n)
                  THEN Killed(jmem.run) ELSE proc
       /\ exit' = IF proc' # proc /\ handle = jmem.run /\ exit = "alive" THEN "error" ELSE exit
       /\ UNCHANGED faults
    \/ /\ result = "fail"
       /\ jmem # NoRecord /\ ~jmem.done
       /\ Fault(1) \/ (jmem.started /\ reused /\ UNCHANGED faults)
       /\ UNCHANGED <<proc, exit>>

\* A journal operation succeeds, or fails before or after the file changed
\* while the agent's memory keeps the old record (see ExecutionStore).
persist(new, result) ==
    \/ result = "ok" /\ jmem' = new /\ jdisk' = new /\ UNCHANGED faults
    \/ result = "fail" /\ UNCHANGED jmem /\ jdisk' \in {jdisk, new} /\ Fault(1)

-----------------------------------------------------------------------------
(* The reconcile loop.                                                     *)

\* Continue the pass at point p; end the pass.
Step(p, g, o) == pc' = p /\ goal' = g /\ out' = o /\ UNCHANGED <<snap, fresh, kr>>
EndPass == /\ pc' = "idle" /\ goal' = "none" /\ out' = "none"
           /\ snap' = Absent /\ fresh' = FALSE /\ kr' = FALSE

\* ensureProcess returns an error: Failed is published and the host updated.
EnsureFails == Step("publish", "error", "Failed")

\* reconcile reads the host object and whether the VM runs, once per pass.
ReadHost ==
    /\ pc = "idle"
    /\ \/ kr' = FALSE /\ goal' = "none" /\ pc' = "get"
       \/ kr' = TRUE /\ goal' = "krunkit" /\ pc' = "halt"
    /\ UNCHANGED <<api, os, journal, out, snap, fresh, process, expired, wd, runs,
                   faults, history>>

\* ValidateMailbox refuses an epoch older than the journal's.
ValidateMailbox(m) == jmem = NoRecord \/ m.n >= jmem.n

\* Mutated form: a newer assignment is accepted beside the old execution.
supersedesNever(m) == FALSE

\* The case of fenceSupersededExecution in which there is something to fence.
superseded(m) == jmem # NoRecord /\ m.n # jmem.n

\* The mailbox is read.  If there is none, whatever runs is stopped; a
\* superseded execution is fenced before the mailbox is accepted.
GetMailbox ==
    /\ pc = "get"
    /\ \/ /\ mailbox = Absent
          /\ expired' = FALSE
          /\ Step("halt", "absent", "none")
       \/ /\ mailbox # Absent /\ ~ValidateMailbox(mailbox)
          /\ UNCHANGED expired
          /\ EndPass
       \/ /\ mailbox # Absent /\ ValidateMailbox(mailbox)
          /\ snap' = mailbox /\ fresh' = TRUE
          /\ goal' = IF superseded(mailbox) THEN "fence" ELSE "none"
          /\ pc' = IF superseded(mailbox) THEN "halt" ELSE "decide"
          /\ expired' = IF superseded(mailbox) THEN expired ELSE FALSE
          /\ UNCHANGED <<out, kr>>
    /\ UNCHANGED <<api, os, journal, process, wd, runs, faults, history>>

\* A call to the API server fails where the pass just ends with the error.
CallFails ==
    /\ pc \in {"get", "host"}
    /\ Fault(1)
    /\ EndPass
    /\ UNCHANGED <<api, os, journal, process, expired, wd, runs, history>>

\* Where the pass goes on after stopProcess succeeded.
AfterHalt ==
    \/ goal = "krunkit" /\ Step("get", "none", "none")
    \/ goal \in {"absent", "fence", "stop", "replace"} /\ Step("term", goal, "none")
    \/ goal = "exited" /\ EnsureFails
    \/ goal = "completed" /\ Step("publish", IF out = "Failed" THEN "error" ELSE "none", out)

\* Where it goes on after stopProcess failed: fenceSupersededExecution still
\* terminates the recorded process, every other caller returns the error.
AfterHaltFails ==
    \/ goal \in {"krunkit", "absent", "stop"} /\ EndPass
    \/ goal = "fence" /\ Step("term", "unfenced", "none")
    \/ goal \in {"replace", "exited", "completed"} /\ EnsureFails

Halt ==
    /\ pc = "halt"
    /\ \/ stopProcess("ok") /\ AfterHalt /\ UNCHANGED faults
       \/ stopProcess("closed") /\ AfterHaltFails /\ UNCHANGED faults
       \/ \E result \in {"dirty", "fail"} : stopProcess(result) /\ AfterHaltFails /\ Fault(1)
    /\ UNCHANGED <<api, owner, reused, good, journal, cur, expired, wd, runs, lost, published>>

\* terminateRecorded, before the journal is cleared.
Terminate ==
    /\ pc = "term"
    /\ \/ /\ terminateRecorded("ok")
          /\ \/ goal = "unfenced" /\ EndPass
             \/ goal # "unfenced" /\ Step("clear", goal, "none")
       \/ /\ terminateRecorded("fail")
          /\ \/ goal \in {"absent", "fence", "unfenced", "stop"} /\ EndPass
             \/ goal \in {"restart", "replace", "error"} /\ EnsureFails
    /\ UNCHANGED <<api, owner, reused, good, journal, handle, cur, expired, wd,
                   runs, history>>

\* Clear, and where the pass goes on after it.  A start that failed ignores
\* the result; every other caller returns the error.
Clear ==
    /\ pc = "clear"
    /\ \/ /\ persist(NoRecord, "ok")
          /\ reused' = FALSE
          /\ cur' = IF goal = "fence" THEN 0 ELSE IF goal = "restart" THEN snap.n ELSE cur
          /\ expired' = IF goal = "fence" THEN FALSE ELSE expired
          /\ \/ goal = "absent" /\ Step("host", "none", "none")
             \/ goal = "fence" /\ Step("decide", "none", "none")
             \/ goal = "stop" /\ Step("publish", "none", "Stopped")
             \/ goal = "restart" /\ Step("begin", "none", "none")
             \/ goal \in {"replace", "error"} /\ EnsureFails
       \/ /\ persist(NoRecord, "fail")
          /\ jmem # NoRecord
          /\ UNCHANGED <<reused, cur, expired>>
          /\ \/ goal \in {"absent", "fence", "stop"} /\ EndPass
             \/ goal \in {"restart", "replace", "error"} /\ EnsureFails
    /\ UNCHANGED <<api, proc, owner, good, handle, exit, wd, runs, history>>

\* processRunningFor
processRunningFor(n) == handle # 0 /\ exit = "alive" /\ cur = n

\* Mutated form: a stop counts only while the process runs.
stopWhileRunning(m) == m.stop /\ processRunningFor(m.n)

stopRequested(m) == m.stop

\* The mailbox with status Starting.
Announced == [mailbox EXCEPT !.phase = "Starting", !.ack = FALSE]

\* reconcile, once the mailbox is accepted: stop, report the VM, report a
\* finished run again, or make sure the process runs; a process that has yet
\* to be started is announced with Starting, which can conflict or fail, or be
\* written although the answer is lost.
Decide ==
    /\ pc = "decide"
    /\ \/ /\ stopRequested(snap)
          /\ Step("halt", "stop", "none")
          /\ UNCHANGED <<mailbox, cur, faults>>
       \/ /\ ~stopRequested(snap) /\ kr
          /\ Step("publish", "none", "Blocked")
          /\ UNCHANGED <<mailbox, cur, faults>>
       \/ /\ ~stopRequested(snap) /\ ~kr /\ completed(snap)
          /\ cur' = snap.n
          /\ Step("publish", "none", snap.phase)
          /\ UNCHANGED <<mailbox, faults>>
       \/ /\ ~stopRequested(snap) /\ ~kr /\ ~completed(snap)
          /\ \/ /\ processRunningFor(snap.n)
                /\ Step("ensure", "none", "none")
                /\ UNCHANGED <<mailbox, faults>>
             \/ /\ ~processRunningFor(snap.n) /\ fresh
                /\ mailbox' = Announced
                /\ Step("ensure", "none", "none")
                /\ UNCHANGED faults
             \/ /\ ~processRunningFor(snap.n)
                /\ \/ ~fresh /\ UNCHANGED <<mailbox, faults>>
                   \/ Fault(1) /\ mailbox' \in IF fresh THEN {mailbox, Announced} ELSE {mailbox}
                /\ EndPass
          /\ UNCHANGED cur
    /\ UNCHANGED <<used, ended, hostActive, os, journal, handle, exit, expired, wd, runs,
                   history>>

\* WaitError returned nil.
waitSucceeded == exit = "ok"

\* ensureProcess: the handle's finite process has ended, and the result is
\* written to the journal before anything else is done about it.
Complete ==
    /\ pc = "ensure" /\ handle # 0 /\ exit # "alive" /\ Finite(snap.n)
    /\ LET result == [jmem EXCEPT !.done = TRUE, !.ok = waitSucceeded]
           phase  == IF waitSucceeded THEN "Succeeded" ELSE "Failed"
       IN  \/ /\ jmem.n = snap.n /\ jmem.started /\ ~jmem.done
              /\ \/ persist(result, "ok") /\ Step("halt", "completed", phase)
                 \/ persist(result, "fail") /\ EnsureFails
           \/ /\ jmem.n = snap.n /\ jmem.started /\ jmem = result
              /\ Step("halt", "completed", phase)
              /\ UNCHANGED <<journal, faults>>
           \/ /\ ~(jmem.n = snap.n /\ jmem.started /\ (jmem.done => jmem = result))
              /\ EnsureFails
              /\ UNCHANGED <<journal, faults>>
    /\ UNCHANGED <<api, os, process, expired, wd, runs, history>>

\* Mutated form: a finite run is restarted from scratch like a server.
restartableAny(n) == TRUE

restartable(n) == ~Finite(n)

\* ensureProcess in the other cases: the process runs, or is to be replaced,
\* or has finished before an agent restart, or is to be started.
Ensure ==
    /\ pc = "ensure"
    /\ handle # 0 => exit = "alive" \/ ~Finite(snap.n)
    /\ \/ /\ processRunningFor(snap.n)
          /\ Step("publish", "none", "Running")
          /\ UNCHANGED cur
       \/ /\ handle # 0 /\ ~processRunningFor(snap.n)
          /\ Step("halt", IF restartable(snap.n) THEN "replace" ELSE "exited", "none")
          /\ UNCHANGED cur
       \/ /\ handle = 0 /\ restartable(snap.n) /\ jmem # NoRecord
          /\ Step("term", "restart", "none")
          /\ UNCHANGED cur
       \/ /\ handle = 0 /\ ~restartable(snap.n) /\ jmem.done /\ jmem.n = snap.n
          /\ \/ jmem.ok /\ Step("publish", "none", "Succeeded")
             \/ ~jmem.ok /\ EnsureFails
          /\ UNCHANGED cur
       \/ /\ handle = 0
          /\ IF restartable(snap.n) THEN jmem = NoRecord ELSE ~(jmem.done /\ jmem.n = snap.n)
          /\ cur' = snap.n
          /\ Step("begin", "none", "none")
    /\ UNCHANGED <<api, os, journal, handle, exit, expired, wd, runs, faults, history>>

\* Preparing the runtime and the model, or the memory gate, refuses the start.
PrepareFails ==
    /\ pc = "begin"
    /\ \/ EnsureFails
       \/ Kind[snap.n] # "job" /\ Step("publish", "refused", "Failed")
    /\ UNCHANGED <<api, os, journal, process, expired, wd, runs, faults, history>>

\* Begin refuses to overwrite a journaled execution.
busy == jmem # NoRecord

\* The planned execution is journaled before anything is started.
Begin ==
    /\ pc = "begin"
    /\ LET r == runs + 1
           planned == [n |-> snap.n, run |-> r, started |-> FALSE, done |-> FALSE, ok |-> FALSE]
       IN  \/ /\ busy
              /\ EnsureFails
              /\ UNCHANGED <<owner, journal, runs, faults>>
           \/ /\ ~busy /\ runs < MaxRuns
              /\ runs' = r
              /\ owner' = [owner EXCEPT ![r] = snap.n]
              /\ \/ persist(planned, "ok") /\ Step("spawn", "none", "none")
                 \/ persist(planned, "fail") /\ EnsureFails
    /\ UNCHANGED <<api, proc, reused, good, process, expired, wd, history>>

\* Start spawns the process, or fails before it has.
Spawn ==
    /\ pc = "spawn"
    /\ \/ proc' = [proc EXCEPT ![jmem.run] = "live"] /\ Step("record", "none", "none")
       \/ UNCHANGED proc /\ Step("term", "error", "none")
    /\ UNCHANGED <<api, owner, reused, good, journal, process, expired, wd, runs,
                   faults, history>>

\* Mutated form: a process whose identity could not be recorded is let run.
unrecordedSpared(r) == UNCHANGED proc

\* The Start functions kill a process whose identity could not be recorded.
unrecordedKilled(r) == proc' = Killed(r)

\* OnSpawn journals the PID, which is the process's own.  If that fails the
\* process is killed; if the kill fails too, only a runner that carries the
\* nonce can still be found.
RecordProcess ==
    /\ pc = "record"
    /\ LET r == jmem.run
           started == [jmem EXCEPT !.started = TRUE]
       IN  \/ /\ persist(started, "ok")
              /\ Step("ready", "none", "none")
              /\ UNCHANGED <<proc, lost>>
           \/ /\ Step("term", "error", "none")
              /\ UNCHANGED jmem
              /\ \/ proc[r] = "gone" /\ UNCHANGED <<jdisk, proc, lost, faults>>
                 \/ /\ jdisk' \in {jdisk, started} /\ Fault(1)
                    /\ unrecordedKilled(r)
                    /\ UNCHANGED lost
                 \/ /\ jdisk' \in {jdisk, started} /\ Fault(2)
                    /\ Kind[snap.n] # "job" /\ proc[r] = "live"
                    /\ lost' = IF Traceable(snap.n) THEN lost ELSE lost \cup {r}
                    /\ UNCHANGED proc
    /\ reused' = FALSE
    /\ UNCHANGED <<api, owner, good, process, expired, wd, runs, interrupted, published>>

\* The process is up and the agent takes its handle.  A model process must
\* have answered its readiness probe; a job is not probed.
Ready ==
    /\ pc = "ready"
    /\ Kind[snap.n] # "job" => proc[jmem.run] = "live"
    /\ handle' = jmem.run
    /\ exit' = IF proc[jmem.run] = "live" THEN "alive"
               ELSE IF jmem.run \in good THEN "ok" ELSE "error"
    /\ Step("publish", "none", "Running")
    /\ UNCHANGED <<api, os, journal, cur, expired, wd, runs, faults, history>>

\* Startup is given up after the process was recorded: it never became ready,
\* the relay could not listen, or the startup lease could not be renewed.  The
\* result of stopping it is ignored.
StartFails ==
    /\ pc = "ready"
    /\ \/ proc' = Killed(jmem.run) /\ UNCHANGED faults
       \/ UNCHANGED proc /\ Fault(1)
    /\ Step("term", "error", "none")
    /\ UNCHANGED <<api, owner, reused, good, journal, process, expired, wd, runs,
                   history>>

\* Mutated form: the renewal does not look at the desired state.
renewableStopped == mailbox.n = snap.n

\* The assignment is still the one being started.
renewable == mailbox.n = snap.n /\ ~mailbox.stop

\* refreshStartupLease, while the runtime is prepared or the process starts:
\* it writes the status through a copy of its own, which leaves the copy the
\* pass holds out of date.
refreshStartupLease ==
    /\ pc \in {"begin", "spawn", "record", "ready"}
    /\ renewable
    /\ mailbox' = Announced
    /\ fresh' = FALSE /\ expired' = FALSE
    /\ UNCHANGED <<used, ended, hostActive, os, journal, pc, goal, out, snap, kr, process,
                   wd, runs, faults, history>>

\* updateAssignmentStatus at the end of a pass.  A conflict or a failed call
\* ends the pass, except after an error of ensureProcess.
Publish ==
    /\ pc = "publish"
    /\ \/ /\ fresh
          /\ mailbox' = [mailbox EXCEPT !.phase = out, !.ack = (out = "Stopped")]
          /\ ended' = (ended \/ completed(mailbox'))
          /\ published' = IF out = "Succeeded" THEN published \cup {snap.n} ELSE published
          /\ Step("host", goal, out)
          /\ UNCHANGED faults
       \/ /\ (~fresh /\ UNCHANGED faults) \/ Fault(1)
          /\ \/ goal \in {"error", "refused"} /\ Step("host", goal, out)
             \/ goal = "none" /\ EndPass
          /\ UNCHANGED <<mailbox, ended, published>>
    /\ UNCHANGED <<used, hostActive, os, journal, process, expired, wd, runs,
                   interrupted, lost>>

\* The assignment UID reconcile passes to updateHostStatus.
advertised == IF out = "Running" THEN snap.n ELSE 0

\* updateHostStatus, with which every pass that got this far ends.
UpdateHost ==
    /\ pc = "host"
    /\ hostActive' = advertised
    /\ EndPass
    /\ UNCHANGED <<mailbox, used, ended, os, journal, process, expired, wd, runs, faults,
                   history>>

-----------------------------------------------------------------------------
(* The watchdog, and the life of the agent process.                        *)

\* Mutated form: the watchdog waits for a handle, and so spares a process
\* that is still starting.
expiredHandle == cur # 0 /\ expired /\ handle # 0

leaseExpired == cur # 0 /\ expired

\* selfFenceIfExpired decides under the read lock and acts after releasing it.
WatchdogFires ==
    /\ pc # "down" /\ wd = "idle" /\ leaseExpired
    /\ wd' = "halt"
    /\ UNCHANGED <<api, os, journal, loop, process, expired, runs, faults, history>>

\* It stops the handle's process, and goes on whether or not that worked.
WatchdogHalts ==
    /\ wd = "halt"
    /\ \/ \E result \in {"ok", "closed"} : stopProcess(result) /\ UNCHANGED faults
       \/ \E result \in {"dirty", "fail"} : stopProcess(result) /\ Fault(1)
    /\ wd' = "term"
    /\ UNCHANGED <<api, owner, reused, good, journal, loop, cur, expired, runs, lost, published>>

\* It terminates the journaled process and leaves the journal as it is.
WatchdogTerminates ==
    /\ wd = "term"
    /\ \E result \in {"ok", "fail"} : terminateRecorded(result)
    /\ wd' = "idle"
    /\ UNCHANGED <<api, owner, reused, good, journal, loop, handle, cur, expired,
                   runs, history>>

\* A process that nothing on disk leads to any more.
untracked(r) == ~(jdisk.run = r /\ ~jdisk.done /\ (jdisk.started \/ Traceable(jdisk.n)))

\* The memory of an agent that is not running; the next one opens the journal.
Down ==
    /\ pc' = "down" /\ goal' = "none" /\ out' = "none"
    /\ snap' = Absent /\ fresh' = FALSE /\ kr' = FALSE
    /\ handle' = 0 /\ exit' = "alive" /\ cur' = 0 /\ expired' = TRUE /\ wd' = "idle"
    /\ UNCHANGED <<api, owner, good, runs, interrupted, published>>

\* Close between two passes: the process is stopped, if that works.
Shutdown ==
    /\ pc = "idle" /\ wd = "idle"
    /\ \/ Fault(1) /\ proc' = IF handle = 0 THEN proc ELSE Killed(handle)
       \/ Fault(2) /\ UNCHANGED proc
    /\ jmem' = jdisk
    /\ lost' = lost \cup {r \in Runs : proc'[r] = "live" /\ untracked(r)}
    /\ Down
    /\ UNCHANGED <<jdisk, reused>>

\* The agent is killed; its children are not.
Crash ==
    /\ pc # "down"
    /\ Fault(1)
    /\ jmem' = jdisk
    /\ lost' = lost \cup {r \in Live : untracked(r)}
    /\ Down
    /\ UNCHANGED <<jdisk, proc, reused>>

\* The machine goes down, and every process with it.
PowerFailure ==
    /\ pc # "down"
    /\ Fault(1)
    /\ jmem' = jdisk
    /\ proc' = [r \in Runs |-> IF proc[r] = "live" THEN "gone" ELSE proc[r]]
    /\ Down
    /\ UNCHANGED <<jdisk, reused, lost>>

\* Run: recoverOrphan terminates and clears an unfinished execution, and the
\* agent serves only once that has worked.
recoverOrphan ==
    /\ pc = "down"
    /\ \/ /\ jmem = NoRecord \/ jmem.done
          /\ pc' = "idle"
          /\ UNCHANGED <<proc, exit, reused, journal, faults>>
       \/ /\ jmem # NoRecord /\ ~jmem.done
          /\ terminateRecorded("ok")
          /\ jmem' = NoRecord /\ jdisk' = NoRecord
          /\ reused' = FALSE
          /\ pc' = "idle"
       \/ /\ jmem # NoRecord /\ ~jmem.done
          /\ terminateRecorded("fail")
          /\ UNCHANGED <<reused, journal, pc>>
    /\ UNCHANGED <<api, owner, good, goal, out, snap, fresh, kr, handle, cur, expired,
                   wd, runs, history>>

-----------------------------------------------------------------------------

Controller == RequestStop \/ DeleteMailbox \/ \E n \in Assignments : CreateMailbox(n)
Host == \/ HandleEnds \/ PidReused \/ PidFreed \/ LeaseExpires
        \/ \E r \in Runs : ProcessExits(r)
Start == PrepareFails \/ Begin \/ Spawn \/ RecordProcess \/ Ready \/ StartFails
Pass == \/ ReadHost \/ GetMailbox \/ Halt \/ Terminate \/ Clear \/ Decide \/ Complete
        \/ Ensure \/ Start \/ Publish \/ UpdateHost
Watchdog == WatchdogFires \/ WatchdogHalts \/ WatchdogTerminates
Trouble == CallFails \/ Shutdown \/ Crash \/ PowerFailure

Next == Controller \/ Host \/ Pass \/ refreshStartupLease \/ Watchdog \/ recoverOrphan \/ Trouble

Spec == Init /\ [][Next]_vars

\* The loop keeps running, and an agent that is down is started again (it is a
\* launchd service with KeepAlive); calls and kills fail only MaxFaults times.
LoopFair == WF_vars(Pass \/ recoverOrphan)

FairSpec == Spec /\ LoopFair

\* Only the watchdog and the local journal write of a starting process are
\* sure to go on: the loop may hang for ever in a call to the API server.
WatchdogSpec == Spec /\ WF_vars(Watchdog) /\ WF_vars(RecordProcess)

-----------------------------------------------------------------------------
(* Properties.                                                             *)

\* At most one process that the agent can still account for runs on the host:
\* a new run is journaled only after the previous one was stopped.  Once the
\* agent has reported any status for the assignment in the mailbox, that
\* process is a run of this assignment.
OneRunPerHost ==
    /\ \A r, s \in Live \ lost : r = s
    /\ mailbox.phase # "none" => \A r \in Live \ lost : owner[r] = mailbox.n

\* An acknowledged stop: no process of the assignment is left, other than one
\* whose identity was lost when the agent died before it could journal it.
AckMeansStopped == mailbox.ack => \A r \in Live \ lost : owner[r] # mailbox.n

\* The agent keeps its side of the mailbox contract: it reports nothing but the
\* acknowledgement once a stop is requested, although it writes from copies
\* of the mailbox that may be out of date, and touches no other assignment.
Contract == INSTANCE HostMailbox
              WITH Ids <- Assignments, FiniteIds <- {n \in Assignments : Finite(n)},
                   box <- IF mailbox = Absent THEN Absent
                          ELSE [id |-> mailbox.n, stop |-> mailbox.stop,
                                phase |-> mailbox.phase, ack |-> mailbox.ack],
                   offered <- used

ContractStep == UNCHANGED Contract!boxVars \/ Contract!MailboxNext

KeepsContract == Contract!MailboxInit /\ [][ContractStep]_vars

\* Succeeded is reported only for an assignment one of whose runs ended with
\* success, or was cancelled by a stop that reported an error, and a finite run
\* reported Succeeded is never started again: not after the VM overwrote its
\* status with Blocked, nor after the agent restarted.
SucceedsOnce ==
    /\ \A n \in published' : \E r \in good' \cup interrupted' : owner'[r] = n
    /\ \A r \in Runs : proc[r] = "none" /\ proc'[r] # "none" => owner[r] \notin published

SucceededOnce == [][SucceedsOnce]_vars

\* A requested stop is eventually acknowledged.
StopAcknowledged == mailbox.stop ~> mailbox.ack \/ mailbox = Absent

\* The same for a loop that keeps running although the agent crashes, loses
\* power, or a call, a kill or a journal write fails: a requested stop is
\* acknowledged by whichever agent comes next.  It waits for a program that has
\* the PID of the recorded process, so those must be gone in the end.
StopSurvivesFaults == LoopFair /\ <>[]~reused => StopAcknowledged

\* A process is not left running once the API server has been silent for the
\* length of the lease, even if the loop itself hangs.
LeaseFences ==
    expired /\ cur # 0 ~> ~expired \/ Live \subseteq lost \/ pc = "down"

\* types.go: "StopAcknowledgement proves that the exact fenced execution
\* represented by this Assignment has stopped."
AckProvesStopped == mailbox.ack => \A r \in Live : owner[r] # mailbox.n
=============================================================================
