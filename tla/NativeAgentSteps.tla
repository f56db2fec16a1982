--------------------------- MODULE NativeAgentSteps ---------------------------
(***************************************************************************)
(* The inductive invariant of the Native agent, and what each action does  *)
(* to the state it speaks of.  NativeAgentProofs shows that every step     *)
(* described here preserves the invariant, and what follows from it.       *)
(***************************************************************************)
EXTENDS NativeAgent, TLAPS

\* The processes the agent has to answer for.
Accountable == Live \ lost

\* The pass works for the assignment in its copy of the mailbox, whose journal,
\* if there is one, is that of the same assignment.
Committed ==
    \/ pc \in {"decide", "ensure", "begin", "spawn", "record", "ready", "publish"}
    \/ /\ pc \in {"halt", "term", "clear"}
       /\ goal \in {"stop", "replace", "exited", "completed", "restart", "error"}

\* The pass may start a process, or has given that up, or reports on one.
Starting ==
    \/ pc \in {"ensure", "begin", "spawn", "record", "ready"}
    \/ /\ pc \in {"halt", "term", "clear"}
       /\ goal \in {"replace", "exited", "completed", "restart", "error"}
    \/ pc = "publish" /\ out # "Stopped"

\* The pass gets rid of an execution that is not the mailbox's.
Fencing == pc \in {"halt", "term", "clear"} /\ goal \in {"fence", "unfenced"}
Emptying == pc \in {"halt", "term", "clear"} /\ goal = "absent"

\* The mailbox, and the copy of it that the pass holds.
BoxInv ==
    /\ mailbox.n = 0 => mailbox = Absent
    /\ snap.n = 0 => snap = Absent
    /\ mailbox.n # 0 => mailbox.n \in used
    /\ snap.n # 0 => snap.n \in used
    /\ mailbox.ack => mailbox.stop
    /\ fresh => snap.n # 0 /\ mailbox.n = snap.n /\ mailbox.stop = snap.stop
    /\ snap.n # 0 /\ snap.n = mailbox.n /\ snap.stop => mailbox.stop
    /\ snap.n # 0 /\ snap.n = mailbox.n /\ mailbox.ack => snap.stop
    /\ snap.n # 0 /\ mailbox.phase # "none" => snap.n = mailbox.n

\* Where the pass is, and what it holds there.
LoopInv ==
    /\ pc \in {"down", "idle", "get"} => snap.n = 0
    /\ pc = "halt" => goal \in {"krunkit", "absent", "fence", "stop", "replace", "exited", "completed"}
    /\ pc = "term" => goal \in {"absent", "fence", "unfenced", "stop", "replace", "restart", "error"}
    /\ pc = "clear" => goal \in {"absent", "fence", "stop", "replace", "restart", "error"}
    /\ pc \in {"halt", "term", "clear"} /\ goal \in {"krunkit", "absent"} => snap.n = 0
    /\ Committed \/ Fencing => snap.n # 0
    /\ Starting => ~snap.stop
    /\ pc \in {"halt", "term", "clear"} /\ goal = "stop" => snap.stop
    /\ pc = "publish" => out # "none"
    /\ pc = "publish" /\ out = "Stopped" => snap.stop /\ jmem = NoRecord
    /\ pc = "halt" /\ goal = "completed" => out \in {"Succeeded", "Failed"}
    /\ pc \in {"term", "clear"} /\ goal \in {"replace", "restart"} => ~Finite(snap.n)
    /\ pc = "halt" /\ goal = "replace" => ~Finite(snap.n)

\* The journal in memory and on disk.
RecordInv ==
    /\ \A j \in {jmem, jdisk} :
          /\ j.n = 0 <=> j = NoRecord
          /\ j.run = 0 <=> j = NoRecord
          /\ j.n # 0 => j.n \in used /\ j.run <= runs /\ owner[j.run] = j.n
          /\ j.done => j.started /\ Finite(j.n)
    /\ Committed => jmem = NoRecord \/ jmem.n = snap.n
    /\ pc \in {"spawn", "record"} => jmem # NoRecord /\ ~jmem.started
    /\ pc = "ready" => jmem # NoRecord /\ jmem.started /\ ~jmem.done
    /\ pc \in {"term", "clear"} /\ goal = "error" => ~jmem.done
    /\ Fencing => jmem # NoRecord /\ jmem.n # snap.n /\ mailbox.n # jmem.n
    /\ Emptying /\ jmem # NoRecord => mailbox.n # jmem.n

\* The runs that were spawned.
Spawned == {r \in Runs : proc[r] # "none"}

\* The handle is that of the journaled process, and the processes that live are
\* those the handle or the journal leads to, or one about to be journaled.
ProcessInv ==
    /\ handle # 0 => jmem # NoRecord /\ handle = jmem.run /\ jmem.started
    /\ pc \in {"down", "begin", "spawn", "record", "ready"} => handle = 0
    /\ pc \in {"term", "clear"} /\ goal # "unfenced" => handle = 0
    /\ \A r \in Accountable :
          /\ jmem # NoRecord /\ r = jmem.run
          /\ \/ handle = r
             \/ ~jmem.done /\ (jmem.started \/ Traceable(jmem.n) \/ pc = "record")
    /\ pc = "clear" => Accountable = {}

\* What has been spawned, and how it ended.
OutcomeInv ==
    /\ \A r \in Spawned : r <= runs
    /\ jmem.started => jmem.run \in Spawned
    /\ jdisk.started => jdisk.run \in Spawned
    /\ pc = "record" => jmem.run \in Spawned
    /\ good \cup interrupted \subseteq Spawned
    /\ jmem.done /\ jmem.ok => jmem.run \in good \cup interrupted
    /\ jdisk.done /\ jdisk.ok => jdisk.run \in good \cup interrupted
    /\ handle # 0 /\ exit = "ok" => handle \in good \cup interrupted

\* What is in the journal is the result of assignment n.
DoneFor(n) == jmem.n = n /\ jmem.done /\ jdisk = jmem

\* The assignments one of whose runs ended well, or was cancelled.
EndedWell == {owner[r] : r \in good \cup interrupted}

\* The pass is about to report that the run succeeded.
Reporting == \/ pc = "publish" /\ out = "Succeeded"
             \/ pc = "halt" /\ goal = "completed" /\ out = "Succeeded"

\* Reported successes, and where they are remembered: in the journal, until a
\* stop is requested or the assignment is gone from the mailbox.
SuccessInv ==
    /\ published \subseteq used
    /\ \A n \in published : Finite(n) /\ n \in EndedWell
    /\ jmem.done /\ jdisk # jmem =>
          /\ handle = 0
          /\ mailbox.n = jmem.n => mailbox.stop
          /\ snap.n = jmem.n => snap.stop
    /\ Reporting => Finite(snap.n) /\ snap.n \in EndedWell /\ DoneFor(snap.n)
    /\ mailbox.phase = "Succeeded" => mailbox.n \in published
    /\ snap.phase = "Succeeded" => snap.n \in published
    /\ mailbox.n \in published /\ ~mailbox.stop => DoneFor(mailbox.n)
    /\ snap.n \in published /\ ~snap.stop => DoneFor(snap.n)
    /\ snap.n # 0 /\ mailbox.n # snap.n => mailbox.n \notin published
    /\ Emptying => mailbox.n \notin published

-----------------------------------------------------------------------------
(* The inductive invariant: TypeOK in parts, and the parts above.          *)

BoxTyped == mailbox \in Mailbox /\ snap \in Mailbox
RecordsTyped == jdisk \in Record /\ jmem \in Record
ProcessesTyped ==
    /\ proc \in [Runs -> {"none", "live", "gone"}]
    /\ owner \in [Runs -> Assignments \cup {0}]
SetsTyped ==
    /\ used \subseteq Assignments
    /\ good \subseteq Runs /\ interrupted \subseteq Runs /\ lost \subseteq Runs
    /\ published \subseteq Assignments
PassTyped ==
    /\ pc \in {"down", "idle", "get", "decide", "ensure", "begin", "spawn", "record",
               "ready", "halt", "term", "clear", "publish", "host"}
    /\ goal \in {"none", "krunkit", "absent", "fence", "unfenced", "stop", "replace",
                 "exited", "restart", "completed", "error", "refused"}
    /\ out \in Phases
    /\ handle \in Runs \cup {0}
    /\ runs \in 0..MaxRuns
OthersTyped ==
    /\ hostActive \in Assignments \cup {0} /\ cur \in Assignments \cup {0}
    /\ exit \in {"alive", "ok", "error"}
    /\ wd \in {"idle", "halt", "term"}
    /\ faults \in 0..MaxFaults
FlagsTyped ==
    /\ ended \in BOOLEAN /\ kr \in BOOLEAN /\ fresh \in BOOLEAN
    /\ reused \in BOOLEAN /\ expired \in BOOLEAN

IInv ==
    /\ BoxTyped /\ RecordsTyped /\ ProcessesTyped /\ SetsTyped
    /\ PassTyped /\ OthersTyped /\ FlagsTyped
    /\ BoxInv /\ LoopInv /\ RecordInv /\ ProcessInv /\ OutcomeInv /\ SuccessInv
    /\ OneRunPerHost /\ AckMeansStopped

-----------------------------------------------------------------------------
(* The values that the records of the model are made of.                   *)

\* The assumptions on the constants, and that no assignment has the number 0.
LEMMA Constants ==
    /\ MaxRuns \in Nat /\ MaxFaults \in Nat
    /\ Assignments \subseteq Nat \ {0}
BY AgentAssumption DEF AgentAssumption, Assignments

\* The mailbox objects that the controller and the agent write.
LEMMA MailboxShapes ==
    /\ Absent \in Mailbox
    /\ \A n \in Assignments :
          [n |-> n, stop |-> FALSE, phase |-> "none", ack |-> FALSE] \in Mailbox
    /\ \A m \in Mailbox :
          /\ [m EXCEPT !.stop = TRUE] \in Mailbox
          /\ \A p \in Phases, a \in BOOLEAN : [m EXCEPT !.phase = p, !.ack = a] \in Mailbox
BY DEF Absent, Mailbox, Phases

\* The journal records that the agent writes.
LEMMA RecordShapes ==
    /\ NoRecord \in Record
    /\ \A n \in Assignments \cup {0}, r \in Runs :
          [n |-> n, run |-> r, started |-> FALSE, done |-> FALSE, ok |-> FALSE] \in Record
    /\ \A j \in Record :
          /\ [j EXCEPT !.started = TRUE] \in Record
          /\ \A ok \in BOOLEAN : [j EXCEPT !.done = TRUE, !.ok = ok] \in Record
BY DEF NoRecord, Record

-----------------------------------------------------------------------------
(* What the steps do.                                                      *)

mail  == <<mailbox, used, published>>
tally == <<owner, runs, good>>
ran   == <<Live, Spawned, tally, interrupted, lost>>
grip  == <<handle, exit>>

\* The controller writes the mailbox and nothing else; the copy that the pass
\* holds is then out of date.
MailFacts ==
    /\ fresh' = FALSE
    /\ UNCHANGED <<published, ran, journal, grip, pc, goal, out, snap>>
    /\ mailbox' \in Mailbox
    /\ \/ /\ mailbox # Absent /\ ~mailbox.stop
          /\ mailbox'.n = mailbox.n /\ mailbox'.stop
          /\ mailbox'.phase = mailbox.phase /\ mailbox'.ack = mailbox.ack
          /\ UNCHANGED used
       \/ mailbox' = Absent /\ UNCHANGED used
       \/ \E n \in Assignments \ used :
             /\ mailbox = Absent
             /\ mailbox'.n = n /\ ~mailbox'.stop /\ mailbox'.phase = "none" /\ ~mailbox'.ack
             /\ used' = used \cup {n}

\* The controller's writes of the mailbox.
LEMMA MailEffect == ASSUME IInv, Controller PROVE MailFacts
<1>. USE DEF MailFacts, ControllerStep
<1>1. /\ fresh' = FALSE
      /\ UNCHANGED <<published, ran, journal, grip, pc, goal, out, snap>>
  BY Controller
  DEF Controller, RequestStop, DeleteMailbox, CreateMailbox, os, process, history,
      tally, ran, grip, Live, Spawned
<1>2. CASE RequestStop
  <2>1. mailbox \in Mailbox
    BY IInv DEF IInv, BoxTyped
  <2>2. /\ mailbox'.n = mailbox.n /\ mailbox'.stop
        /\ mailbox'.phase = mailbox.phase /\ mailbox'.ack = mailbox.ack
    BY <1>2, <2>1 DEF RequestStop, Mailbox
  <2>. QED BY <1>1, <1>2, <2>1, <2>2, MailboxShapes DEF RequestStop
<1>3. CASE DeleteMailbox
  BY <1>1, <1>3, MailboxShapes DEF DeleteMailbox
<1>4. ASSUME NEW n \in Assignments, CreateMailbox(n) PROVE MailFacts
  BY <1>1, <1>4, MailboxShapes DEF CreateMailbox
<1>. QED BY Controller, <1>2, <1>3, <1>4 DEF Controller

\* The handle is that of a process that was spawned.
LEMMA HandleSpawned == ASSUME IInv PROVE handle # 0 => handle \in Spawned
BY IInv DEF IInv, ProcessInv, OutcomeInv

\* Whoever stops or ends processes: none appears, success is a run that is
\* counted among the good ones or was interrupted, and the handle is dropped
\* only of a process that no longer lives.
Ending ==
    /\ Live' \subseteq Live /\ Spawned' = Spawned
    /\ good \subseteq good' /\ good' \subseteq good \cup Live
    /\ interrupted \subseteq interrupted' /\ interrupted' \subseteq interrupted \cup {handle}
    /\ handle = 0 => interrupted' = interrupted
    /\ handle' = handle \/ (handle' = 0 /\ handle \notin Live')
    /\ handle' # 0 /\ exit' = "ok" => exit = "ok" \/ handle \in good' \cup interrupted'

\* stopProcess ends no more than it says, and on success leaves no handle.
LEMMA StopEffect ==
    ASSUME IInv, NEW result, stopProcess(result), UNCHANGED good
    PROVE  Ending /\ (result = "ok" => handle' = 0)
<1>. USE DEF Ending
<1>1. CASE handle = 0
  BY stopProcess(result), <1>1 DEF stopProcess, relayClosed, Live, Spawned
<1>2. CASE handle # 0 /\ proc' = proc
  BY IInv, stopProcess(result), <1>2
  DEF stopProcess, Killed, Live, Spawned, IInv, ProcessesTyped, PassTyped
<1>3. CASE handle # 0 /\ proc' = Killed(handle)
  <2>1. Live' = Live \ {handle} /\ Spawned' = Spawned
    BY IInv, HandleSpawned, <1>3 DEF Killed, Live, Spawned, IInv, ProcessesTyped, PassTyped
  <2>. QED BY stopProcess(result), <1>3, <2>1 DEF stopProcess
<1>. QED BY stopProcess(result), <1>1, <1>2, <1>3 DEF stopProcess

\* terminateRecorded leaves no process that the journal leads to.
Led == jmem # NoRecord /\ ~jmem.done /\ (jmem.started \/ Traceable(jmem.n))

\* terminateRecorded ends the process that the journal leads to, and starts none.
LEMMA TerminateEffect ==
    ASSUME IInv, NEW result, terminateRecorded(result)
    PROVE  /\ Live' \subseteq Live /\ Spawned' = Spawned
           /\ exit' = "ok" => exit = "ok"
           /\ result = "ok" /\ Led => jmem.run \notin Live'
BY IInv, terminateRecorded(result)
DEF terminateRecorded, Led, Killed, Live, Spawned, IInv, ProcessesTyped

\* The host and the watchdog.
OutsideFacts == Ending /\ UNCHANGED <<mail, owner, runs, lost, journal, pc, goal, out, snap, fresh>>

\* Exits, the reuse of PIDs and the expiry of the lease.
LEMMA HostEffect == ASSUME IInv, Host PROVE OutsideFacts
<1>. USE DEF OutsideFacts, Ending
<1>1. UNCHANGED <<mail, owner, runs, lost, interrupted, handle, journal, pc, goal, out, snap, fresh>>
  BY Host DEF Host, HandleEnds, PidReused, PidFreed, LeaseExpires, ProcessExits, HostStep,
     api, mail, loop, history
<1>2. CASE PidReused \/ PidFreed \/ LeaseExpires
  BY <1>1, <1>2 DEF PidReused, PidFreed, LeaseExpires, Live, Spawned
<1>3. CASE HandleEnds
  BY IInv, <1>1, <1>3 DEF HandleEnds, Live, Spawned, IInv, PassTyped
<1>4. ASSUME NEW r \in Runs, ProcessExits(r) PROVE Ending
  BY IInv, <1>1, <1>4 DEF ProcessExits, Live, Spawned, IInv, ProcessesTyped
<1>. QED BY <1>1, <1>2, <1>3, <1>4, Host DEF Host

\* The steps of the watchdog.
LEMMA WatchdogEffect == ASSUME IInv, Watchdog PROVE OutsideFacts
<1>. USE DEF OutsideFacts, api, mail, journal, loop
<1>1. CASE WatchdogFires
  BY <1>1 DEF WatchdogFires, os, process, history, Live, Spawned, Ending
<1>2. CASE WatchdogHalts
  <2>1. PICK result : stopProcess(result)
    BY <1>2 DEF WatchdogHalts
  <2>2. Ending
    BY IInv, <1>2, <2>1, StopEffect DEF WatchdogHalts
  <2>. QED BY <1>2, <2>2 DEF WatchdogHalts
<1>3. CASE WatchdogTerminates
  <2>1. PICK result : terminateRecorded(result)
    BY <1>3 DEF WatchdogTerminates
  <2>. QED BY IInv, <1>3, <2>1, TerminateEffect DEF WatchdogTerminates, history, Ending
<1>. QED BY <1>1, <1>2, <1>3, Watchdog DEF Watchdog

\* When the agent goes down, what it can still answer for is what the journal
\* on disk leads to.
DownFacts ==
    /\ pc' = "down" /\ goal' = "none" /\ out' = "none"
    /\ snap' = Absent /\ fresh' = FALSE /\ handle' = 0
    /\ jmem' = jdisk /\ jdisk' = jdisk
    /\ UNCHANGED <<mail, tally, interrupted>>
    /\ Spawned' = Spawned
    /\ lost \subseteq lost' /\ lost' \subseteq Runs
    /\ \A r \in Accountable' : r \in Accountable /\ ~untracked(r)

\* The agent goes down, with or without the host.
LEMMA DownEffect == ASSUME IInv, Shutdown \/ Crash \/ PowerFailure PROVE DownFacts
<1>. USE DEF DownFacts
<1>1. /\ pc' = "down" /\ goal' = "none" /\ out' = "none"
      /\ snap' = Absent /\ fresh' = FALSE /\ handle' = 0
      /\ jmem' = jdisk /\ jdisk' = jdisk
      /\ UNCHANGED <<mail, tally, interrupted>>
      /\ lost \subseteq lost' /\ lost' \subseteq Runs
  BY IInv, Shutdown \/ Crash \/ PowerFailure
  DEF Shutdown, Crash, PowerFailure, Down, api, mail, tally, Live, IInv, SetsTyped
<1>2. CASE Shutdown
  BY IInv, HandleSpawned, <1>1, <1>2
  DEF Shutdown, Killed, Spawned, Accountable, Live, IInv, ProcessesTyped
<1>3. CASE Crash
  BY <1>1, <1>3 DEF Crash, Spawned, Accountable, Live
<1>4. CASE PowerFailure
  BY IInv, <1>1, <1>4
  DEF PowerFailure, Spawned, Accountable, Live, IInv, ProcessesTyped
<1>. QED BY <1>1, <1>2, <1>3, <1>4

\* Steps of the pass that change nothing but the pass.
QuietFacts ==
    /\ UNCHANGED <<mail, ran, journal, grip>>
    /\ \/ pc \in {"get", "host"} /\ EndPass
       \/ pc = "begin" /\ (EnsureFails \/ Step("publish", "refused", "Failed"))
       \/ /\ pc = "idle" /\ UNCHANGED <<out, snap, fresh>>
          /\ \/ pc' = "get" /\ goal' = "none"
             \/ pc' = "halt" /\ goal' = "krunkit"

\* The calls that change neither mailbox, journal nor process.
LEMMA QuietEffect ==
    ASSUME ReadHost \/ UpdateHost \/ CallFails \/ PrepareFails
    PROVE  QuietFacts
BY ReadHost \/ UpdateHost \/ CallFails \/ PrepareFails
DEF QuietFacts, ReadHost, UpdateHost, CallFails, PrepareFails, api, os, process, history,
    mail, tally, ran, grip, Live, Spawned

GetFacts ==
    /\ pc = "get"
    /\ UNCHANGED <<mail, ran, journal, grip>>
    /\ \/ mailbox = Absent /\ Step("halt", "absent", "none")
       \/ EndPass
       \/ /\ mailbox # Absent /\ snap' = mailbox /\ fresh' = TRUE /\ out' = out
          /\ \/ /\ jmem = NoRecord \/ jmem.n = mailbox.n
                /\ pc' = "decide" /\ goal' = "none"
             \/ /\ jmem # NoRecord /\ jmem.n # mailbox.n
                /\ pc' = "halt" /\ goal' = "fence"

\* The mailbox is read.
LEMMA GetEffect == ASSUME GetMailbox PROVE GetFacts
BY GetMailbox DEF GetFacts, GetMailbox, superseded, api, os, process, history,
   mail, tally, ran, grip, Live, Spawned

EnsureFacts ==
    /\ pc = "ensure"
    /\ UNCHANGED <<mail, ran, journal, grip>>
    /\ \/ handle # 0 /\ Step("publish", "none", "Running")
       \/ handle # 0 /\ ~Finite(snap.n) /\ Step("halt", "replace", "none")
       \/ handle # 0 /\ Finite(snap.n) /\ Step("halt", "exited", "none")
       \/ handle = 0 /\ ~Finite(snap.n) /\ Step("term", "restart", "none")
       \/ /\ handle = 0 /\ Finite(snap.n) /\ jmem.done /\ jmem.n = snap.n
          /\ (jmem.ok /\ Step("publish", "none", "Succeeded")) \/ EnsureFails
       \/ handle = 0 /\ Step("begin", "none", "none")

\* The desired state is compared with the journal.
LEMMA EnsureEffect == ASSUME Ensure PROVE EnsureFacts
BY Ensure DEF EnsureFacts, Ensure, restartable, processRunningFor, api, os, history,
   mail, tally, ran, grip, Live, Spawned

\* stopProcess, and where the pass goes on.
HaltFacts ==
    /\ pc = "halt"
    /\ Ending /\ UNCHANGED <<mail, tally, lost, journal>>
    /\ (handle' = 0 /\ AfterHalt) \/ AfterHaltFails

\* The pass stops the process it has a handle of.
LEMMA HaltEffect == ASSUME IInv, Halt PROVE HaltFacts
<1>1. PICK result : /\ stopProcess(result)
                    /\ (result = "ok" /\ AfterHalt) \/ AfterHaltFails
  BY Halt DEF Halt
<1>2. Ending /\ (result = "ok" => handle' = 0)
  BY IInv, Halt, <1>1, StopEffect DEF Halt
<1>. QED BY Halt, <1>1, <1>2 DEF HaltFacts, Halt, api, mail, tally

TerminateFacts ==
    /\ pc = "term"
    /\ UNCHANGED <<mail, tally, interrupted, lost, journal, handle>>
    /\ Live' \subseteq Live /\ Spawned' = Spawned
    /\ exit' = "ok" => exit = "ok"
    /\ \/ /\ Led => jmem.run \notin Live'
          /\ goal # "unfenced" /\ Step("clear", goal, "none")
       \/ goal \in {"absent", "fence", "unfenced", "stop"} /\ EndPass
       \/ goal \in {"restart", "replace", "error"} /\ EnsureFails

\* The pass ends the process that the journal leads to.
LEMMA PassTerminateEffect == ASSUME IInv, Terminate PROVE TerminateFacts
<1>1. PICK result : /\ terminateRecorded(result)
                    /\ \/ result = "ok" /\ goal # "unfenced" /\ Step("clear", goal, "none")
                       \/ goal \in {"absent", "fence", "unfenced", "stop"} /\ EndPass
                       \/ goal \in {"restart", "replace", "error"} /\ EnsureFails
  BY Terminate DEF Terminate
<1>. QED BY IInv, Terminate, <1>1, TerminateEffect
         DEF TerminateFacts, Terminate, api, history, mail, tally

\* Clear empties the journal, or leaves the memory as it was.
ClearFacts ==
    /\ pc = "clear"
    /\ UNCHANGED <<mail, ran, grip>>
    /\ \/ /\ jmem' = NoRecord /\ jdisk' = NoRecord
          /\ \/ goal = "absent" /\ Step("host", "none", "none")
             \/ goal = "fence" /\ Step("decide", "none", "none")
             \/ goal = "stop" /\ Step("publish", "none", "Stopped")
             \/ goal = "restart" /\ Step("begin", "none", "none")
             \/ goal \in {"replace", "error"} /\ EnsureFails
       \/ /\ jmem' = jmem /\ jdisk' \in {jdisk, NoRecord}
          /\ \/ goal \in {"absent", "fence", "stop"} /\ EndPass
             \/ goal \in {"restart", "replace", "error"} /\ EnsureFails

\* The journal is cleared.
LEMMA ClearEffect == ASSUME Clear PROVE ClearFacts
<1>1. pc = "clear" /\ UNCHANGED <<mail, ran, grip>>
  BY Clear DEF Clear, api, history, mail, tally, ran, grip, Live, Spawned
<1>2. CASE persist(NoRecord, "ok")
  BY Clear, <1>1, <1>2 DEF ClearFacts, Clear, persist
<1>3. CASE persist(NoRecord, "fail")
  BY Clear, <1>1, <1>3 DEF ClearFacts, Clear, persist
<1>. QED BY Clear, <1>2, <1>3 DEF Clear

\* Status Starting is announced.
Announces ==
    /\ mailbox' \in Mailbox
    /\ mailbox'.n = mailbox.n /\ mailbox'.stop = mailbox.stop
    /\ mailbox'.phase = "Starting" /\ ~mailbox'.ack

\* What the status write at the start of a run leaves in the mailbox.
LEMMA AnnouncedFields == ASSUME IInv, mailbox' = Announced PROVE Announces
<1>1. mailbox \in Mailbox
  BY IInv DEF IInv, BoxTyped
<1>2. Announced \in Mailbox
  BY <1>1, MailboxShapes DEF Announced, Phases
<1>. QED BY <1>1, <1>2, mailbox' = Announced DEF Announces, Announced, Mailbox

\* The pass decides; it announces a start only in a mailbox that is still the
\* one it has read.
DecideFacts ==
    /\ pc = "decide"
    /\ UNCHANGED <<used, published, ran, journal, grip>>
    /\ mailbox' = mailbox \/ (Announces /\ fresh /\ ~snap.stop)
    /\ \/ snap.stop /\ Step("halt", "stop", "none")
       \/ ~snap.stop /\ completed(snap) /\ Step("publish", "none", snap.phase)
       \/ ~snap.stop /\ Step("publish", "none", "Blocked")
       \/ ~snap.stop /\ Step("ensure", "none", "none")
       \/ ~snap.stop /\ EndPass

\* The pass decides what to report.
LEMMA DecideEffect == ASSUME IInv, Decide PROVE DecideFacts
<1>1. mailbox' = mailbox \/ (mailbox' = Announced /\ fresh /\ ~snap.stop)
  BY Decide DEF Decide, stopRequested
<1>2. mailbox' = mailbox \/ (Announces /\ fresh /\ ~snap.stop)
  BY IInv, <1>1, AnnouncedFields
<1>. QED BY Decide, <1>2 DEF DecideFacts, Decide, stopRequested, os, history,
            tally, ran, grip, Live, Spawned

\* The startup lease is renewed while the pass starts the process.
RefreshFacts ==
    /\ pc \in {"begin", "spawn", "record", "ready"}
    /\ mailbox.n = snap.n /\ ~mailbox.stop
    /\ Announces /\ fresh' = FALSE
    /\ UNCHANGED <<used, published, ran, journal, grip, pc, goal, out, snap>>

\* The startup lease is renewed through the mailbox.
LEMMA RefreshEffect == ASSUME IInv, refreshStartupLease PROVE RefreshFacts
BY IInv, refreshStartupLease, AnnouncedFields
DEF RefreshFacts, refreshStartupLease, renewable, os, process, history,
    tally, ran, grip, Live, Spawned

\* A status is written only to the mailbox the pass has read.
PublishFacts ==
    /\ pc = "publish"
    /\ UNCHANGED <<used, ran, journal, grip>>
    /\ \/ /\ fresh
          /\ mailbox' \in Mailbox
          /\ mailbox'.n = mailbox.n /\ mailbox'.stop = mailbox.stop
          /\ mailbox'.phase = out /\ (mailbox'.ack <=> out = "Stopped")
          /\ published' = IF out = "Succeeded" THEN published \cup {snap.n}
                          ELSE published
          /\ Step("host", goal, out)
       \/ /\ UNCHANGED mail
          /\ Step("host", goal, out) \/ EndPass

\* The status is written to the mailbox.
LEMMA PublishEffect == ASSUME IInv, Publish PROVE PublishFacts
<1>. USE DEF PublishFacts
<1>1. pc = "publish" /\ UNCHANGED <<used, ran, journal, grip>>
  BY Publish DEF Publish, os, process, tally, ran, grip, Live, Spawned
<1>2. CASE UNCHANGED mail /\ (Step("host", goal, out) \/ EndPass)
  BY <1>1, <1>2
<1>3. CASE /\ fresh
           /\ mailbox' = [mailbox EXCEPT !.phase = out, !.ack = (out = "Stopped")]
           /\ published' = IF out = "Succeeded" THEN published \cup {snap.n} ELSE published
           /\ Step("host", goal, out)
  <2>1. mailbox \in Mailbox /\ out \in Phases /\ (out = "Stopped") \in BOOLEAN
    BY IInv DEF IInv, BoxTyped, PassTyped
  <2>2. mailbox' \in Mailbox
    BY <1>3, <2>1, MailboxShapes
  <2>3. /\ mailbox'.n = mailbox.n /\ mailbox'.stop = mailbox.stop
        /\ mailbox'.phase = out /\ (mailbox'.ack <=> out = "Stopped")
    BY <1>3, <2>1 DEF Mailbox
  <2>. QED BY <1>1, <1>3, <2>2, <2>3
<1>. QED BY Publish, <1>2, <1>3 DEF Publish, mail

\* The result of a finite run is journaled before it is acted upon.
CompleteFacts ==
    /\ pc = "ensure" /\ handle # 0 /\ Finite(snap.n)
    /\ UNCHANGED <<mail, ran, grip, snap, fresh>>
    /\ \E result \in Record :
          /\ result.n = jmem.n /\ result.run = jmem.run
          /\ result.started = jmem.started /\ result.done
          /\ result.ok <=> exit = "ok"
          /\ \/ EnsureFails /\ UNCHANGED jmem /\ jdisk' = jdisk
             \/ /\ EnsureFails /\ UNCHANGED jmem /\ jdisk' = result
                /\ jmem.n = snap.n /\ jmem.started /\ ~jmem.done
             \/ /\ Step("halt", "completed", IF exit = "ok" THEN "Succeeded" ELSE "Failed")
                /\ jmem.n = snap.n /\ jmem.started
                /\ jmem' = result
                /\ \/ jdisk' = result /\ ~jmem.done
                   \/ jdisk' = jdisk /\ jmem = result

\* The result of a run is journaled.
LEMMA CompleteEffect == ASSUME IInv, Complete PROVE CompleteFacts
<1>1. /\ pc = "ensure" /\ handle # 0 /\ Finite(snap.n)
      /\ UNCHANGED <<mail, ran, grip, snap, fresh>>
  BY Complete DEF Complete, Step, EnsureFails, api, os, process, history,
     mail, tally, ran, grip, Live, Spawned
<1>. DEFINE result == [jmem EXCEPT !.done = TRUE, !.ok = waitSucceeded]
<1>2. /\ result \in Record
      /\ result.n = jmem.n /\ result.run = jmem.run
      /\ result.started = jmem.started /\ result.done
      /\ result.ok <=> exit = "ok"
  <2>1. waitSucceeded \in BOOLEAN
    BY DEF waitSucceeded
  <2>2. result \in Record
    BY IInv, <2>1, RecordShapes DEF IInv, RecordsTyped
  <2>3. /\ result.n = jmem.n /\ result.run = jmem.run
        /\ result.started = jmem.started /\ result.done
        /\ result.ok = waitSucceeded
    BY IInv DEF IInv, RecordsTyped, Record
  <2>. QED BY <2>2, <2>3 DEF waitSucceeded
<1>3. \/ EnsureFails /\ UNCHANGED jmem /\ jdisk' = jdisk
      \/ /\ EnsureFails /\ UNCHANGED jmem /\ jdisk' = result
         /\ jmem.n = snap.n /\ jmem.started /\ ~jmem.done
      \/ /\ Step("halt", "completed", IF exit = "ok" THEN "Succeeded" ELSE "Failed")
         /\ jmem.n = snap.n /\ jmem.started
         /\ jmem' = result
         /\ \/ jdisk' = result /\ ~jmem.done
            \/ jdisk' = jdisk /\ jmem = result
  BY Complete DEF Complete, persist, journal, waitSucceeded
<1>. QED BY <1>1, <1>2, <1>3 DEF CompleteFacts

\* A run is planned, under a number not used before, with an empty journal.
BeginFacts ==
    /\ pc = "begin" /\ jmem = NoRecord
    /\ UNCHANGED <<mail, Live, Spawned, good, interrupted, lost, grip>>
    /\ runs' = runs + 1 /\ runs' \in Runs
    /\ owner'[runs'] = snap.n
    /\ \A r \in Runs \ {runs'} : owner'[r] = owner[r]
    /\ \E planned \in Record :
          /\ planned.n = snap.n /\ planned.run = runs'
          /\ ~planned.started /\ ~planned.done /\ ~planned.ok
          /\ \/ jmem' = planned /\ jdisk' = planned /\ Step("spawn", "none", "none")
             \/ jmem' = jmem /\ jdisk' \in {jdisk, planned} /\ EnsureFails

\* A run is journaled before it is started.
LEMMA BeginEffect == ASSUME IInv, Begin PROVE BeginFacts \/ QuietFacts
<1>1. pc = "begin" /\ UNCHANGED <<mail, Live, Spawned, good, interrupted, lost, grip>>
  BY Begin DEF Begin, api, process, history, mail, grip, Live, Spawned
<1>2. CASE EnsureFails /\ UNCHANGED <<owner, journal, runs>>
  BY <1>1, <1>2 DEF QuietFacts, ran, tally
<1>3. CASE runs < MaxRuns /\ ~busy
  <2>. DEFINE planned == [n |-> snap.n, run |-> runs + 1, started |-> FALSE,
                          done |-> FALSE, ok |-> FALSE]
  <2>1. snap.n \in Assignments \cup {0} /\ runs + 1 \in Runs
    BY IInv, <1>3, Constants DEF IInv, BoxTyped, Mailbox, PassTyped, Runs
  <2>2. planned \in Record
    BY <2>1, RecordShapes
  <2>3. /\ planned.n = snap.n /\ planned.run = runs + 1
        /\ ~planned.started /\ ~planned.done /\ ~planned.ok
    OBVIOUS
  <2>4. /\ jmem = NoRecord /\ runs' = runs + 1
        /\ owner' = [owner EXCEPT ![runs + 1] = snap.n]
        /\ \/ jmem' = planned /\ jdisk' = planned /\ Step("spawn", "none", "none")
           \/ jmem' = jmem /\ jdisk' \in {jdisk, planned} /\ EnsureFails
    BY Begin, <1>3 DEF Begin, busy, persist
  <2>5. owner'[runs'] = snap.n /\ \A r \in Runs \ {runs'} : owner'[r] = owner[r]
    BY IInv, <2>1, <2>4 DEF IInv, ProcessesTyped
  <2>. HIDE DEF planned
  <2>. QED BY <1>1, <2>1, <2>2, <2>3, <2>4, <2>5 DEF BeginFacts
<1>. QED BY Begin, <1>2, <1>3 DEF Begin

\* Start spawns the journaled run, or gives it up.
StartFacts ==
    /\ UNCHANGED <<mail, tally, interrupted, lost, journal, grip>>
    /\ \/ /\ pc = "spawn" /\ Step("record", "none", "none")
          /\ jmem.run \in Runs
          /\ Live' = Live \cup {jmem.run} /\ Spawned' = Spawned \cup {jmem.run}
       \/ /\ pc \in {"spawn", "ready"} /\ Step("term", "error", "none")
          /\ Live' \subseteq Live /\ Spawned' = Spawned

\* The process is spawned, or cannot be.
LEMMA StartEffect == ASSUME IInv, Spawn \/ StartFails PROVE StartFacts
<1>1. UNCHANGED <<mail, tally, interrupted, lost, journal, grip>>
  BY Spawn \/ StartFails DEF Spawn, StartFails, api, process, history, mail, tally, grip
<1>2. pc \in {"spawn", "ready"} => jmem.run \in Runs
  BY IInv DEF IInv, RecordInv, RecordsTyped, Record
<1>3. pc = "ready" => jmem.run \in Spawned
  BY IInv DEF IInv, RecordInv, OutcomeInv
<1>4. CASE Spawn
  BY IInv, <1>1, <1>2, <1>4 DEF StartFacts, Spawn, Live, Spawned, IInv, ProcessesTyped
<1>5. CASE StartFails
  BY IInv, <1>1, <1>2, <1>3, <1>5
  DEF StartFacts, StartFails, Killed, Live, Spawned, IInv, ProcessesTyped
<1>. QED BY Spawn \/ StartFails, <1>4, <1>5

ReadyFacts ==
    /\ pc = "ready" /\ Step("publish", "none", "Running")
    /\ UNCHANGED <<mail, ran, journal>>
    /\ handle' = jmem.run
    /\ exit' = "ok" => jmem.run \in good

\* The started process is ready.
LEMMA ReadyEffect == ASSUME Ready PROVE ReadyFacts
BY Ready DEF ReadyFacts, Ready, api, os, history, mail, tally, ran, Live, Spawned

\* A spawned process is journaled, or it is killed, or only its nonce or
\* nothing leads to it.
RecordProcessFacts ==
    /\ pc = "record"
    /\ UNCHANGED <<mail, tally, interrupted, grip>>
    /\ Live' \subseteq Live /\ Spawned' = Spawned
    /\ \E started \in Record :
          /\ started.n = jmem.n /\ started.run = jmem.run /\ started.started
          /\ started.done = jmem.done /\ started.ok = jmem.ok
          /\ \/ /\ Step("ready", "none", "none") /\ UNCHANGED lost
                /\ jmem' = started /\ jdisk' = started
             \/ /\ Step("term", "error", "none")
                /\ jmem' = jmem /\ jdisk' \in {jdisk, started}
                /\ \/ jmem.run \notin Live' /\ UNCHANGED lost
                   \/ Traceable(snap.n) /\ UNCHANGED lost
                   \/ lost' = lost \cup {jmem.run}

\* The PID of the process is journaled.
LEMMA RecordProcessEffect == ASSUME IInv, RecordProcess PROVE RecordProcessFacts
<1>1. pc = "record" /\ UNCHANGED <<mail, tally, interrupted, grip>>
  BY RecordProcess DEF RecordProcess, api, process, mail, tally, grip
<1>. DEFINE started == [jmem EXCEPT !.started = TRUE]
<1>2. /\ started \in Record
      /\ started.n = jmem.n /\ started.run = jmem.run /\ started.started
      /\ started.done = jmem.done /\ started.ok = jmem.ok
  BY IInv, RecordShapes DEF IInv, RecordsTyped, Record
<1>3. jmem.run \in Runs /\ proc[jmem.run] # "none"
  BY IInv, <1>1 DEF IInv, OutcomeInv, Spawned
<1>4. proc' \in {proc, Killed(jmem.run)}
  BY RecordProcess DEF RecordProcess, unrecordedKilled
<1>5. Live' \subseteq Live /\ Spawned' = Spawned
  BY IInv, <1>3, <1>4 DEF IInv, ProcessesTyped, Killed, Live, Spawned
<1>6. CASE Step("ready", "none", "none") /\ persist(started, "ok") /\ UNCHANGED lost
  BY <1>1, <1>2, <1>5, <1>6 DEF RecordProcessFacts, persist
<1>7. CASE Step("term", "error", "none")
  <2>1. jmem' = jmem /\ jdisk' \in {jdisk, started}
    BY RecordProcess, <1>7 DEF RecordProcess, Step
  <2>2. \/ jmem.run \notin Live' /\ UNCHANGED lost
        \/ Traceable(snap.n) /\ UNCHANGED lost
        \/ lost' = lost \cup {jmem.run}
    BY IInv, RecordProcess, <1>3, <1>7
    DEF IInv, ProcessesTyped, RecordProcess, Step, unrecordedKilled, Killed, Live
  <2>. QED BY <1>1, <1>2, <1>5, <1>7, <2>1, <2>2 DEF RecordProcessFacts
<1>. QED BY RecordProcess, <1>6, <1>7 DEF RecordProcess

\* recoverOrphan keeps a finished execution, and forgets another only once
\* nothing of it is left that the journal leads to.
RecoverFacts ==
    /\ pc = "down"
    /\ UNCHANGED <<mail, tally, interrupted, lost, goal, out, snap, fresh, handle>>
    /\ Live' \subseteq Live /\ Spawned' = Spawned
    /\ exit' = "ok" => exit = "ok"
    /\ \/ (jmem = NoRecord \/ jmem.done) /\ pc' = "idle" /\ UNCHANGED journal
       \/ /\ jmem # NoRecord /\ ~jmem.done
          /\ jmem' = NoRecord /\ jdisk' = NoRecord /\ pc' = "idle"
          /\ Led => jmem.run \notin Live'
       \/ UNCHANGED <<journal, pc>>

\* A process left by an earlier agent is recovered or ended.
LEMMA RecoverEffect == ASSUME IInv, recoverOrphan PROVE RecoverFacts
<1>1. /\ pc = "down"
      /\ UNCHANGED <<mail, tally, interrupted, lost, goal, out, snap, fresh, handle>>
  BY recoverOrphan DEF recoverOrphan, api, history, mail, tally
<1>2. CASE /\ jmem = NoRecord \/ jmem.done
           /\ pc' = "idle"
           /\ UNCHANGED <<proc, exit, journal>>
  BY <1>1, <1>2 DEF RecoverFacts, Live, Spawned
<1>3. CASE /\ jmem # NoRecord /\ ~jmem.done
           /\ terminateRecorded("ok")
           /\ jmem' = NoRecord /\ jdisk' = NoRecord /\ pc' = "idle"
  BY IInv, <1>1, <1>3, TerminateEffect DEF RecoverFacts
<1>4. CASE terminateRecorded("fail") /\ UNCHANGED <<journal, pc>>
  BY IInv, <1>1, <1>4, TerminateEffect DEF RecoverFacts
<1>. QED BY recoverOrphan, <1>2, <1>3, <1>4 DEF recoverOrphan

\* Every step of the agent, its host and its controller is one of these.
StepFacts ==
    \/ MailFacts \/ OutsideFacts \/ DownFacts \/ QuietFacts \/ GetFacts \/ EnsureFacts
    \/ HaltFacts \/ TerminateFacts \/ ClearFacts \/ DecideFacts \/ RefreshFacts
    \/ PublishFacts \/ CompleteFacts \/ BeginFacts \/ StartFacts \/ ReadyFacts
    \/ RecordProcessFacts \/ RecoverFacts

\* Every step of the agent, its host and the controller is one of those described
\* above.
LEMMA Steps == ASSUME IInv, Next PROVE StepFacts
BY IInv, Next, MailEffect, HostEffect, WatchdogEffect, DownEffect, QuietEffect, GetEffect,
   EnsureEffect, HaltEffect, PassTerminateEffect, ClearEffect, DecideEffect, RefreshEffect,
   PublishEffect, CompleteEffect, BeginEffect, StartEffect, ReadyEffect,
   RecordProcessEffect, RecoverEffect
DEF StepFacts, Next, Pass, Start, Trouble

=============================================================================
