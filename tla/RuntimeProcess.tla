--------------------------- MODULE RuntimeProcess ---------------------------
(***************************************************************************)
(* One process of a Native assignment and the goroutines around it: the    *)
(* start of a runtime (internal/native/devruntime: the MLX runner, the MLX *)
(* server, Ollama, llama.cpp, a shell or a training script), the wait for  *)
(* its readiness, the batch request or the serving relay wrapped around it *)
(* (internal/native/agent/batch.go, relay.go), the output lines the agent  *)
(* interprets (runprotocol.go), and the stop, which stopProcess runs while *)
(* it holds the agent's mutex.                                             *)
(*                                                                         *)
(* One run of one assignment is modelled; what the agent does before and   *)
(* after is in NativeAgent.  Timers fire at any moment; a timer that fires *)
(* although what it waits for is about to happen counts as a fault.        *)
(***************************************************************************)
EXTENDS Naturals, Sequences, FiniteSets

CONSTANTS Roles,         \* which of "batch", "server", "command" the run covers
          Clients,       \* HTTP clients of the serving endpoint
          Names,         \* names of the metrics and artifacts a training script prints
          MaxRunRecords, \* metrics, and artifacts, a run may report
          MaxLines,      \* bound: output lines of the process
          MaxEdits,      \* bound: changes of the model file by its owner
          MaxFaults,     \* bound: failed calls, crashes and early timers
          None

VARIABLES job,    \* the assignment: what it runs, and for whom
          model,  \* the GGUF file or Ollama blob on disk and the discovery cache
          agent,  \* the supervising goroutine, and whether it holds the mutex
          start,  \* the startup goroutine of startProcessWithLease
          proc,   \* the process, its group, and the waiter behind the handle
          batch,  \* the goroutine of startBatchProcess
          relay,  \* the listener of the relay and its connections
          run,    \* the run status collected from the output
          env     \* the loopback port picked, the faults so far, and a kept-times edit

vars == <<job, model, agent, start, proc, batch, relay, run, env>>

Kinds == [batch |-> {"runner", "ollama", "llama"}, server |-> {"mlx", "ollama", "llama"},
          command |-> {"command"}]
Pinned(kind) == kind \in {"ollama", "llama"}
Lines == [type : {"metric", "artifact"}, name : Names, good : BOOLEAN]

Closed == [c2u |-> FALSE, u2c |-> FALSE, at |-> "closed"]
NoConn == [c2u |-> FALSE, u2c |-> FALSE, at |-> "none"]

AgentSteps == {"resolve", "starting", "cancelled", "running", "close", "drain", "kill", "wait", "join",
               "stopped", "failed"}

TypeOK ==
    /\ job.role \in Roles /\ job.kind \in Kinds[job.role] /\ job.inherits \in BOOLEAN
    /\ model.content \in {"pinned", "other"} /\ model.info \in 0..MaxEdits
    /\ model.cache = None \/ model.cache \in [info : 0..MaxEdits, digest : {"pinned", "other"}]
    /\ agent \in [at : AgentSteps, locked : BOOLEAN, asked : BOOLEAN, err : BOOLEAN]
    /\ start.at \in {"idle", "start", "record", "ready", "warm", "wrap", "kill", "wait", "reapKill",
                    "reap", "completed"}
    /\ proc.leader \in {"none", "alive", "dead"} /\ proc.life \in {None, "agent", "start", "batch"}
    /\ proc.output \in Seq(Lines) /\ Len(proc.output) <= MaxLines
    /\ batch.at \in {"none", "generate", "output", "genKill", "genWait", "kill", "wait", "done"}
    /\ relay.conns \in [Clients -> [c2u : BOOLEAN, u2c : BOOLEAN, at : {"none", "dial", "open", "closed"}]]
    /\ run.metrics \subseteq Names /\ run.artifacts \subseteq Names
    /\ Cardinality(run.metrics) <= MaxRunRecords /\ Cardinality(run.artifacts) <= MaxRunRecords
    /\ env.port \in {"unset", "free", "own", "foreign"} /\ env.faults \in 0..MaxFaults

Init ==
    /\ \E role \in Roles, inherits \in BOOLEAN :
          \E kind \in Kinds[role] : job = [kind |-> kind, role |-> role, inherits |-> inherits]
    /\ model = [content |-> "pinned", info |-> 0, cache |-> None]
    /\ agent = [at |-> "resolve", locked |-> FALSE, asked |-> FALSE, err |-> FALSE]
    /\ start = [at |-> "idle", cancelled |-> FALSE, verified |-> FALSE, err |-> FALSE]
    /\ proc = [leader |-> "none", group |-> FALSE, killed |-> FALSE, waiter |-> FALSE, done |-> FALSE,
               life |-> None, serving |-> FALSE, offloaded |-> FALSE, loaded |-> None, output |-> <<>>, lines |-> 0]
    /\ batch = [at |-> "none", err |-> FALSE, stopping |-> FALSE, logged |-> FALSE]
    /\ relay = [open |-> FALSE, accepting |-> FALSE, conns |-> [c \in Clients |-> NoConn]]
    /\ run = [metrics |-> {}, artifacts |-> {}, err |-> FALSE, printed |-> {}]
    /\ env = [port |-> "unset", faults |-> 0, edited |-> FALSE]

Fault == env.faults < MaxFaults /\ env' = [env EXCEPT !.faults = @ + 1]

(***************************************************************************)
(* The model a GGUF runtime loads.  Discovery believes its cache as long   *)
(* as the file's identity, size and times are unchanged; the start hashes  *)
(* the bytes.  Ollama's discovery looks at sizes only.                     *)
(***************************************************************************)
inspectLlamaCppFile == model.content

sameStableFileInfo(left, right) == left = right

cachedDigest ==
    IF model.cache # None /\ sameStableFileInfo(model.cache.info, model.info)
    THEN model.cache.digest ELSE inspectLlamaCppFile

verifyOllamaBlob(strong) == strong => model.content = "pinned"

\* None: the manifest names a blob that does not have its content.
inspectOllamaManifest(strong) == IF verifyOllamaBlob(strong) THEN "pinned" ELSE None

VerifyOllamaModel == inspectOllamaManifest(TRUE) = "pinned"

\* Mutated form: the digest of the last discovery is trusted.
VerifyLlamaCppWeak == cachedDigest = "pinned"

VerifyLlamaCppModel == inspectLlamaCppFile = "pinned"

\* The agent rediscovers the models on every heartbeat.
Discover ==
    /\ job.kind = "llama"
    /\ model' = [model EXCEPT !.cache = [info |-> model.info, digest |-> cachedDigest]]
    /\ model' # model
    /\ UNCHANGED <<job, agent, start, proc, batch, relay, run, env>>

\* The owner of the Mac replaces the file, with new times or with the old
\* ones kept.
EditModel ==
    /\ Pinned(job.kind) /\ model.info < MaxEdits
    /\ \E kept \in BOOLEAN, content \in {"pinned", "other"} :
          /\ kept => ~env.edited
          /\ model' = [model EXCEPT !.content = content, !.info = IF kept THEN @ ELSE @ + 1]
          /\ env' = [env EXCEPT !.edited = (@ \/ kept)]
          /\ start' = [start EXCEPT !.verified = FALSE]
    /\ UNCHANGED <<job, agent, proc, batch, relay, run>>

\* The candidate of ensureProcess: a model of the assigned name and digest.
ResolveModel ==
    /\ agent.at = "resolve"
    /\ \/ /\ job.kind = "llama" => cachedDigest = "pinned"
          /\ job.kind = "ollama" => inspectOllamaManifest(FALSE) = "pinned"
          /\ agent' = [agent EXCEPT !.at = "starting"]
          /\ start' = [start EXCEPT !.at = "start"]
       \/ /\ Pinned(job.kind)
          /\ agent' = [agent EXCEPT !.at = "failed"] /\ UNCHANGED start
    /\ model' = IF job.kind = "llama"
                THEN [model EXCEPT !.cache = [info |-> model.info, digest |-> cachedDigest]] ELSE model
    /\ UNCHANGED <<job, proc, batch, relay, run, env>>

(***************************************************************************)
(* Killing the process group and waiting for it: Stop of the five handles. *)
(* A handle of a model runtime holds lifeMu from the kill to the end of    *)
(* the wait; the handle of a shell or a training script has no such lock   *)
(* and does not look whether the whole group is gone.                      *)
(***************************************************************************)
StopKill(who) ==
    /\ job.kind # "command" => proc.life = None
    /\ proc' = [proc EXCEPT !.killed = TRUE, !.life = IF job.kind = "command" THEN None ELSE who]

StopKillFails(who) == (job.kind # "command" => proc.life = None) /\ Fault /\ UNCHANGED proc

Unlocked == [proc EXCEPT !.life = None]

\* Mutated form: Stop returns when the leader is reaped.
waitProcessGroupGoneNot(p) == TRUE

waitProcessGroupGone(p) == ~p.group

StopDone == proc.done /\ (job.kind # "command" => waitProcessGroupGone(proc))

\* The copier of the output needs the agent's mutex for a protocol line.
Blocked == agent.locked /\ proc.output # <<>>

\* The timer of ten seconds, or of one second for the rest of the group.
StopTimesOut ==
    /\ ~StopDone
    /\ \/ ~proc.done /\ (Blocked \/ ~proc.waiter) /\ UNCHANGED env
       \/ Fault

(***************************************************************************)
(* The startup goroutine.                                                  *)
(***************************************************************************)
Started(at) == start' = [start EXCEPT !.at = at]
StartFails == start' = [start EXCEPT !.at = "completed", !.err = TRUE]
\* The process is stopped, and the result of that ignored.
Abort == start' = [start EXCEPT !.at = "kill", !.err = TRUE]

OnStart == UNCHANGED <<job, model, agent>>

Spawned ==
    /\ start' = [start EXCEPT !.at = "record", !.verified = TRUE]
    /\ proc' = [proc EXCEPT !.leader = "alive", !.group = TRUE, !.waiter = (job.kind # "command")]
NotSpawned == StartFails /\ UNCHANGED proc

\* A port is taken, read and given back before the process binds it.
unusedLoopbackAddress == env' = [env EXCEPT !.port = "free"]

\* Each runtime up to command.Start.  The digest of a GGUF model is taken
\* first; a cancelled context ends the hashing.
Start == job.kind = "runner" /\ Spawned /\ UNCHANGED env

StartMLXServe == job.kind = "mlx" /\ Spawned /\ unusedLoopbackAddress

StartOllama ==
    /\ job.kind = "ollama"
    /\ \/ VerifyOllamaModel /\ Spawned /\ unusedLoopbackAddress
       \/ (~VerifyOllamaModel \/ start.cancelled) /\ NotSpawned /\ UNCHANGED env

StartLlamaCpp ==
    /\ job.kind = "llama"
    /\ \/ VerifyLlamaCppModel /\ Spawned /\ unusedLoopbackAddress
       \/ (~VerifyLlamaCppModel \/ start.cancelled) /\ NotSpawned /\ UNCHANGED env

StartShell ==
    /\ job.kind = "command"
    /\ IF start.cancelled THEN NotSpawned ELSE Spawned
    /\ UNCHANGED env

StartRuntime ==
    /\ start.at = "start"
    /\ \/ Start \/ StartMLXServe \/ StartOllama \/ StartLlamaCpp \/ StartShell
       \/ Fault /\ NotSpawned
    /\ OnStart /\ UNCHANGED <<batch, relay, run>>

\* OnSpawn writes the journal.  startCommandProcess starts its waiter only
\* after that, and not at all when the start has been cancelled meanwhile.
OnSpawn ==
    /\ start.at = "record"
    /\ \/ /\ job.kind # "command" /\ Started("ready") /\ UNCHANGED <<proc, env>>
       \/ /\ job.kind = "command" /\ ~start.cancelled
          /\ Started("completed") /\ proc' = [proc EXCEPT !.waiter = TRUE] /\ UNCHANGED env
       \/ /\ job.kind = "command" /\ start.cancelled
          /\ Abort /\ UNCHANGED <<proc, env>>
       \/ /\ Fault /\ UNCHANGED proc
          /\ IF job.kind = "command" THEN start' = [start EXCEPT !.at = "reapKill", !.err = TRUE] ELSE Abort
    /\ OnStart /\ UNCHANGED <<batch, relay, run>>

\* startCommandProcess kills a process it could not record, whatever comes of
\* that, and waits for it itself.
ReapUnrecorded ==
    /\ \/ /\ start.at = "reapKill" /\ Started("reap")
          /\ \/ proc' = [proc EXCEPT !.killed = TRUE, !.waiter = TRUE] /\ UNCHANGED env
             \/ proc' = [proc EXCEPT !.waiter = TRUE] /\ Fault
       \/ start.at = "reap" /\ proc.done /\ Started("completed") /\ UNCHANGED <<proc, env>>
    /\ OnStart /\ UNCHANGED <<batch, relay, run>>

Serves == proc.leader = "alive" /\ proc.serving

\* What each runtime's readiness probe takes for an answer: a message on the
\* runner's own pipe, the pinned model in the daemon's list, or any 200 on
\* /health at the port, whoever answers there.
waitReadyRunner == Serves
waitReadyMLXServe == Serves \/ env.port = "foreign"
waitReadyOllama == Serves
waitReadyLlamaCpp == Serves \/ env.port = "foreign"

waitReady ==
    [runner |-> waitReadyRunner, mlx |-> waitReadyMLXServe,
     ollama |-> waitReadyOllama, llama |-> waitReadyLlamaCpp][job.kind]

\* The probe reads the placement from the output of the process itself.
FullOffload == job.kind = "llama" => proc.offloaded

\* The runtime answers, exits, or is not ready before the timer or a cancel.
Ready ==
    /\ start.at = "ready"
    /\ \/ /\ waitReady
          /\ \/ job.kind = "ollama" /\ Started("warm")
             \/ job.kind # "ollama" /\ FullOffload /\ Started("wrap")
             \/ ~FullOffload /\ Abort
          /\ UNCHANGED env
       \/ /\ proc.done
          /\ IF job.kind = "runner" THEN StartFails ELSE Abort
          /\ UNCHANGED env
       \/ start.cancelled /\ Abort /\ UNCHANGED env
       \/ Fault /\ Abort
    /\ OnStart /\ UNCHANGED <<proc, batch, relay, run>>

\* A request to the runtime's HTTP API.
doJSON(result, cancelled) ==
    \/ result = "answer" /\ Serves /\ UNCHANGED env
    \/ result = "error" /\ ((~Serves /\ UNCHANGED env) \/ Fault)
    \/ result = "canceled" /\ cancelled /\ UNCHANGED env

\* The first request of the daemon, and where the model has been placed.
warmAndVerifyMetal ==
    /\ start.at = "warm"
    /\ \/ doJSON("answer", start.cancelled) /\ IF proc.offloaded THEN Started("wrap") ELSE Abort
       \/ \E result \in {"error", "canceled"} : doJSON(result, start.cancelled) /\ Abort
    /\ OnStart /\ UNCHANGED <<proc, batch, relay, run>>

startBatchProcess ==
    /\ start.at = "wrap" /\ job.role = "batch"
    /\ Started("completed") /\ batch' = [batch EXCEPT !.at = "generate"]
    /\ OnStart /\ UNCHANGED <<proc, relay, run, env>>

startServingRelay ==
    /\ start.at = "wrap" /\ job.role = "server"
    /\ \/ /\ Started("completed") /\ relay' = [relay EXCEPT !.open = TRUE, !.accepting = TRUE]
          /\ UNCHANGED env
       \/ Fault /\ Abort /\ UNCHANGED relay
    /\ OnStart /\ UNCHANGED <<proc, batch, run>>

AbortKill ==
    /\ start.at = "kill"
    /\ \/ StopKill("start") /\ Started("wait") /\ UNCHANGED env
       \/ StopKillFails("start") /\ Started("completed")
    /\ OnStart /\ UNCHANGED <<batch, relay, run>>

AbortWait ==
    /\ start.at = "wait"
    /\ (StopDone /\ UNCHANGED env) \/ StopTimesOut
    /\ proc' = Unlocked
    /\ Started("completed")
    /\ OnStart /\ UNCHANGED <<batch, relay, run>>

(***************************************************************************)
(* The process, its waiter and its output.                                 *)
(***************************************************************************)
OnProc == UNCHANGED <<job, model, agent, start, batch, relay>>

\* Another program takes the port between unusedLoopbackAddress and the bind.
TakePort ==
    /\ env.port = "free"
    /\ env.faults < MaxFaults
    /\ env' = [env EXCEPT !.port = "foreign", !.faults = @ + 1]
    /\ OnProc /\ UNCHANGED <<proc, run>>

\* The runtime binds its port, or exits because it cannot, and loads the
\* model, on the GPU or beside it.
BindAndLoad ==
    /\ proc.leader = "alive" /\ ~proc.serving /\ job.kind # "command"
    /\ \/ /\ env.port = "foreign"
          /\ proc' = [proc EXCEPT !.leader = "dead"] /\ UNCHANGED env
       \/ /\ env.port # "foreign"
          /\ \E offloaded \in BOOLEAN :
                proc' = [proc EXCEPT !.serving = TRUE, !.offloaded = offloaded,
                                     !.loaded = IF start.verified THEN model.content ELSE "unverified"]
          /\ env' = [env EXCEPT !.port = IF @ = "free" THEN "own" ELSE @]
    /\ OnProc /\ UNCHANGED run

\* A training script prints a protocol line.
PrintLine ==
    /\ job.kind = "command" /\ proc.leader = "alive" /\ proc.lines < MaxLines
    /\ \E line \in Lines :
          /\ proc' = [proc EXCEPT !.output = Append(@, line), !.lines = @ + 1]
          /\ run' = [run EXCEPT !.printed = @ \cup {line}]
    /\ OnProc /\ UNCHANGED env

\* The timer of a shell or training run stops it, whoever else may.
DeadlineKills ==
    /\ job.kind = "command" /\ start.at = "completed" /\ proc.waiter /\ ~proc.done /\ ~proc.killed
    /\ proc' = [proc EXCEPT !.killed = TRUE]
    /\ OnProc /\ UNCHANGED <<run, env>>

\* A script ends when it likes, the children of a dead leader as well; a
\* model runtime that ends by itself has crashed.
LeaderExits ==
    /\ proc.leader = "alive"
    /\ ((proc.killed \/ job.kind = "command") /\ UNCHANGED env) \/ Fault
    /\ proc' = [proc EXCEPT !.leader = "dead"]
    /\ OnProc /\ UNCHANGED run

GroupEnds ==
    /\ proc.group /\ (proc.killed \/ proc.leader = "dead")
    /\ proc' = [proc EXCEPT !.group = FALSE]
    /\ OnProc /\ UNCHANGED <<run, env>>

\* Mutated form: the end of the leader is taken for the end of its output.
copiedNot == job.inherits => ~proc.group

\* command.Wait returns when the leader is reaped and the copiers have seen
\* the end of the output, which a child that inherited it can delay; what is
\* left of the output is flushed before done is closed.
copied == proc.output = <<>> /\ (job.inherits => ~proc.group)

WaiterDone ==
    /\ proc.waiter /\ ~proc.done /\ proc.leader = "dead"
    /\ copied
    /\ proc' = [proc EXCEPT !.done = TRUE]
    /\ OnProc /\ UNCHANGED <<run, env>>

Full(records, name) == name \notin records /\ Cardinality(records) >= MaxRunRecords

\* A record replaces the one of its name; one too many is a protocol error, as
\* is one that does not decode or whose value is out of range.
observeMetric(line) ==
    IF ~line.good \/ Full(run.metrics, line.name) THEN [run EXCEPT !.err = TRUE]
    ELSE [run EXCEPT !.metrics = @ \cup {line.name}]

observeArtifact(line) ==
    IF ~line.good \/ Full(run.artifacts, line.name) THEN [run EXCEPT !.err = TRUE]
    ELSE [run EXCEPT !.artifacts = @ \cup {line.name}]

\* The copier hands a line to observeRunProtocol, which takes the mutex.
observeRunProtocol ==
    /\ proc.output # <<>> /\ ~agent.locked
    /\ LET line == Head(proc.output)
       IN  run' = IF line.type = "metric" THEN observeMetric(line) ELSE observeArtifact(line)
    /\ proc' = [proc EXCEPT !.output = Tail(@)]
    /\ OnProc /\ UNCHANGED env

(***************************************************************************)
(* The batch request.                                                      *)
(***************************************************************************)
OnBatch == UNCHANGED <<job, model, agent, start, relay, run>>
BatchAt(at, failed) == batch' = [batch EXCEPT !.at = at, !.err = @ \/ failed]

\* The runner answers on its pipe; when the context ends first, and when the
\* answer is not one to this request, Generate stops the process itself.
Generate ==
    /\ job.kind = "runner"
    /\ \/ Serves /\ BatchAt("output", FALSE) /\ UNCHANGED env
       \/ ~Serves /\ BatchAt("kill", TRUE) /\ UNCHANGED env
       \/ batch.stopping /\ BatchAt("genKill", FALSE) /\ UNCHANGED env
       \/ Fault /\ (BatchAt("kill", TRUE) \/ BatchAt("genKill", TRUE))

HTTPGenerate ==
    \E result \in {"answer", "error", "canceled"} :
        /\ doJSON(result, batch.stopping)
        /\ BatchAt(IF result = "answer" THEN "output" ELSE "kill", result = "error")

GenerateOllama == job.kind = "ollama" /\ HTTPGenerate
GenerateLlamaCpp == job.kind = "llama" /\ HTTPGenerate

RequestBatch ==
    /\ batch.at = "generate"
    /\ Generate \/ GenerateOllama \/ GenerateLlamaCpp
    /\ OnBatch /\ UNCHANGED proc

LogResult ==
    /\ batch.at = "output"
    /\ batch' = [batch EXCEPT !.at = "kill", !.logged = TRUE]
    /\ OnBatch /\ UNCHANGED <<proc, env>>

errorsJoin(generateErr, stopErr) == generateErr \/ stopErr

\* Stop, inside Generate or after it.  The error of a stop inside a cancelled
\* Generate is dropped with the cancellation.
BatchKill ==
    /\ batch.at \in {"genKill", "kill"}
    /\ \/ /\ StopKill("batch") /\ UNCHANGED env
          /\ BatchAt(IF batch.at = "kill" THEN "wait" ELSE "genWait", FALSE)
       \/ /\ StopKillFails("batch")
          /\ IF batch.at = "kill" THEN BatchAt("done", errorsJoin(batch.err, TRUE)) ELSE BatchAt("kill", FALSE)
    /\ OnBatch

BatchWait ==
    /\ batch.at \in {"genWait", "wait"}
    /\ LET next(stopErr) == IF batch.at = "wait" THEN BatchAt("done", errorsJoin(batch.err, stopErr))
                            ELSE BatchAt("kill", FALSE)
       IN  \/ StopDone /\ next(FALSE) /\ UNCHANGED env
           \/ StopTimesOut /\ next(TRUE)
    /\ proc' = Unlocked
    /\ OnBatch

(***************************************************************************)
(* The relay of a server.                                                  *)
(***************************************************************************)
OnRelay == UNCHANGED <<job, model, agent, start, proc, batch, run>>
Conn(c) == relay.conns[c]
SetConn(c, conn) == relay' = [relay EXCEPT !.conns[c] = conn]

accept(c) ==
    /\ relay.open /\ relay.accepting /\ Conn(c).at = "none"
    /\ SetConn(c, [NoConn EXCEPT !.at = "dial"])
    /\ OnRelay /\ UNCHANGED env

\* proxy dials the upstream and copies in both directions.
Dial(c) ==
    /\ Conn(c).at = "dial"
    /\ \/ (Serves \/ env.port = "foreign") /\ SetConn(c, [c2u |-> TRUE, u2c |-> TRUE, at |-> "open"])
       \/ ~Serves /\ SetConn(c, Closed)
    /\ OnRelay /\ UNCHANGED env

\* A direction ends with the end of its source; proxy returns after both.
Drained(conn) == IF conn.c2u \/ conn.u2c THEN conn ELSE Closed

ClientCloses(c) ==
    /\ Conn(c).at = "open" /\ Conn(c).c2u
    /\ SetConn(c, Drained([Conn(c) EXCEPT !.c2u = FALSE]))
    /\ OnRelay /\ UNCHANGED env

\* The runtime answers a client that has stopped sending, or dies.
UpstreamCloses(c) ==
    /\ Conn(c).at = "open" /\ Conn(c).u2c /\ (~Conn(c).c2u \/ ~Serves)
    /\ SetConn(c, Drained([Conn(c) EXCEPT !.u2c = FALSE]))
    /\ OnRelay /\ UNCHANGED env

\* The accept loop ends when Stop has closed the listener, or by an error.
AcceptEnds ==
    /\ relay.accepting
    /\ (~relay.open /\ UNCHANGED env) \/ (relay.open /\ Fault)
    /\ relay' = [relay EXCEPT !.accepting = FALSE]
    /\ OnRelay

(***************************************************************************)
(* The agent: it waits for the start under the lease, and stops the handle *)
(* when the start was cancelled, when the assignment asks for it, when the *)
(* handle is no longer alive, or when the lease has run out.               *)
(***************************************************************************)
OnAgent == UNCHANGED <<job, model, start>>
AgentAt(at) == agent' = [agent EXCEPT !.at = at]
BatchCancelled == [batch EXCEPT !.stopping = (job.role = "batch")]
FirstStop == IF job.role = "server" THEN "close" ELSE "kill"

\* refreshStartupLease fails, or the assignment has changed meanwhile.
CancelStart ==
    /\ agent.at = "starting" /\ start.at # "completed"
    /\ AgentAt("cancelled") /\ start' = [start EXCEPT !.cancelled = TRUE]
    /\ UNCHANGED <<job, model, proc, batch, relay, run, env>>

StartCompleted ==
    /\ start.at = "completed"
    /\ \/ agent.at = "starting" /\ AgentAt(IF start.err THEN "failed" ELSE "running")
       \/ agent.at = "cancelled" /\ AgentAt(IF start.err THEN "failed" ELSE FirstStop)
    /\ batch' = IF agent.at = "cancelled" THEN BatchCancelled ELSE batch
    /\ OnAgent /\ UNCHANGED <<proc, relay, run, env>>

\* stopProcess takes the mutex and keeps it until Stop has returned.
stopProcess ==
    /\ agent.at = "running"
    /\ agent' = [at |-> FirstStop, locked |-> TRUE, asked |-> TRUE, err |-> FALSE]
    /\ batch' = BatchCancelled
    /\ OnAgent /\ UNCHANGED <<proc, relay, run, env>>

\* Mutated form: the mutex is not released.
ReturnedLocked(failed) ==
    agent' = [agent EXCEPT !.err = FALSE,
                           !.at = IF ~agent.locked THEN "failed" ELSE IF failed THEN "running" ELSE "stopped"]

\* A failed Stop leaves the handle in place, for the next pass to stop.
Returned(failed) ==
    agent' = [agent EXCEPT !.locked = FALSE, !.err = FALSE,
                           !.at = IF ~agent.locked THEN "failed" ELSE IF failed THEN "running" ELSE "stopped"]

\* relay.Stop: a listener that is closed already answers with an error.
CloseListener ==
    /\ agent.at = "close"
    /\ agent' = [agent EXCEPT !.at = "drain", !.err = ~relay.open]
    /\ relay' = [relay EXCEPT !.open = FALSE]
    /\ OnAgent /\ UNCHANGED <<proc, batch, run, env>>

DrainConns ==
    /\ agent.at = "drain" /\ ~relay.accepting
    /\ \A c \in Clients : Conn(c).at \in {"none", "closed"}
    /\ AgentAt("kill")
    /\ OnAgent /\ UNCHANGED <<proc, batch, relay, run, env>>

AgentKill ==
    /\ agent.at = "kill"
    /\ \/ StopKill("agent") /\ AgentAt("wait") /\ UNCHANGED env
       \/ /\ StopKillFails("agent")
          /\ IF job.role = "batch" THEN agent' = [agent EXCEPT !.at = "join", !.err = TRUE] ELSE Returned(TRUE)
    /\ OnAgent /\ UNCHANGED <<batch, relay, run>>

AgentWait ==
    /\ agent.at = "wait"
    /\ LET next(stopErr) == IF job.role = "batch"
                            THEN agent' = [agent EXCEPT !.at = "join", !.err = @ \/ stopErr]
                            ELSE Returned(agent.err \/ stopErr)
       IN  \/ StopDone /\ next(FALSE) /\ UNCHANGED env
           \/ StopTimesOut /\ next(TRUE)
    /\ proc' = Unlocked
    /\ OnAgent /\ UNCHANGED <<batch, relay, run>>

\* batchProcess.Stop waits for its goroutine as well.
JoinBatch ==
    /\ agent.at = "join"
    /\ \/ batch.at = "done" /\ Returned(agent.err) /\ UNCHANGED env
       \/ batch.at # "done" /\ Fault /\ Returned(TRUE)
    /\ OnAgent /\ UNCHANGED <<proc, batch, relay, run>>

\* The assignment is over: nothing is left to do.
Over == agent.at \in {"stopped", "failed"} /\ UNCHANGED vars

(***************************************************************************)
(* Specification.                                                          *)
(***************************************************************************)
Starting ==
    \/ ResolveModel \/ StartRuntime \/ OnSpawn \/ ReapUnrecorded \/ Ready
    \/ warmAndVerifyMetal \/ startBatchProcess \/ startServingRelay \/ AbortKill \/ AbortWait
Stopping == CloseListener \/ DrainConns \/ AgentKill \/ AgentWait \/ JoinBatch
Batching == RequestBatch \/ LogResult \/ BatchKill \/ BatchWait
Relaying == AcceptEnds \/ \E c \in Clients : accept(c) \/ Dial(c) \/ ClientCloses(c) \/ UpstreamCloses(c)

Next ==
    \/ Discover \/ EditModel \/ TakePort
    \/ BindAndLoad \/ PrintLine \/ DeadlineKills \/ LeaderExits \/ GroupEnds \/ WaiterDone \/ observeRunProtocol
    \/ Starting \/ Batching \/ Relaying
    \/ CancelStart \/ StartCompleted \/ stopProcess \/ Stopping
    \/ Over

Spec == Init /\ [][Next]_vars

\* The goroutines run on, a killed process goes away, and the copier gets the
\* mutex in the end: a sync.Mutex hands itself to a goroutine that starves.
\* Nothing is assumed of the clients of a server.
Fairness ==
    /\ WF_vars(Starting) /\ WF_vars(Stopping) /\ WF_vars(Batching) /\ WF_vars(StartCompleted)
    /\ WF_vars(agent.asked /\ stopProcess)
    /\ WF_vars(proc.killed /\ LeaderExits) /\ WF_vars(GroupEnds) /\ WF_vars(WaiterDone)
    /\ SF_vars(observeRunProtocol) /\ WF_vars(AcceptEnds)
    /\ \A c \in Clients : WF_vars(Dial(c)) /\ WF_vars(UpstreamCloses(c))

FairSpec == Spec /\ Fairness

(***************************************************************************)
(* Properties.                                                             *)
(***************************************************************************)
\* When stopProcess has given up the handle the process is dead and reaped,
\* its output is processed, no connection and no batch goroutine is left, and
\* of a model runtime no process of the group either.
StoppedMeansGone ==
    agent.at = "stopped" =>
        /\ proc.leader = "dead" /\ proc.done /\ proc.killed /\ proc.output = <<>>
        /\ job.kind # "command" => ~proc.group
        /\ job.role = "batch" => batch.at = "done"
        /\ ~relay.accepting /\ \A c \in Clients : Conn(c).at \in {"none", "closed"}

\* A GGUF runtime never loads bytes that verification at the start has seen
\* and that are not the pinned ones, whatever the discovery cache believes.
WrongModelNeverLoaded == proc.loaded # "other"

\* A batch that ends without an error, and was not stopped, has logged its
\* answer and has left no process behind.
SucceededMeansAnswered ==
    batch.at = "done" /\ ~batch.err /\ ~batch.stopping => batch.logged /\ proc.done /\ ~proc.group

\* Once the handle of a training run is no longer alive, every metric and every
\* artifact it has printed is in the run status, or the run has a protocol
\* error: the lines are all processed before done is closed.
LinesBeforeEnd ==
    proc.done =>
        \/ run.err
        \/ \A line \in run.printed : line.name \in (IF line.type = "metric" THEN run.metrics ELSE run.artifacts)

\* What the handle of a finished run reports is what the run did.
EndIsFaithful == SucceededMeansAnswered /\ LinesBeforeEnd

\* A stop the agent has begun ends with the handle given up, retries of it
\* included, and a cancelled start comes to an end.
StopReturns ==
    /\ agent.asked ~> agent.at = "stopped"
    /\ start.cancelled ~> agent.at = "failed"

\* A server the agent has begun to stop is stopped in the end.
ServerStops == agent.asked ~> proc.leader = "dead"
=============================================================================
