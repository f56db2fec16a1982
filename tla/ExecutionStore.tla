--------------------------- MODULE ExecutionStore ---------------------------
(***************************************************************************)
(* The agent's durable journal (internal/native/execution/store.go): one   *)
(* record in one file, guarded by a lock file.  An operation checks the    *)
(* in-memory record, writes a temporary file, renames it over the file,    *)
(* syncs the directory and only then changes the in-memory record.  Any    *)
(* of these can fail, the agent can die between any two, and a power       *)
(* failure undoes what was not synced.                                     *)
(***************************************************************************)
EXTENDS Naturals

CONSTANTS
    Agents,     \* agent processes that may open the store, one after another
    Execs,      \* execution identities: workload, assignment, execution, epoch
    Plans,      \* planned process identities: executable, runtime, nonce
    Pids,       \* process identities: PID and start token
    Exits,      \* exit errors of a completed execution, the empty one included
    None        \* the absent value

ASSUME StoreAssumption ==
    None \notin Agents \cup Execs \cup Plans \cup Pids

VARIABLES
    lock,       \* the agent that holds the lock file, or None
    record,     \* the in-memory record of the lock holder
    visible,    \* the content of the state file as a process reads it
    synced,     \* the content a power failure leaves
    op,         \* the mutating operation in progress, under Store.mu
    acked       \* history: the last record acknowledged and not given up since

vars == <<lock, record, visible, synced, op, acked>>

Empty == [exec |-> None, plan |-> None, pid |-> None, done |-> FALSE, exit |-> None]

Record == [exec : Execs, plan : Plans, pid : Pids \cup {None},
           done : BOOLEAN, exit : Exits \cup {None}] \cup {Empty}

Idle == [at |-> "idle", new |-> Empty]

TypeOK ==
    /\ lock \in Agents \cup {None}
    /\ record \in Record
    /\ visible \in Record
    /\ synced \in Record
    /\ op \in [at : {"idle", "replace", "sync"}, new : Record]
    /\ acked \in Record

Init ==
    /\ lock = None
    /\ record = Empty
    /\ visible = Empty
    /\ synced = Empty
    /\ op = Idle
    /\ acked = Empty

processIdentityComplete(r) == r.pid # None

validateRecord(r) ==
    /\ r.done => processIdentityComplete(r)
    /\ ~r.done => r.exit = None

-----------------------------------------------------------------------------
(* Opening and closing.                                                    *)

\* Open takes the lock, reads the file and refuses an invalid record.
Open(a) ==
    /\ lock = None
    /\ validateRecord(visible)
    /\ lock' = a
    /\ record' = visible
    /\ UNCHANGED <<visible, synced, op, acked>>

\* Close waits for Store.mu, so no operation is in progress.
Close(a) ==
    /\ lock = a
    /\ op = Idle
    /\ lock' = None
    /\ record' = Empty
    /\ UNCHANGED <<visible, synced, op, acked>>

-----------------------------------------------------------------------------
(* The checks of the mutating operations, under Store.mu.                  *)

\* The operation has passed its checks and starts to persist its record.
Persist(new) ==
    /\ op' = [at |-> "replace", new |-> new]
    /\ UNCHANGED <<lock, record, visible, synced, acked>>

Ready(a) == lock = a /\ op = Idle

\* A second Begin is refused as busy, or is a no-op for the same plan.
Begin(a, exec, plan) ==
    /\ Ready(a)
    /\ record = Empty
    /\ Persist([exec |-> exec, plan |-> plan, pid |-> None, done |-> FALSE, exit |-> None])

\* The process of the planned execution is recorded once.
UpdateProcess(a, exec, plan, pid) ==
    /\ Ready(a)
    /\ record.exec = exec
    /\ ~record.done
    /\ record.plan = plan
    /\ ~processIdentityComplete(record)
    /\ Persist([record EXCEPT !.pid = pid])

\* Mutated form of Complete: a recorded completion can be overwritten.
CompleteAgain(a, exec, exit) ==
    /\ Ready(a)
    /\ record.exec = exec
    /\ processIdentityComplete(record)
    /\ Persist([record EXCEPT !.done = TRUE, !.exit = exit])

\* The outcome of the recorded process is recorded once.
Complete(a, exec, exit) ==
    /\ Ready(a)
    /\ record.exec = exec
    /\ processIdentityComplete(record)
    /\ ~record.done
    /\ Persist([record EXCEPT !.done = TRUE, !.exit = exit])

\* Clear removes the record of the execution it was called for.
Clear(a, exec) ==
    /\ Ready(a)
    /\ record.exec = exec
    /\ Persist(Empty)

-----------------------------------------------------------------------------
(* persist and the tail of Clear.                                          *)

\* Creating, writing, syncing or closing the temporary file fails, or the
\* rename or the removal does: the operation returns the error.
PersistFails ==
    /\ op.at = "replace"
    /\ op' = Idle
    /\ UNCHANGED <<lock, record, visible, synced, acked>>

\* The rename replaces the file, or the removal deletes it.
Replace ==
    /\ op.at = "replace"
    /\ visible' = op.new
    /\ op' = [op EXCEPT !.at = "sync"]
    /\ acked' = IF op.new = Empty THEN Empty ELSE acked
    /\ UNCHANGED <<lock, record, synced>>

\* Mutated form of SyncDirectory: the directory is not synced.
SyncSkipped ==
    /\ op.at = "sync"
    /\ record' = op.new
    /\ acked' = op.new
    /\ op' = Idle
    /\ UNCHANGED <<lock, visible, synced>>

\* The directory is synced, the in-memory record follows, and the operation
\* returns without error.
SyncDirectory ==
    /\ op.at = "sync"
    /\ synced' = visible
    /\ record' = op.new
    /\ acked' = op.new
    /\ op' = Idle
    /\ UNCHANGED <<lock, visible>>

\* The sync fails after the file has changed: memory keeps the old record.
SyncFails ==
    /\ op.at = "sync"
    /\ op' = Idle
    /\ UNCHANGED <<lock, record, visible, synced, acked>>

-----------------------------------------------------------------------------
(* The environment.                                                        *)

\* The operating system writes the directory back on its own.
WriteBack ==
    /\ synced # visible
    /\ synced' = visible
    /\ UNCHANGED <<lock, record, visible, op, acked>>

\* The agent dies at any point; the kernel releases its lock.
Crash ==
    /\ lock # None
    /\ lock' = None
    /\ record' = Empty
    /\ op' = Idle
    /\ UNCHANGED <<visible, synced, acked>>

PowerFailure ==
    /\ lock' = None
    /\ record' = Empty
    /\ op' = Idle
    /\ visible' = synced
    /\ UNCHANGED <<synced, acked>>

Next ==
    \/ \E a \in Agents :
          \/ Open(a)
          \/ Close(a)
          \/ \E exec \in Execs :
                \/ \E plan \in Plans : Begin(a, exec, plan)
                \/ \E plan \in Plans, pid \in Pids : UpdateProcess(a, exec, plan, pid)
                \/ \E exit \in Exits : Complete(a, exec, exit)
                \/ Clear(a, exec)
    \/ PersistFails
    \/ Replace
    \/ SyncDirectory
    \/ SyncFails
    \/ WriteBack
    \/ Crash
    \/ PowerFailure

Spec == Init /\ [][Next]_vars

-----------------------------------------------------------------------------
(* Properties.                                                             *)

\* r is the record a, or a later stage of the same planned execution.
Extends(r, a) ==
    /\ r.exec = a.exec /\ r.plan = a.plan
    /\ a.pid # None => r.pid = a.pid
    /\ a.done => r = a

\* A record whose operation returned without error is never lost: until its
\* removal starts, whatever a restarted agent reads, after any sequence of
\* failed operations, crashes and power failures, names the same execution,
\* the same process once one was recorded, and the same outcome once one was
\* recorded.  Orphan recovery and completed-run replay rest on this.
AckedSurvives ==
    acked # Empty => Extends(visible, acked) /\ Extends(synced, acked)

\* The store never writes a file that its own Open refuses: an agent can
\* always restart on what a crash left.
OpenAccepts == validateRecord(visible) /\ validateRecord(synced)

\* The journal is durable: nothing acknowledged is lost, nothing unreadable
\* is left.
Durable == AckedSurvives /\ OpenAccepts

\* The store implements the abstract journal the agent is written against.
Closed == [exec |-> None, plan |-> None, pid |-> None, done |-> TRUE, exit |-> None]

Journal == INSTANCE ExecutionJournal
             WITH known <- IF lock = None THEN Closed ELSE record,
                  possible <- {visible, synced}

ImplementsJournal == Journal!Spec
=============================================================================
