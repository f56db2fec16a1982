------------------------ MODULE ExecutionStoreProofs ------------------------
(***************************************************************************)
(* Proofs about ExecutionStore for any sets of agents, executions and      *)
(* processes: acknowledged records survive, and the store implements the   *)
(* abstract journal.                                                       *)
(***************************************************************************)
EXTENDS ExecutionStore, TLAPS

\* How memory, the operation in progress and the file are related: the file
\* already holds the record of an operation that only lacks its sync, memory
\* and that record extend what was acknowledged, and every operation writes a
\* successor of the record in memory.
MemoryInv ==
    /\ lock = None => op = Idle /\ record = Empty
    /\ validateRecord(record)
    /\ validateRecord(op.new)
    /\ op.at = "sync" => visible = op.new
    /\ op.at = "sync" /\ op.new = Empty => acked = Empty
    /\ acked # Empty /\ lock # None => Extends(record, acked)
    /\ acked # Empty /\ op.at # "idle" /\ op.new # Empty => Extends(op.new, acked)
    /\ op.at # "idle" => Journal!Successor(record, op.new)

IInv == TypeOK /\ OpenAccepts /\ AckedSurvives /\ MemoryInv

\* The empty store satisfies the inductive invariant.
LEMMA InitIInv == Init => IInv
  BY DEF Init, IInv, TypeOK, OpenAccepts, AckedSurvives, MemoryInv, Record, Idle, Empty,
         validateRecord, processIdentityComplete, Extends

\* What each operation is about to persist is a valid record that extends the
\* one in memory, or the empty one.
LEMMA PersistKeeps ==
    ASSUME IInv, NEW new \in Record, op = Idle, lock # None, Persist(new),
           validateRecord(new),
           Journal!Successor(record, new),
           acked # Empty /\ new # Empty => Extends(new, acked)
    PROVE  IInv'
  <1>1. /\ op' = [at |-> "replace", new |-> new]
        /\ UNCHANGED <<lock, record, visible, synced, acked>>
    BY DEF Persist
  <1>2. op'.at = "replace" /\ op'.new = new
    BY <1>1
  <1>3. TypeOK' /\ OpenAccepts' /\ AckedSurvives'
    BY <1>1 DEF IInv, TypeOK, OpenAccepts, AckedSurvives, validateRecord,
                processIdentityComplete, Extends
  <1>4. Journal!Successor(record, op.new)'
    BY <1>1, <1>2 DEF Journal!Successor, Journal!Empty
  <1>5. MemoryInv'
    BY <1>1, <1>2, <1>4 DEF IInv, MemoryInv, validateRecord, processIdentityComplete, Extends
  <1> QED BY <1>3, <1>5 DEF IInv

\* Begin persists a planned record over an empty one.
LEMMA BeginKeeps ==
    ASSUME IInv, NEW a \in Agents, NEW exec \in Execs, NEW plan \in Plans,
           Begin(a, exec, plan)
    PROVE  IInv'
  <1> DEFINE new == [exec |-> exec, plan |-> plan, pid |-> None, done |-> FALSE, exit |-> None]
  <1>1. lock # None /\ op = Idle /\ record = Empty /\ Persist(new)
    BY StoreAssumption DEF Begin, Ready
  <1>2. new \in Record /\ validateRecord(new)
    BY DEF Record, validateRecord, processIdentityComplete
  <1>3. Journal!Successor(record, new)
    BY <1>1 DEF Journal!Successor, Journal!Empty, Empty
  <1>4. acked = Empty
    <2>1. ~Extends(Empty, acked) \/ acked.exec = None
      BY DEF Extends, Empty
    <2>2. acked # Empty => acked.exec # None
      BY StoreAssumption DEF IInv, TypeOK, Record
    <2> QED BY <1>1, <2>1, <2>2 DEF IInv, MemoryInv
  <1> QED BY <1>1, <1>2, <1>3, <1>4, PersistKeeps

\* UpdateProcess adds a process to a record that has none.
LEMMA UpdateProcessKeeps ==
    ASSUME IInv, NEW a \in Agents, NEW exec \in Execs, NEW plan \in Plans, NEW pid \in Pids,
           UpdateProcess(a, exec, plan, pid)
    PROVE  IInv'
  <1> DEFINE new == [record EXCEPT !.pid = pid]
  <1>1. /\ lock # None /\ op = Idle /\ record.exec = exec /\ ~record.done
        /\ record.pid = None /\ Persist(new)
    BY StoreAssumption DEF UpdateProcess, Ready, processIdentityComplete
  <1>2. record # Empty /\ record \in Record /\ validateRecord(record)
    BY <1>1, StoreAssumption DEF Empty, IInv, TypeOK, MemoryInv
  <1>3. record \in [exec : Execs, plan : Plans, pid : Pids \cup {None},
                    done : BOOLEAN, exit : Exits \cup {None}]
    BY <1>2 DEF Record
  <1>4. /\ new \in [exec : Execs, plan : Plans, pid : Pids \cup {None},
                    done : BOOLEAN, exit : Exits \cup {None}]
        /\ new.exec = record.exec /\ new.plan = record.plan /\ new.pid = pid
        /\ new.done = record.done /\ new.exit = record.exit
    BY <1>3
  <1>5. new \in Record /\ validateRecord(new)
    BY <1>1, <1>2, <1>4 DEF Record, validateRecord
  <1>6. Journal!Successor(record, new)
    BY <1>1, <1>2 DEF Journal!Successor, Journal!Empty, Empty
  <1>7. acked # Empty => Extends(new, acked)
    BY <1>1, <1>4 DEF IInv, MemoryInv, Extends
  <1> QED BY <1>1, <1>5, <1>6, <1>7, PersistKeeps

\* Complete adds an outcome to a record that has a process and no outcome.
LEMMA CompleteKeeps ==
    ASSUME IInv, NEW a \in Agents, NEW exec \in Execs, NEW exit \in Exits,
           Complete(a, exec, exit)
    PROVE  IInv'
  <1> DEFINE new == [record EXCEPT !.done = TRUE, !.exit = exit]
  <1>1. /\ lock # None /\ op = Idle /\ record.exec = exec /\ ~record.done
        /\ record.pid # None /\ Persist(new)
    BY StoreAssumption DEF Complete, Ready, processIdentityComplete
  <1>2. record # Empty /\ record \in Record
    BY <1>1, StoreAssumption DEF Empty, IInv, TypeOK
  <1>3. record \in [exec : Execs, plan : Plans, pid : Pids \cup {None},
                    done : BOOLEAN, exit : Exits \cup {None}]
    BY <1>2 DEF Record
  <1>4. /\ new \in [exec : Execs, plan : Plans, pid : Pids \cup {None},
                    done : BOOLEAN, exit : Exits \cup {None}]
        /\ new.exec = record.exec /\ new.plan = record.plan /\ new.pid = record.pid
        /\ new.done = TRUE
    BY <1>3
  <1>5. new \in Record /\ validateRecord(new)
    BY <1>1, <1>4 DEF Record, validateRecord, processIdentityComplete
  <1>6. Journal!Successor(record, new)
    BY <1>1, <1>2 DEF Journal!Successor, Journal!Empty, Empty
  <1>7. acked # Empty => Extends(new, acked)
    <2>1. acked # Empty => Extends(record, acked)
      BY <1>1 DEF IInv, MemoryInv
    <2>2. acked # Empty => ~acked.done
      BY <1>1, <2>1 DEF Extends
    <2> QED BY <1>4, <2>1, <2>2 DEF Extends
  <1> QED BY <1>1, <1>5, <1>6, <1>7, PersistKeeps

\* Clear persists the empty record.
LEMMA ClearKeeps ==
    ASSUME IInv, NEW a \in Agents, NEW exec \in Execs, Clear(a, exec)
    PROVE  IInv'
  <1>1. lock # None /\ op = Idle /\ Persist(Empty)
    BY StoreAssumption DEF Clear, Ready
  <1>2. Empty \in Record /\ validateRecord(Empty)
    BY DEF Record, validateRecord, Empty
  <1>3. Journal!Successor(record, Empty)
    BY DEF Journal!Successor, Journal!Empty, Empty
  <1> QED BY <1>1, <1>2, <1>3, PersistKeeps

\* The file, the sync and the environment preserve the inductive invariant.
LEMMA NextIInv == IInv /\ [Next]_vars => IInv'
  <1> SUFFICES ASSUME IInv, [Next]_vars PROVE IInv'
    OBVIOUS
  <1> USE DEF IInv
  <1>e. Empty \in Record /\ validateRecord(Empty) /\ Idle.at = "idle" /\ Idle.new = Empty
    BY DEF Record, validateRecord, Empty, Idle
  <1>i. Idle \in [at : {"idle", "replace", "sync"}, new : Record]
    BY <1>e DEF Idle
  <1>1. ASSUME NEW a \in Agents, Open(a) PROVE IInv'
    BY <1>1, <1>e, StoreAssumption
    DEF Open, TypeOK, OpenAccepts, AckedSurvives, MemoryInv, validateRecord,
        processIdentityComplete, Extends, Journal!Successor
  <1>2. ASSUME NEW a \in Agents, Close(a) PROVE IInv'
    BY <1>2, <1>e
    DEF Close, TypeOK, OpenAccepts, AckedSurvives, MemoryInv, validateRecord,
        processIdentityComplete, Extends
  <1>3. CASE PersistFails
    BY <1>3, <1>e, <1>i
    DEF PersistFails, TypeOK, OpenAccepts, AckedSurvives, MemoryInv, validateRecord,
        processIdentityComplete, Extends
  <1>4. CASE Replace
    <2>1. /\ op.at = "replace" /\ visible' = op.new /\ op' = [op EXCEPT !.at = "sync"]
          /\ acked' = (IF op.new = Empty THEN Empty ELSE acked)
          /\ UNCHANGED <<lock, record, synced>>
      BY <1>4 DEF Replace
    <2>2. op'.new = op.new /\ op'.at = "sync"
      BY <2>1 DEF TypeOK
    <2>3. lock # None
      BY <2>1, <1>e DEF MemoryInv
    <2>4. TypeOK'
      BY <2>1, <1>e DEF TypeOK
    <2>5. OpenAccepts' /\ AckedSurvives'
      BY <2>1, <2>2, <2>3
      DEF OpenAccepts, AckedSurvives, MemoryInv, validateRecord, processIdentityComplete, Extends
    <2>6. MemoryInv'
      BY <2>1, <2>2, <2>3
      DEF MemoryInv, validateRecord, processIdentityComplete, Extends, Journal!Successor,
          Journal!Empty
    <2> QED BY <2>4, <2>5, <2>6
  <1>5. CASE SyncDirectory
    <2>1. /\ op.at = "sync" /\ synced' = visible /\ record' = op.new /\ acked' = op.new
          /\ op' = Idle /\ UNCHANGED <<lock, visible>>
      BY <1>5 DEF SyncDirectory
    <2>2. visible = op.new /\ lock # None /\ op.new \in Record
      BY <2>1, <1>e DEF MemoryInv, TypeOK
    <2>3. TypeOK'
      BY <2>1, <2>2, <1>i DEF TypeOK
    <2>4. OpenAccepts' /\ AckedSurvives'
      BY <2>1, <2>2
      DEF OpenAccepts, AckedSurvives, MemoryInv, validateRecord, processIdentityComplete, Extends
    <2>5. MemoryInv'
      BY <2>1, <2>2, <1>e
      DEF MemoryInv, validateRecord, processIdentityComplete, Extends
    <2> QED BY <2>3, <2>4, <2>5
  <1>6. CASE SyncFails
    BY <1>6, <1>e, <1>i
    DEF SyncFails, TypeOK, OpenAccepts, AckedSurvives, MemoryInv, validateRecord,
        processIdentityComplete, Extends
  <1>7. CASE WriteBack
    <2>1. UNCHANGED <<lock, record, visible, op, acked>> /\ synced' \in {synced, visible}
      BY <1>7 DEF WriteBack
    <2>2. TypeOK' /\ OpenAccepts' /\ AckedSurvives'
      BY <2>1 DEF TypeOK, OpenAccepts, AckedSurvives, validateRecord,
                  processIdentityComplete, Extends
    <2>3. op.at # "idle" => Journal!Successor(record, op.new)'
      BY <2>1 DEF MemoryInv, Journal!Successor, Journal!Empty
    <2>4. MemoryInv'
      BY <2>1, <2>3 DEF MemoryInv, validateRecord, processIdentityComplete, Extends
    <2> QED BY <2>2, <2>4
  <1>8. CASE Crash
    BY <1>8, <1>e, <1>i
    DEF Crash, TypeOK, OpenAccepts, AckedSurvives, MemoryInv, validateRecord,
        processIdentityComplete, Extends
  <1>9. CASE PowerFailure
    BY <1>9, <1>e, <1>i
    DEF PowerFailure, TypeOK, OpenAccepts, AckedSurvives, MemoryInv, validateRecord,
        processIdentityComplete, Extends
  <1>10. CASE UNCHANGED vars
    <2>1. UNCHANGED <<lock, record, visible, op, acked>> /\ synced' \in {synced, visible}
      BY <1>10 DEF vars
    <2>2. TypeOK' /\ OpenAccepts' /\ AckedSurvives'
      BY <2>1 DEF TypeOK, OpenAccepts, AckedSurvives, validateRecord,
                  processIdentityComplete, Extends
    <2>3. op.at # "idle" => Journal!Successor(record, op.new)'
      BY <2>1 DEF MemoryInv, Journal!Successor, Journal!Empty
    <2>4. MemoryInv'
      BY <2>1, <2>3 DEF MemoryInv, validateRecord, processIdentityComplete, Extends
    <2> QED BY <2>2, <2>4
  <1> QED
    BY <1>1, <1>2, <1>3, <1>4, <1>5, <1>6, <1>7, <1>8, <1>9, <1>10,
       BeginKeeps, UpdateProcessKeeps, CompleteKeeps, ClearKeeps DEF Next

\* For any sets of agents, executions and processes: an acknowledged record is
\* never lost before its removal, and the file can always be opened.
THEOREM StoreDurable == Spec => [](TypeOK /\ Durable)
  <1>1. IInv => TypeOK /\ Durable
    BY DEF IInv, Durable
  <1> QED BY <1>1, InitIInv, NextIInv, PTL DEF Spec

\* Every behaviour of the file, lock, rename and sync is one of the abstract
\* journal.
THEOREM StoreRefines == Spec => ImplementsJournal
  <1>1. Init => Journal!Init
    BY DEF Init, Journal!Init, Journal!Closed, Journal!Empty, Closed, Empty
  <1>2. IInv /\ [Next]_vars => [Journal!Next]_(Journal!vars)
    <2> SUFFICES ASSUME IInv, [Next]_vars PROVE [Journal!Next]_(Journal!vars)
      OBVIOUS
    <2> USE DEF Journal!vars
    <2>r. ASSUME NEW r \in Record, validateRecord(r) PROVE r # Closed
      BY <2>r, StoreAssumption DEF Record, Closed, Empty, validateRecord, processIdentityComplete
    <2>1. ASSUME NEW a \in Agents, Open(a) PROVE Journal!Open
      BY <2>1, StoreAssumption DEF Open, Journal!Open, Closed, Journal!Closed
    <2>2. ASSUME NEW a \in Agents, Close(a) PROVE Journal!Crash
      BY <2>2 DEF Close, Journal!Crash, Closed, Journal!Closed
    <2>3. CASE Replace
      <3>1. /\ op.at = "replace" /\ visible' = op.new /\ UNCHANGED <<lock, record, synced>>
        BY <2>3 DEF Replace
      <3>2. lock # None /\ Journal!Successor(record, op.new) /\ record # Closed
        BY <3>1, <2>r DEF IInv, TypeOK, MemoryInv, Idle
      <3>3. Journal!Attempt
        BY <3>1, <3>2 DEF Journal!Attempt, Journal!Closed, Closed, Journal!Successor, Journal!Empty
      <3> QED BY <3>3 DEF Journal!Next
    <2>4. CASE SyncDirectory
      <3>1. /\ op.at = "sync" /\ synced' = visible /\ record' = op.new
            /\ UNCHANGED <<lock, visible>>
        BY <2>4 DEF SyncDirectory
      <3>2. /\ lock # None /\ Journal!Successor(record, op.new) /\ record # Closed
            /\ visible = op.new
        BY <3>1, <2>r DEF IInv, TypeOK, MemoryInv, Idle
      <3>3. Journal!Acknowledge
        BY <3>1, <3>2 DEF Journal!Acknowledge, Journal!Closed, Closed
      <3> QED BY <3>3 DEF Journal!Next
    <2>5. CASE WriteBack
      <3>1. Journal!Settle
        BY <2>5 DEF WriteBack, Journal!Settle
      <3> QED BY <3>1 DEF Journal!Next
    <2>6. CASE Crash
      BY <2>6 DEF Crash, Journal!Crash, Journal!Closed, Closed, Journal!Next
    <2>7. CASE PowerFailure
      BY <2>7 DEF PowerFailure, Journal!Crash, Journal!Closed, Closed, Journal!Next
    <2>8. CASE PersistFails \/ SyncFails \/ UNCHANGED vars
      BY <2>8 DEF PersistFails, SyncFails, vars
    <2>9. ASSUME NEW a \in Agents, NEW exec \in Execs,
                 \/ \E plan \in Plans : Begin(a, exec, plan)
                 \/ \E plan \in Plans, pid \in Pids : UpdateProcess(a, exec, plan, pid)
                 \/ \E exit \in Exits : Complete(a, exec, exit)
                 \/ Clear(a, exec)
          PROVE  UNCHANGED Journal!vars
      BY <2>9 DEF Begin, UpdateProcess, Complete, Clear, Persist
    <2> QED
      BY <2>1, <2>2, <2>3, <2>4, <2>5, <2>6, <2>7, <2>8, <2>9 DEF Next, Journal!Next
  <1> QED BY <1>1, <1>2, InitIInv, NextIInv, PTL DEF Spec, ImplementsJournal, Journal!Spec
=============================================================================
