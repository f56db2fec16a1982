----------------------------- MODULE LogBridge -----------------------------
(***************************************************************************)
(* The log of the assignment on a Native host                              *)
(* (internal/native/kubeletbridge): the ring in memory, its copy on disk,  *)
(* which an agent that restarts must be able to open, and the requests     *)
(* that follow the log through the kubelet bridge while lines arrive,      *)
(* entries are evicted and the next assignment takes the ring over.        *)
(*                                                                         *)
(* An entry is its sequence number and the length of its message: in       *)
(* memory it weighs that plus one, on disk that plus the record around it. *)
(***************************************************************************)
EXTENDS Naturals, Sequences, SequencesExt

CONSTANTS Followers,      \* requests with follow=true
          Lengths,        \* message lengths
          Maximum,        \* bytes the ring may hold
          RecordBytes,    \* bytes of a disk record around its message
          MaxAssignments, \* bound: assignments of the host, numbered in order
          MaxEntries,     \* bound: lines of one assignment
          MaxFaults       \* bound: failed writes and crashes

VARIABLES ring,   \* the LogBuffer: assignment, entries, next, fileBytes
          file,   \* container-logs.jsonl, a sequence of records
          agent,  \* whether it runs, its assignment, whether the log has it
          reader, \* per follower the handler and its channel
          env     \* faults so far, whether a write failed

vars == <<ring, file, agent, reader, env>>

maxDiskLogBytes == 4 * Maximum

ResetRecord(a) == [type |-> "reset", assignment |-> a, sequence |-> 0, length |-> 0]
EntryRecord(a, entry) ==
    [type |-> "entry", assignment |-> a, sequence |-> entry.sequence, length |-> entry.length]
\* What a write that stopped half way leaves, and that with a record behind it.
Torn == [type |-> "torn", assignment |-> 0, sequence |-> 0, length |-> 0]
Garbled == [Torn EXCEPT !.type = "garbled"]

Entries == [sequence : 1..MaxEntries, length : Lengths]
Gap == [assignment |-> 0, sequence |-> 0]
Idle == [at |-> "idle", assignment |-> 0, cursor |-> 0, pending |-> FALSE, open |-> FALSE, seen |-> <<>>]

TypeOK ==
    /\ ring.assignment \in 0..MaxAssignments /\ ring.entries \in Seq(Entries)
    /\ ring.next \in 1..(MaxEntries + 1) /\ ring.fileBytes \in Nat
    /\ \A i \in DOMAIN file : file[i].type \in {"reset", "entry", "torn", "garbled"}
    /\ agent.at \in {"up", "down", "refused"} /\ agent.assignment \in 0..MaxAssignments
    /\ \A f \in Followers : reader[f].at \in {"idle", "resolved", "writing", "waiting", "woken", "done"}
    /\ env.faults \in 0..MaxFaults

EmptyRing == [assignment |-> 0, entries |-> <<>>, next |-> 1, fileBytes |-> 0]

Init ==
    /\ ring = EmptyRing
    /\ file = <<>>
    /\ agent = [at |-> "up", assignment |-> 0, logged |-> TRUE, target |-> FALSE]
    /\ reader = [f \in Followers |-> Idle]
    /\ env = [faults |-> 0, failed |-> FALSE, unsaved |-> FALSE]

(***************************************************************************)
(* The ring and the file.                                                  *)
(***************************************************************************)
ringBytes(entries) == FoldLeft(LAMBDA sum, entry : sum + entry.length + 1, 0, entries)

\* The oldest entries go as long as the ring is too heavy; one always stays.
evict[entries \in Seq([sequence : Nat, length : Nat])] ==
    IF ringBytes(entries) > Maximum /\ Len(entries) > 1 THEN evict[Tail(entries)] ELSE entries

appendLocked(entries, entry) == evict[Append(entries, entry)]

Size(records) ==
    FoldLeft(LAMBDA sum, record : sum + record.length + RecordBytes, 0, records)

records(buffer) ==
    <<ResetRecord(buffer.assignment)>>
        \o [i \in DOMAIN buffer.entries |-> EntryRecord(buffer.assignment, buffer.entries[i])]

\* One record of the file applied to what has been read before it.
decodeRecord(read, record) ==
    CASE ~read.ok -> read
      [] record.type = "reset" ->
            [read EXCEPT !.assignment = record.assignment, !.entries = <<>>, !.next = 1]
      [] record.type = "entry" /\ record.assignment = read.assignment /\ record.sequence >= read.next ->
            [read EXCEPT !.next = record.sequence + 1,
                         !.entries = appendLocked(@, [sequence |-> record.sequence, length |-> record.length])]
      [] record.type = "torn" -> [read EXCEPT !.torn = TRUE]
      [] OTHER -> [read EXCEPT !.ok = FALSE]

decode(lines) ==
    FoldLeft(decodeRecord, [ok |-> TRUE, torn |-> FALSE, assignment |-> 0, entries |-> <<>>, next |-> 1], lines)

\* The file as idlectl logs --local reads it, without a repair.
ReadLogSnapshot(a) ==
    LET read == decode(file)
    IN  IF Size(file) > maxDiskLogBytes \/ ~read.ok THEN [ok |-> FALSE, entries |-> <<>>]
        ELSE [ok |-> TRUE, entries |-> IF read.assignment = a THEN read.entries ELSE <<>>]

Fails == env.faults < MaxFaults /\ env' = [faults |-> env.faults + 1, failed |-> TRUE, unsaved |-> TRUE]
Saved == env' = [env EXCEPT !.unsaved = FALSE]

\* atomicWrite replaces the file or leaves it alone.
rewriteLocked(buffer) ==
    \/ /\ file' = records(buffer)
       /\ ring' = [buffer EXCEPT !.fileBytes = Size(records(buffer))]
       /\ Saved
    \/ file' = file /\ ring' = buffer /\ Fails

\* A record written to the end of the file, behind a torn one if there is one.
Appended(record) ==
    IF file # <<>> /\ Last(file).type = "torn" THEN Append(Front(file), Garbled) ELSE Append(file, record)

\* The write may fail before, in the middle of, or after the record.
appendDiskLocked(buffer, entry) ==
    LET record == EntryRecord(buffer.assignment, entry)
        bytes == entry.length + RecordBytes
    IN  IF buffer.fileBytes + bytes > 2 * Maximum THEN rewriteLocked(buffer)
        ELSE \/ /\ file' = Appended(record)
                /\ ring' = [buffer EXCEPT !.fileBytes = @ + bytes]
                /\ Saved
             \/ /\ file' \in {file, Appended(Torn), Appended(record)}
                /\ ring' = buffer
                /\ Fails

(***************************************************************************)
(* The agent: assignments and their lines.                                 *)
(***************************************************************************)
\* ensureProcess sets the assignment first and opens its log after that.
AcceptAssignment ==
    /\ agent.at = "up" /\ agent.logged
    /\ \E a \in {agent.assignment, agent.assignment + 1} \ {0} :
          /\ a <= MaxAssignments
          /\ agent' = [agent EXCEPT !.assignment = a, !.logged = FALSE, !.target = TRUE]
    /\ UNCHANGED <<ring, file, reader, env>>

\* The assignment is to stop, or over.
StopAssignment ==
    /\ agent.at = "up" /\ agent.logged /\ agent.target
    /\ agent' = [agent EXCEPT !.target = FALSE]
    /\ UNCHANGED <<ring, file, reader, env>>

Close(r) == [r EXCEPT !.open = FALSE]
Notify(r) == IF r.open THEN [r EXCEPT !.pending = TRUE] ELSE r

\* Every subscriber of the old assignment is closed before the ring changes.
Reset(a, length) ==
    LET first == [sequence |-> 1, length |-> length]
    IN  /\ reader' = [f \in Followers |-> Close(reader[f])]
        /\ rewriteLocked([ring EXCEPT !.assignment = a, !.entries = <<first>>, !.next = 2])

\* A failed write returns before the subscribers are told.
AppendMessage(length) ==
    LET entry == [sequence |-> ring.next, length |-> length]
    IN  /\ ring.next <= MaxEntries
        /\ appendDiskLocked([ring EXCEPT !.entries = appendLocked(@, entry), !.next = @ + 1], entry)
        /\ reader' = [f \in Followers |-> IF env'.unsaved THEN reader[f] ELSE Notify(reader[f])]

\* A retry of the assignment the log is about goes on with it.
beginAssignmentLog ==
    /\ agent.at = "up" /\ ~agent.logged
    /\ \E length \in Lengths :
          IF ring.assignment = agent.assignment THEN AppendMessage(length) ELSE Reset(agent.assignment, length)
    /\ agent' = [agent EXCEPT !.logged = TRUE]

appendLogMessage ==
    /\ agent.at = "up" /\ ring.assignment # 0
    /\ \E length \in Lengths : AppendMessage(length)
    /\ UNCHANGED agent

\* The agent dies, between two writes or in the middle of an append; a
\* rewrite is atomic.
Crash ==
    /\ agent.at = "up" /\ env.faults < MaxFaults
    /\ file' \in {file} \cup (IF ring.assignment # 0 THEN {Appended(Torn)} ELSE {})
    /\ agent' = [at |-> "down", assignment |-> 0, logged |-> TRUE, target |-> FALSE]
    /\ ring' = EmptyRing
    /\ reader' = [f \in Followers |-> [reader[f] EXCEPT !.at = IF @ = "idle" THEN @ ELSE "done"]]
    /\ env' = [env EXCEPT !.faults = @ + 1]

\* Mutated form: the torn record stays in the file.
loadUnrepaired(read) == ring' = [assignment |-> read.assignment, entries |-> read.entries, next |-> read.next,
                                 fileBytes |-> Size(file)] /\ file' = file /\ Saved

\* A torn last record is dropped and the file written again.
load(read) ==
    LET buffer == [assignment |-> read.assignment, entries |-> read.entries, next |-> read.next,
                   fileBytes |-> Size(file)]
    IN  IF read.torn THEN rewriteLocked(buffer) ELSE ring' = buffer /\ file' = file /\ Saved

\* An agent whose log cannot be opened does not start.
OpenLogBuffer ==
    /\ agent.at = "down"
    /\ LET read == decode(file)
       IN  IF Size(file) > maxDiskLogBytes \/ ~read.ok
           THEN agent' = [agent EXCEPT !.at = "refused"] /\ UNCHANGED <<ring, file, env>>
           ELSE /\ load(read)
                /\ agent' = [agent EXCEPT !.at = IF env'.unsaved THEN "refused" ELSE "up",
                                          !.assignment = read.assignment]
    /\ UNCHANGED reader

(***************************************************************************)
(* A request that follows the log.                                         *)
(***************************************************************************)
Serve(f, r) == reader' = [reader EXCEPT ![f] = r] /\ UNCHANGED <<ring, file, agent, env>>

\* handleLogs resolves the target; the ring may belong to another assignment
\* by then, or before.
resolveLogTarget(f) ==
    /\ agent.at = "up" /\ agent.target /\ reader[f].at = "idle"
    /\ Serve(f, [Idle EXCEPT !.at = "resolved", !.assignment = agent.assignment])

snapshotLocked(a, tail) ==
    IF a # ring.assignment THEN <<>>
    ELSE IF tail /\ ring.entries # <<>> THEN <<Last(ring.entries)>> ELSE ring.entries

Written(entries) ==
    [i \in DOMAIN entries |-> [assignment |-> ring.assignment, sequence |-> entries[i].sequence]]

\* Mutated form: the cursor is not taken under the lock of the snapshot.
SnapshotThenSubscribe(f) ==
    /\ reader[f].at = "resolved"
    /\ \E tail \in BOOLEAN :
          LET a == reader[f].assignment IN
          Serve(f, [reader[f] EXCEPT !.at = "writing", !.open = (a = ring.assignment),
                                     !.seen = Written(snapshotLocked(a, tail))])

SnapshotAndSubscribe(f) ==
    /\ reader[f].at = "resolved"
    /\ \E tail \in BOOLEAN :
          LET a == reader[f].assignment IN
          Serve(f, [reader[f] EXCEPT !.at = "writing", !.open = (a = ring.assignment),
                                     !.cursor = ring.next - 1, !.seen = Written(snapshotLocked(a, tail))])

\* The lines go out to the client; more may arrive meanwhile.
writeLogEntry(f) == reader[f].at = "writing" /\ Serve(f, [reader[f] EXCEPT !.at = "waiting"])

\* A receive takes a notification first and only then sees the channel closed.
Receive(f) ==
    /\ reader[f].at = "waiting"
    /\ \/ reader[f].pending /\ Serve(f, [reader[f] EXCEPT !.at = "woken", !.pending = FALSE])
       \/ ~reader[f].pending /\ ~reader[f].open /\ Serve(f, [reader[f] EXCEPT !.at = "done"])

EntriesAfter(a, sequence) ==
    IF a # ring.assignment \/ ring.entries = <<>> THEN [entries |-> <<>>, gap |-> FALSE]
    ELSE [entries |-> SelectSeq(ring.entries, LAMBDA entry : entry.sequence > sequence),
          gap |-> sequence + 1 < Head(ring.entries).sequence]

Follow(f) ==
    /\ reader[f].at = "woken"
    /\ LET after == EntriesAfter(reader[f].assignment, reader[f].cursor)
       IN  Serve(f, [reader[f] EXCEPT
                         !.at = "writing",
                         !.seen = @ \o (IF after.gap THEN <<Gap>> ELSE <<>>) \o Written(after.entries),
                         !.cursor = IF after.entries = <<>> THEN @ ELSE Last(after.entries).sequence])

\* The client goes away: the handler leaves and unsubscribes.
unsubscribe(f) ==
    /\ reader[f].at = "waiting"
    /\ Serve(f, [Close(reader[f]) EXCEPT !.at = "done"])

Next ==
    \/ AcceptAssignment \/ StopAssignment \/ beginAssignmentLog \/ appendLogMessage \/ Crash \/ OpenLogBuffer
    \/ \E f \in Followers :
          resolveLogTarget(f) \/ SnapshotAndSubscribe(f) \/ writeLogEntry(f) \/ Receive(f) \/ Follow(f) \/ unsubscribe(f)

Spec == Init /\ [][Next]_vars

(***************************************************************************)
(* Properties.                                                             *)
(***************************************************************************)
\* As long as no write has failed the file decodes, whatever moment the agent
\* died at, and while the agent runs it decodes to exactly the ring: the same
\* assignment, the same entries after eviction, the same next number.  A reader
\* of the file alone sees those entries too, unless the file is too large.
LogSurvives ==
    ~env.failed =>
        LET read == decode(file)
        IN  /\ read.ok
            /\ agent.at = "up" =>
              /\ ring.assignment = read.assignment /\ ring.entries = read.entries
              /\ ring.next = read.next
              /\ Size(file) <= maxDiskLogBytes =>
                    ReadLogSnapshot(ring.assignment) = [ok |-> TRUE, entries |-> ring.entries]

\* A follower sees the entries of its assignment once and in order, and where
\* one is missing the stream says so.
FollowedInOrder ==
    \A f \in Followers :
        LET seen == reader[f].seen
        IN  \A i \in DOMAIN seen :
                \/ seen[i] = Gap
                \/ /\ seen[i].assignment = reader[f].assignment
                   /\ i > 1 => IF seen[i - 1] # Gap THEN seen[i].sequence = seen[i - 1].sequence + 1
                               ELSE i > 2 => seen[i].sequence > seen[i - 2].sequence + 1

\* No wake-up is lost: a follower that waits with nothing in its channel has
\* been sent everything, unless the last write failed.
NoLostWakeUp ==
    \A f \in Followers :
        reader[f].at = "waiting" /\ reader[f].open /\ ~reader[f].pending /\ ~env.unsaved
            => reader[f].cursor = ring.next - 1

\* Followers are served faithfully although lines are appended, evicted and
\* reset between their snapshot, their subscription and their writes.
FollowersSeeEverything == FollowedInOrder /\ NoLostWakeUp
=============================================================================
