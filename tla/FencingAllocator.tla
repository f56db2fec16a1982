-------------------------- MODULE FencingAllocator --------------------------
(***************************************************************************)
(* The allocation of fencing epochs (internal/native/fencing): controllers *)
(* increment an annotation of a per-host Lease by get, check and update    *)
(* under the API server's optimistic concurrency, retrying on conflict.    *)
(* The Lease is created by enrollment and disappears with the host.        *)
(***************************************************************************)
EXTENDS Integers, Sequences

CONSTANTS
    Callers,        \* the controllers that may call Allocate concurrently
    MaxInt64,       \* math.MaxInt64, the largest epoch
    MaxAttempts,    \* retry.DefaultBackoff.Steps, the attempts of RetryOnConflict
    MaxHosts        \* bound: how many host identities are enrolled in turn

ASSUME FencingAssumption ==
    /\ MaxInt64 \in Nat \ {0}
    /\ MaxAttempts \in Nat \ {0}
    /\ MaxHosts \in Nat

VARIABLES
    hosts,          \* how many host identities have existed: the UID of the latest
    lease,          \* the Lease idleloom-fencing, or NoLease
    version,        \* the API server's last resourceVersion
    call,           \* per caller: where its call of Allocate is
    granted         \* history: the epochs returned to callers, in write order

vars == <<hosts, lease, version, call, granted>>

NoLease == [host |-> 0, epoch |-> 0, version |-> 0]

Idle == [at |-> "idle", host |-> 0, attempts |-> 0, seen |-> NoLease]

\* int64 addition: the successor of the largest value is the smallest one.
Int64Succ(n) == IF n = MaxInt64 THEN -MaxInt64 - 1 ELSE n + 1

Int64 == (-MaxInt64 - 1) .. MaxInt64

Lease == [host : Nat, epoch : Int64, version : Nat]

Call == [at : {"idle", "get", "update"}, host : Nat,
         attempts : 0..MaxAttempts, seen : Lease]

TypeOK ==
    /\ hosts \in Nat
    /\ lease \in Lease
    /\ version \in Nat
    /\ call \in [Callers -> Call]
    /\ granted \in Seq([host : Nat, epoch : Int64])

Init ==
    /\ hosts = 0
    /\ lease = NoLease
    /\ version = 0
    /\ call = [c \in Callers |-> Idle]
    /\ granted = <<>>

-----------------------------------------------------------------------------
(* Enrollment and removal of the host.                                     *)

\* Enrollment writes the host object, which gets a fresh UID, and then the
\* Lease with epoch 0.
ensureFencingLease ==
    /\ lease = NoLease
    /\ hosts < MaxHosts
    /\ hosts' = hosts + 1
    /\ version' = version + 1
    /\ lease' = [host |-> hosts + 1, epoch |-> 0, version |-> version + 1]
    /\ UNCHANGED <<call, granted>>

\* The host namespace is deleted, and the Lease with it.
DeleteHost ==
    /\ lease # NoLease
    /\ lease' = NoLease
    /\ UNCHANGED <<hosts, version, call, granted>>

-----------------------------------------------------------------------------
(* One call of Allocate.                                                   *)

\* Mutated form of validateLease: the Lease of whichever host will do.
validateLeaseAnyHost(l, host) == l # NoLease /\ l.epoch >= 0

\* The Lease exists, belongs to the host and carries a valid epoch.
validateLease(l, host) == l # NoLease /\ l.host = host /\ l.epoch >= 0

\* The caller has read some host object, perhaps one that is gone by now.
Begin(c) ==
    /\ call[c].at = "idle"
    /\ \E h \in 1..hosts :
          call' = [call EXCEPT ![c] = [at |-> "get", host |-> h,
                                       attempts |-> 0, seen |-> NoLease]]
    /\ UNCHANGED <<hosts, lease, version, granted>>

\* Get, validate, and refuse when the epoch is exhausted.
GetLease(c) ==
    /\ call[c].at = "get"
    /\ call' = [call EXCEPT ![c] =
                  IF validateLease(lease, call[c].host) /\ lease.epoch # MaxInt64
                  THEN [@ EXCEPT !.at = "update", !.seen = lease]
                  ELSE Idle]
    /\ UNCHANGED <<hosts, lease, version, granted>>

\* Mutated form of Unchanged: the update omits the version that was read.
UnchangedUnconditional(c) == lease # NoLease

\* The API server accepts an update only of the version that was read.
Unchanged(c) == lease # NoLease /\ lease.version = call[c].seen.version

Write(c) ==
    /\ version' = version + 1
    /\ lease' = [lease EXCEPT !.epoch = Int64Succ(call[c].seen.epoch),
                              !.version = version + 1]

\* The update is applied and its epoch is returned.
UpdateLease(c) ==
    /\ call[c].at = "update"
    /\ Unchanged(c)
    /\ Write(c)
    /\ granted' = Append(granted, [host |-> call[c].host,
                                   epoch |-> Int64Succ(call[c].seen.epoch)])
    /\ call' = [call EXCEPT ![c] = Idle]
    /\ UNCHANGED hosts

\* The update is applied, but the caller crashes or its connection fails
\* before the answer arrives: the epoch is never used.
UpdateLeaseLost(c) ==
    /\ call[c].at = "update"
    /\ Unchanged(c)
    /\ Write(c)
    /\ call' = [call EXCEPT ![c] = Idle]
    /\ UNCHANGED <<hosts, granted>>

\* Mutated form of Conflict: the attempts are not limited.
ConflictUnlimited(c) ==
    /\ call[c].at = "update"
    /\ ~Unchanged(c)
    /\ call' = [call EXCEPT ![c] =
                  IF lease # NoLease
                  THEN [at |-> "get", host |-> call[c].host,
                        attempts |-> call[c].attempts + 1, seen |-> NoLease]
                  ELSE Idle]
    /\ UNCHANGED <<hosts, lease, version, granted>>

\* The update meets a newer version: RetryOnConflict reads again, up to
\* MaxAttempts times.  A Lease that is gone ends the call instead.
Conflict(c) ==
    /\ call[c].at = "update"
    /\ ~Unchanged(c)
    /\ call' = [call EXCEPT ![c] =
                  IF lease # NoLease /\ call[c].attempts + 1 < MaxAttempts
                  THEN [at |-> "get", host |-> call[c].host,
                        attempts |-> call[c].attempts + 1, seen |-> NoLease]
                  ELSE Idle]
    /\ UNCHANGED <<hosts, lease, version, granted>>

\* A request fails, or the caller crashes, with nothing written.
Abandon(c) ==
    /\ call[c].at # "idle"
    /\ call' = [call EXCEPT ![c] = Idle]
    /\ UNCHANGED <<hosts, lease, version, granted>>

Next ==
    \/ ensureFencingLease
    \/ DeleteHost
    \/ \E c \in Callers : \/ Begin(c)
                          \/ GetLease(c)
                          \/ UpdateLease(c)
                          \/ UpdateLeaseLost(c)
                          \/ Conflict(c)
                          \/ Abandon(c)

Spec == Init /\ [][Next]_vars

-----------------------------------------------------------------------------
(* Properties.                                                             *)

\* Allocate never returns the same epoch twice for one host, and the epochs
\* grow in the order in which they were written, whatever the interleaving of
\* concurrent callers, lost answers and re-enrollments: this is what lets an
\* agent treat the larger epoch as the newer assignment.
EpochsIncrease ==
    \A i, j \in DOMAIN granted :
        i < j /\ granted[i].host = granted[j].host
            => granted[i].epoch < granted[j].epoch

\* Every epoch returned is a positive int64: the counter stops at MaxInt64
\* and never wraps, since PlanAssignment and the CRD refuse epochs below one.
EpochsPositive ==
    \A i \in DOMAIN granted : granted[i].epoch \in 1..MaxInt64

\* The allocator implements the abstract epoch source: each Lease write
\* consumes exactly the next epoch of the current host.
Epochs == INSTANCE FencingEpochs
            WITH MaxEpoch <- MaxInt64, host <- lease.host, last <- lease.epoch

ImplementsEpochs == Epochs!Spec
=============================================================================
