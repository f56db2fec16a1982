----------------------- MODULE FencingAllocatorProofs -----------------------
(***************************************************************************)
(* Proofs about FencingAllocator for any set of callers, any number of     *)
(* enrollments and any size of the counter.                                *)
(***************************************************************************)
EXTENDS FencingAllocator, TLAPS

\* The Lease belongs to an identity that was enrolled; versions only grow.
LeaseInv ==
    lease # NoLease => /\ lease.host \in 1..hosts
                       /\ lease.epoch \in 0..MaxInt64
                       /\ lease.version <= version

\* A caller about to write read a valid Lease of its host, below the limit,
\* and a Lease of the version it read is the Lease it read.
SnapshotInv(c) ==
    call[c].at = "update" =>
        /\ call[c].seen.host = call[c].host
        /\ call[c].seen.epoch \in 0..(MaxInt64 - 1)
        /\ call[c].seen.version <= version
        /\ lease # NoLease /\ lease.version = call[c].seen.version
              => lease = call[c].seen

\* The epochs returned for the current host are at most the Lease's.
GrantedInv ==
    \A i \in DOMAIN granted :
        /\ granted[i].host \in 1..hosts
        /\ granted[i].epoch \in 1..MaxInt64
        /\ lease # NoLease /\ granted[i].host = lease.host
              => granted[i].epoch <= lease.epoch

IInv ==
    /\ TypeOK
    /\ LeaseInv
    /\ \A c \in Callers : SnapshotInv(c)
    /\ GrantedInv
    /\ EpochsIncrease

\* Initially no epoch has been granted and there is no Lease.
LEMMA InitIInv == Init => IInv
  BY FencingAssumption
  DEF Init, IInv, TypeOK, LeaseInv, SnapshotInv, GrantedInv, EpochsIncrease,
      NoLease, Idle, Lease, Call, Int64

\* The values that stand for "no Lease" and "no call" are well typed.
LEMMA IdleTyped == NoLease \in Lease /\ Idle \in Call
  <1>1. NoLease \in Lease
    BY FencingAssumption DEF NoLease, Lease, Int64
  <1> QED BY <1>1, FencingAssumption DEF Idle, Call

\* Applying an update whose version is current advances the epoch by one and
\* keeps every other caller's snapshot either equal to the Lease or outdated.
LEMMA WriteFacts ==
    ASSUME IInv, NEW c \in Callers, call[c].at = "update", Unchanged(c), Write(c)
    PROVE  /\ lease = call[c].seen
           /\ lease.host = call[c].host
           /\ lease.host \in 1..hosts
           /\ lease.epoch \in 0..(MaxInt64 - 1)
           /\ Int64Succ(call[c].seen.epoch) = lease.epoch + 1
           /\ lease' = [host |-> lease.host, epoch |-> lease.epoch + 1,
                        version |-> version + 1]
           /\ lease' \in Lease
           /\ lease' # NoLease
           /\ version' = version + 1
  <1>1. lease = call[c].seen /\ lease # NoLease
    BY DEF IInv, SnapshotInv, Unchanged
  <1>2. /\ lease.host = call[c].host /\ lease.host \in 1..hosts
        /\ lease.epoch \in 0..(MaxInt64 - 1)
    BY <1>1 DEF IInv, LeaseInv, SnapshotInv
  <1>3. version \in Nat /\ lease \in Lease /\ hosts \in Nat
    BY DEF IInv, TypeOK
  <1>4. Int64Succ(call[c].seen.epoch) = lease.epoch + 1
    BY <1>1, <1>2, FencingAssumption DEF Int64Succ
  <1>5. lease' = [host |-> lease.host, epoch |-> lease.epoch + 1, version |-> version + 1]
    BY <1>3, <1>4 DEF Write, Lease
  <1>6. lease' \in Lease
    BY <1>2, <1>3, <1>5, FencingAssumption DEF Lease, Int64
  <1>7. lease' # NoLease
    <2>1. lease'.host # NoLease.host
      BY <1>2, <1>3, <1>5 DEF NoLease
    <2> QED BY <2>1
  <1> QED
    BY <1>1, <1>2, <1>4, <1>5, <1>6, <1>7 DEF Write

\* After an accepted update by c the Lease and every snapshot are coherent.
LEMMA WriteKeeps ==
    ASSUME IInv, NEW c \in Callers, call[c].at = "update", Unchanged(c), Write(c),
           hosts' = hosts, call' = [call EXCEPT ![c] = Idle]
    PROVE  /\ hosts' \in Nat /\ lease' \in Lease /\ version' \in Nat
           /\ call' \in [Callers -> Call]
           /\ LeaseInv'
           /\ \A d \in Callers : SnapshotInv(d)'
  <1>1. hosts' \in Nat /\ version' \in Nat /\ call' \in [Callers -> Call]
    BY WriteFacts, IdleTyped DEF IInv, TypeOK
  <1>2. LeaseInv'
    BY WriteFacts, <1>1, FencingAssumption DEF LeaseInv
  <1>3. ASSUME NEW d \in Callers PROVE SnapshotInv(d)'
    <2>1. CASE d = c
      BY <2>1 DEF IInv, TypeOK, SnapshotInv, Idle
    <2>2. CASE d # c
      <3>1. call'[d] = call[d] /\ call[d] \in Call /\ version \in Nat
        BY <2>2 DEF IInv, TypeOK
      <3>2. lease'.version = version + 1 /\ version' = version + 1
        BY WriteFacts
      <3> QED BY <3>1, <3>2 DEF IInv, SnapshotInv, Call, Lease
    <2> QED BY <2>1, <2>2
  <1> QED BY <1>1, <1>2, <1>3, WriteFacts

\* Every step of the allocator preserves the inductive invariant.
LEMMA NextIInv == IInv /\ [Next]_vars => IInv'
  <1> SUFFICES ASSUME IInv, [Next]_vars PROVE IInv'
    OBVIOUS
  <1> USE FencingAssumption
  <1>1. CASE ensureFencingLease
    BY <1>1 DEF IInv, TypeOK, LeaseInv, SnapshotInv, GrantedInv, EpochsIncrease,
                ensureFencingLease, Lease, Int64, NoLease, Call
  <1>2. CASE DeleteHost
    BY <1>2 DEF IInv, TypeOK, LeaseInv, SnapshotInv, GrantedInv, EpochsIncrease,
                DeleteHost, Lease, Int64, NoLease, Call
  <1>3. ASSUME NEW c \in Callers, Begin(c) PROVE IInv'
    BY <1>3 DEF IInv, TypeOK, LeaseInv, SnapshotInv, GrantedInv, EpochsIncrease,
                Begin, Lease, Int64, NoLease, Call
  <1>4. ASSUME NEW c \in Callers, GetLease(c) PROVE IInv'
    <2>1. /\ UNCHANGED <<hosts, lease, version, granted>>
          /\ call' = [call EXCEPT ![c] =
                  IF validateLease(lease, call[c].host) /\ lease.epoch # MaxInt64
                  THEN [@ EXCEPT !.at = "update", !.seen = lease]
                  ELSE Idle]
      BY <1>4 DEF GetLease
    <2>2. TypeOK'
      <3>1. [call[c] EXCEPT !.at = "update", !.seen = lease] \in Call
        BY DEF IInv, TypeOK, Call
      <3> QED BY <2>1, <3>1, IdleTyped DEF IInv, TypeOK
    <2>3. ASSUME NEW d \in Callers PROVE SnapshotInv(d)'
      <3>1. CASE d = c /\ validateLease(lease, call[c].host) /\ lease.epoch # MaxInt64
        <4>1. call'[d] = [call[c] EXCEPT !.at = "update", !.seen = lease]
          BY <2>1, <3>1 DEF IInv, TypeOK
        <4>2. call'[d].seen = lease /\ call'[d].host = call[c].host
          BY <4>1 DEF IInv, TypeOK, Call
        <4>3. lease.epoch \in 0..(MaxInt64 - 1) /\ lease.host = call[c].host
          BY <3>1 DEF IInv, TypeOK, validateLease, Lease, Int64
        <4>4. lease.version <= version
          BY <3>1 DEF IInv, LeaseInv, validateLease
        <4> QED BY <2>1, <4>2, <4>3, <4>4 DEF SnapshotInv
      <3>2. CASE d = c /\ ~(validateLease(lease, call[c].host) /\ lease.epoch # MaxInt64)
        <4>1. call'[d] = Idle
          BY <2>1, <3>2 DEF IInv, TypeOK
        <4> QED BY <4>1 DEF SnapshotInv, Idle
      <3>3. CASE d # c
        BY <2>1, <3>3 DEF IInv, TypeOK, SnapshotInv
      <3> QED BY <3>1, <3>2, <3>3
    <2>4. LeaseInv' /\ GrantedInv' /\ EpochsIncrease'
      BY <2>1 DEF IInv, LeaseInv, GrantedInv, EpochsIncrease
    <2> QED BY <2>2, <2>3, <2>4 DEF IInv
  <1>5. ASSUME NEW c \in Callers, UpdateLease(c) PROVE IInv'
    <2>1. /\ call[c].at = "update" /\ Unchanged(c) /\ Write(c) /\ hosts' = hosts
          /\ call' = [call EXCEPT ![c] = Idle]
      BY <1>5 DEF UpdateLease
    <2>2. granted' = Append(granted, [host |-> lease.host, epoch |-> lease.epoch + 1])
      BY <1>5, <2>1, WriteFacts DEF UpdateLease
    <2>3. lease.host \in 1..hosts /\ lease.epoch \in 0..(MaxInt64 - 1) /\ lease # NoLease
      BY <2>1, WriteFacts DEF Unchanged
    <2>4. granted \in Seq([host : Nat, epoch : Int64]) /\ hosts \in Nat
      BY DEF IInv, TypeOK
    <2>5. granted' \in Seq([host : Nat, epoch : Int64])
      BY <2>2, <2>3, <2>4 DEF Int64
    <2>6. ASSUME NEW i \in DOMAIN granted'
          PROVE  \/ /\ i \in DOMAIN granted
                    /\ granted'[i] = granted[i]
                 \/ /\ i = Len(granted) + 1
                    /\ granted'[i] = [host |-> lease.host, epoch |-> lease.epoch + 1]
      BY <2>2, <2>4
    <2>7. lease'.host = lease.host /\ lease'.epoch = lease.epoch + 1
      BY <2>1, WriteFacts
    <2>8. GrantedInv'
      <3> SUFFICES ASSUME NEW i \in DOMAIN granted'
                   PROVE  /\ granted'[i].host \in 1..hosts
                          /\ granted'[i].epoch \in 1..MaxInt64
                          /\ granted'[i].host = lease'.host
                                => granted'[i].epoch <= lease'.epoch
        BY <2>1 DEF GrantedInv
      <3>1. CASE i \in DOMAIN granted /\ granted'[i] = granted[i]
        BY <2>3, <2>7, <3>1 DEF IInv, GrantedInv
      <3>2. CASE granted'[i] = [host |-> lease.host, epoch |-> lease.epoch + 1]
        BY <2>3, <2>7, <3>2
      <3> QED BY <2>6, <3>1, <3>2
    <2>9. EpochsIncrease'
      <3> SUFFICES ASSUME NEW i \in DOMAIN granted', NEW j \in DOMAIN granted', i < j,
                          granted'[i].host = granted'[j].host
                   PROVE  granted'[i].epoch < granted'[j].epoch
        BY DEF EpochsIncrease
      <3>1. i \in DOMAIN granted /\ granted'[i] = granted[i]
        BY <2>2, <2>4, <2>6
      <3>2. CASE j \in DOMAIN granted /\ granted'[j] = granted[j]
        BY <3>1, <3>2 DEF IInv, EpochsIncrease
      <3>3. CASE granted'[j] = [host |-> lease.host, epoch |-> lease.epoch + 1]
        BY <2>3, <3>1, <3>3 DEF IInv, GrantedInv
      <3> QED BY <2>6, <3>2, <3>3
    <2> QED BY <2>1, <2>5, <2>8, <2>9, WriteKeeps DEF IInv, TypeOK
  <1>6. ASSUME NEW c \in Callers, UpdateLeaseLost(c) PROVE IInv'
    <2>1. /\ call[c].at = "update" /\ Unchanged(c) /\ Write(c) /\ hosts' = hosts
          /\ call' = [call EXCEPT ![c] = Idle] /\ granted' = granted
      BY <1>6 DEF UpdateLeaseLost
    <2>2. lease'.host = lease.host /\ lease'.epoch = lease.epoch + 1 /\ lease # NoLease
          /\ lease.epoch \in 0..(MaxInt64 - 1)
      BY <2>1, WriteFacts DEF Unchanged
    <2>3. GrantedInv'
      BY <2>1, <2>2 DEF IInv, GrantedInv
    <2> QED BY <2>1, <2>3, WriteKeeps DEF IInv, TypeOK, EpochsIncrease
  <1>7. ASSUME NEW c \in Callers, Conflict(c) PROVE IInv'
    <2> DEFINE retry == [at |-> "get", host |-> call[c].host,
                         attempts |-> call[c].attempts + 1, seen |-> NoLease]
               r == IF lease # NoLease /\ call[c].attempts + 1 < MaxAttempts
                    THEN retry ELSE Idle
    <2>1. UNCHANGED <<hosts, lease, version, granted>> /\ call' = [call EXCEPT ![c] = r]
      BY <1>7 DEF Conflict
    <2>2. r \in Call /\ r.at # "update"
      <3>1. CASE lease # NoLease /\ call[c].attempts + 1 < MaxAttempts
        <4>1. call[c] \in Call
          BY DEF IInv, TypeOK
        <4>2. call[c].attempts + 1 \in 0..MaxAttempts
          BY <3>1, <4>1 DEF Call
        <4>3. retry \in Call /\ retry.at = "get"
          BY <4>1, <4>2, IdleTyped DEF Call
        <4> QED BY <3>1, <4>3
      <3>2. CASE ~(lease # NoLease /\ call[c].attempts + 1 < MaxAttempts)
        BY <3>2, IdleTyped DEF Idle
      <3> QED BY <3>1, <3>2
    <2> HIDE DEF r
    <2>3. TypeOK'
      BY <2>1, <2>2 DEF IInv, TypeOK
    <2>4. ASSUME NEW d \in Callers PROVE SnapshotInv(d)'
      BY <2>1, <2>2 DEF IInv, TypeOK, SnapshotInv
    <2> QED BY <2>1, <2>3, <2>4 DEF IInv, LeaseInv, GrantedInv, EpochsIncrease
  <1>8. ASSUME NEW c \in Callers, Abandon(c) PROVE IInv'
    <2>1. UNCHANGED <<hosts, lease, version, granted>> /\ call' = [call EXCEPT ![c] = Idle]
      BY <1>8 DEF Abandon
    <2>2. TypeOK'
      BY <2>1, IdleTyped DEF IInv, TypeOK
    <2>3. ASSUME NEW d \in Callers PROVE SnapshotInv(d)'
      BY <2>1 DEF IInv, TypeOK, SnapshotInv, Idle
    <2> QED BY <2>1, <2>2, <2>3 DEF IInv, LeaseInv, GrantedInv, EpochsIncrease
  <1>9. CASE UNCHANGED vars
    BY <1>9 DEF vars, IInv, TypeOK, LeaseInv, SnapshotInv, GrantedInv, EpochsIncrease
  <1> QED
    BY <1>1, <1>2, <1>3, <1>4, <1>5, <1>6, <1>7, <1>8, <1>9 DEF Next

\* For every number of concurrent callers: no epoch of a host is returned
\* twice by Allocate, and later writes return larger epochs.
THEOREM AllocatorSafe == Spec => [](TypeOK /\ EpochsIncrease /\ EpochsPositive)
  <1>1. IInv => TypeOK /\ EpochsIncrease /\ EpochsPositive
    BY DEF IInv, GrantedInv, EpochsPositive
  <1> QED BY <1>1, InitIInv, NextIInv, PTL DEF Spec

\* The allocator implements the abstract epoch source, for every value of the
\* constants: each accepted Lease write is one Allocate or one Burn.
THEOREM AllocatorRefines == Spec => ImplementsEpochs
  <1>1. Init => Epochs!Init
    BY DEF Init, Epochs!Init, NoLease, Epochs!NoHost
  <1>2. IInv /\ [Next]_vars => [Epochs!Next]_(Epochs!vars)
    <2> SUFFICES ASSUME IInv, [Next]_vars PROVE [Epochs!Next]_(Epochs!vars)
      OBVIOUS
    <2> USE DEF Epochs!NoHost, Epochs!vars
    <2>1. CASE ensureFencingLease
      <3>1. Epochs!Enroll
        BY <2>1 DEF ensureFencingLease, IInv, TypeOK, GrantedInv, Epochs!Enroll
      <3> QED BY <3>1 DEF Epochs!Next
    <2>2. CASE DeleteHost
      <3>1. Epochs!Withdraw
        BY <2>2 DEF DeleteHost, NoLease, Epochs!Withdraw
      <3> QED BY <3>1 DEF Epochs!Next
    <2>3. ASSUME NEW c \in Callers, UpdateLease(c) PROVE Epochs!Next
      <3>1. /\ call[c].at = "update" /\ Unchanged(c) /\ Write(c)
            /\ granted' = Append(granted, [host |-> call[c].host,
                                           epoch |-> Int64Succ(call[c].seen.epoch)])
        BY <2>3 DEF UpdateLease
      <3>2. Epochs!Allocate
        BY <3>1, WriteFacts, FencingAssumption DEF IInv, TypeOK, Epochs!Allocate
      <3> QED BY <3>2 DEF Epochs!Next
    <2>4. ASSUME NEW c \in Callers, UpdateLeaseLost(c) PROVE Epochs!Next
      <3>1. call[c].at = "update" /\ Unchanged(c) /\ Write(c) /\ granted' = granted
        BY <2>4 DEF UpdateLeaseLost
      <3>2. Epochs!Burn
        BY <3>1, WriteFacts, FencingAssumption DEF IInv, TypeOK, Epochs!Burn
      <3> QED BY <3>2 DEF Epochs!Next
    <2>5. ASSUME NEW c \in Callers, Begin(c) \/ GetLease(c) \/ Conflict(c) \/ Abandon(c)
          PROVE  UNCHANGED Epochs!vars
      BY <2>5 DEF Begin, GetLease, Conflict, Abandon
    <2>6. CASE UNCHANGED vars
      BY <2>6 DEF vars
    <2> QED BY <2>1, <2>2, <2>3, <2>4, <2>5, <2>6 DEF Next
  <1> QED BY <1>1, <1>2, InitIInv, NextIInv, PTL DEF Spec, ImplementsEpochs, Epochs!Spec
=============================================================================
