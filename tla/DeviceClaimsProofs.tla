------------------------- MODULE DeviceClaimsProofs -------------------------
(***************************************************************************)
(* Proof that DeviceExclusive holds for any claims and devices.            *)
(***************************************************************************)
EXTENDS DeviceClaims, TLAPS

HasNone(prepared, claims) == \A c \in claims : Of(prepared, c) = {}

\* The calls die with the driver.  A claim that is being prepared does not
\* count as freed, one that is being released not as held.
CallInv ==
    /\ ~up => \A c \in Claims : call[c] = Idle
    /\ \A c \in Claims :
          /\ call[c].at \in {"probe", "reserve"} => c \notin freed
          /\ call[c].at = "release" => Of(held, c) = {}

\* The operation under way adds one pair to the memory or takes a claim out.
OpInv ==
    /\ op.at = "free" => op = Unlocked
    /\ op.at = "sync" => visible = mem
    /\ op.at # "free" =>
          /\ up
          /\ \E c \in Claims :
                /\ op.claim = {c} /\ (trust # "lost" => c \notin freed)
                /\ \/ /\ op.grant = {} /\ Of(held, c) = {}
                      /\ mem = op.before \ Of(op.before, c)
                   \/ \E d \in Devices :
                         op.grant = {<<c, d>>} /\ mem = op.before \cup {<<c, d>>}

\* No device is in the memory or a file twice.
FileInv == Injective(mem) /\ Injective(op.before) /\ Injective(visible) /\ Injective(synced)

\* What the kubelet was told is in the memory, before and after the operation
\* under way, and, as long as no sync has failed, in the file.
TrustInv ==
    /\ trust = "dirty" => up
    /\ trust # "lost" /\ up => held \subseteq mem /\ HasNone(mem, freed)
    /\ trust # "lost" /\ op.at # "free" => held \subseteq op.before /\ HasNone(op.before, freed)
    /\ trust = "agree" =>
          /\ held \subseteq visible /\ HasNone(visible, freed)
          /\ up /\ op.at = "free" => mem = visible
          /\ op.at = "write" => op.before = visible

IInv == TypeOK /\ CallInv /\ OpInv /\ FileInv /\ TrustInv

\* The driver starts with nothing prepared, which satisfies the invariant.
LEMMA InitIInv == Init => IInv
BY DEF Init, IInv, TypeOK, CallInv, OpInv, FileInv, TrustInv, HasNone, Injective, Of, Idle,
       Unlocked, Pairs

\* The type invariant is inductive given what OpInv says of the operation.
LEMMA NextTypeOK == IInv /\ [Next]_vars => TypeOK'
<1> SUFFICES ASSUME IInv, [Next]_vars PROVE TypeOK'
  OBVIOUS
<1> USE DEF IInv, TypeOK, Idle, Unlocked, Pairs, Of
<1>1. CASE Open
  BY <1>1 DEF Open
<1>2. CASE reconcileDevice
  BY <1>2 DEF reconcileDevice, Discover
<1>3. ASSUME NEW c \in Claims, NEW d \in Devices, prepare(c, d)
      PROVE  TypeOK'
  BY <1>3 DEF prepare
<1>4. ASSUME NEW c \in Claims, Probe(c)
      PROVE  TypeOK'
  BY <1>4 DEF Probe
<1>5. ASSUME NEW c \in Claims, Reserve(c)
      PROVE  TypeOK'
  BY <1>5 DEF Reserve, persist, deviceBusy
<1>6. ASSUME NEW c \in Claims, UnprepareResourceClaims(c)
      PROVE  TypeOK'
  BY <1>6 DEF UnprepareResourceClaims
<1>7. ASSUME NEW c \in Claims, Release(c)
      PROVE  TypeOK'
  BY <1>7 DEF Release, persist
<1>8. CASE PersistFails
  BY <1>8 DEF PersistFails, Return
<1>9. CASE Rename
  BY <1>9 DEF Rename
<1>10. CASE SyncDirectory
  BY <1>10 DEF SyncDirectory, Return
<1>11. CASE SyncFails
  BY <1>11 DEF SyncFails, Return
<1>12. CASE WriteBack
  BY <1>12 DEF WriteBack
<1>13. CASE Crash
  BY <1>13 DEF Crash, Died
<1>14. CASE PowerFailure
  BY <1>14 DEF PowerFailure, Died
<1>15. CASE UNCHANGED vars
  BY <1>15 DEF vars
<1> QED
  BY <1>1, <1>2, <1>3, <1>4, <1>5, <1>6, <1>7, <1>8, <1>9, <1>10, <1>11, <1>12, <1>13, <1>14, <1>15 DEF Next

\* Every step keeps what relates memory, file and answers.
LEMMA NextIInv == IInv /\ [Next]_vars => IInv'
<1> SUFFICES ASSUME IInv, [Next]_vars PROVE (CallInv /\ OpInv /\ FileInv /\ TrustInv)'
  BY NextTypeOK DEF IInv
<1> USE DEF IInv, TypeOK, Idle, Unlocked, Pairs, Of, HasNone
<1>1. CASE Open
  <2>1. CallInv'
    BY <1>1 DEF Open, CallInv
  <2>2. OpInv'
    BY <1>1 DEF Open, OpInv
  <2>3. FileInv'
    BY <1>1 DEF Open, FileInv
  <2>4. TrustInv'
    BY <1>1 DEF Open, TrustInv
  <2> QED
    BY <2>1, <2>2, <2>3, <2>4
<1>2. CASE reconcileDevice
  <2>1. CallInv'
    BY <1>2 DEF reconcileDevice, CallInv
  <2>2. OpInv'
    BY <1>2 DEF reconcileDevice, OpInv
  <2>3. FileInv'
    BY <1>2 DEF reconcileDevice, FileInv
  <2>4. TrustInv'
    BY <1>2 DEF reconcileDevice, TrustInv
  <2> QED
    BY <2>1, <2>2, <2>3, <2>4
<1>3. ASSUME NEW c \in Claims, NEW d \in Devices, prepare(c, d)
      PROVE  (CallInv /\ OpInv /\ FileInv /\ TrustInv)'
  <2>1. CallInv'
    BY <1>3 DEF prepare, CallInv
  <2>2. OpInv'
    BY <1>3 DEF prepare, OpInv
  <2>3. FileInv'
    BY <1>3 DEF prepare, FileInv
  <2>4. TrustInv'
    BY <1>3 DEF prepare, TrustInv
  <2> QED
    BY <2>1, <2>2, <2>3, <2>4
<1>4. ASSUME NEW c \in Claims, Probe(c)
      PROVE  (CallInv /\ OpInv /\ FileInv /\ TrustInv)'
  <2>1. CallInv'
    BY <1>4 DEF Probe, CallInv
  <2>2. OpInv'
    BY <1>4 DEF Probe, OpInv
  <2>3. FileInv'
    BY <1>4 DEF Probe, FileInv
  <2>4. TrustInv'
    BY <1>4 DEF Probe, TrustInv
  <2> QED
    BY <2>1, <2>2, <2>3, <2>4
<1>5. ASSUME NEW c \in Claims, Reserve(c)
      PROVE  (CallInv /\ OpInv /\ FileInv /\ TrustInv)'
  <2>1. CallInv'
    BY <1>5 DEF Reserve, persist, deviceBusy, CallInv
  <2>2. OpInv'
    BY <1>5 DEF Reserve, persist, deviceBusy, OpInv, CallInv
  <2>3. FileInv'
    BY <1>5 DEF Reserve, persist, deviceBusy, FileInv, Injective
  <2>4. TrustInv'
    BY <1>5 DEF Reserve, persist, deviceBusy, TrustInv, CallInv
  <2> QED
    BY <2>1, <2>2, <2>3, <2>4
<1>6. ASSUME NEW c \in Claims, UnprepareResourceClaims(c)
      PROVE  (CallInv /\ OpInv /\ FileInv /\ TrustInv)'
  <2>1. CallInv'
    BY <1>6 DEF UnprepareResourceClaims, CallInv
  <2>2. OpInv'
    BY <1>6 DEF UnprepareResourceClaims, OpInv
  <2>3. FileInv'
    BY <1>6 DEF UnprepareResourceClaims, FileInv
  <2>4. TrustInv'
    BY <1>6 DEF UnprepareResourceClaims, TrustInv
  <2> QED
    BY <2>1, <2>2, <2>3, <2>4
<1>7. ASSUME NEW c \in Claims, Release(c)
      PROVE  (CallInv /\ OpInv /\ FileInv /\ TrustInv)'
  <2>1. CallInv'
    BY <1>7 DEF Release, persist, CallInv
  <2>2. OpInv'
    BY <1>7 DEF Release, persist, OpInv, CallInv, TrustInv
  <2>3. FileInv'
    BY <1>7 DEF Release, persist, FileInv, Injective
  <2>4. TrustInv'
    BY <1>7 DEF Release, persist, TrustInv, CallInv
  <2> QED
    BY <2>1, <2>2, <2>3, <2>4
<1>8. CASE PersistFails
  <2>1. CallInv'
    BY <1>8 DEF PersistFails, Return, CallInv
  <2>2. OpInv'
    BY <1>8 DEF PersistFails, Return, OpInv
  <2>3. FileInv'
    BY <1>8 DEF PersistFails, Return, FileInv, Injective
  <2>4. TrustInv'
    BY <1>8 DEF PersistFails, Return, TrustInv
  <2> QED
    BY <2>1, <2>2, <2>3, <2>4
<1>9. CASE Rename
  <2>1. CallInv'
    BY <1>9 DEF Rename, CallInv
  <2>2. OpInv'
    BY <1>9 DEF Rename, OpInv
  <2>3. FileInv'
    BY <1>9 DEF Rename, FileInv
  <2>4. TrustInv'
    BY <1>9 DEF Rename, TrustInv, OpInv
  <2> QED
    BY <2>1, <2>2, <2>3, <2>4
<1>10. CASE SyncDirectory
  <2>1. CallInv'
    <3>1. PICK c \in Claims : op.claim = {c} /\ \A p \in op.grant : p[1] = c
      BY <1>10 DEF SyncDirectory, OpInv
    <3>2. /\ call'[c] = Idle
          /\ \A b \in Claims \ {c} : call'[b] = call[b] /\ Of(held', b) = Of(held, b)
      BY <1>10, <3>1 DEF SyncDirectory, Return
    <3> QED
      BY <1>10, <3>1, <3>2 DEF SyncDirectory, CallInv, OpInv
  <2>2. OpInv'
    BY <1>10 DEF SyncDirectory, Return, OpInv
  <2>3. FileInv'
    BY <1>10 DEF SyncDirectory, Return, FileInv, Injective
  <2>4. TrustInv'
    <3>1. visible = mem /\ up
      BY <1>10 DEF SyncDirectory, OpInv
    <3>2. op.grant \subseteq mem /\ (op.grant = {} => HasNone(mem, op.claim))
      BY <1>10 DEF SyncDirectory, OpInv
    <3> QED
      BY <1>10, <3>1, <3>2 DEF SyncDirectory, Return, TrustInv
  <2> QED
    BY <2>1, <2>2, <2>3, <2>4
<1>11. CASE SyncFails
  <2>1. CallInv'
    BY <1>11 DEF SyncFails, Return, CallInv
  <2>2. OpInv'
    BY <1>11 DEF SyncFails, Return, OpInv
  <2>3. FileInv'
    BY <1>11 DEF SyncFails, Return, FileInv, Injective
  <2>4. TrustInv'
    BY <1>11 DEF SyncFails, Return, TrustInv, OpInv
  <2> QED
    BY <2>1, <2>2, <2>3, <2>4
<1>12. CASE WriteBack
  <2>1. CallInv'
    BY <1>12 DEF WriteBack, CallInv
  <2>2. OpInv'
    BY <1>12 DEF WriteBack, OpInv
  <2>3. FileInv'
    BY <1>12 DEF WriteBack, FileInv
  <2>4. TrustInv'
    BY <1>12 DEF WriteBack, TrustInv
  <2> QED
    BY <2>1, <2>2, <2>3, <2>4
<1>13. CASE Crash
  <2>1. CallInv'
    BY <1>13 DEF Crash, Died, CallInv
  <2>2. OpInv'
    BY <1>13 DEF Crash, Died, OpInv
  <2>3. FileInv'
    BY <1>13 DEF Crash, Died, FileInv, Injective
  <2>4. TrustInv'
    BY <1>13 DEF Crash, Died, TrustInv
  <2> QED
    BY <2>1, <2>2, <2>3, <2>4
<1>14. CASE PowerFailure
  <2>1. CallInv'
    BY <1>14 DEF PowerFailure, Died, CallInv
  <2>2. OpInv'
    BY <1>14 DEF PowerFailure, Died, OpInv
  <2>3. FileInv'
    BY <1>14 DEF PowerFailure, Died, FileInv, Injective
  <2>4. TrustInv'
    BY <1>14 DEF PowerFailure, Died, TrustInv
  <2> QED
    BY <2>1, <2>2, <2>3, <2>4
<1>15. CASE UNCHANGED vars
  <2>1. CallInv'
    BY <1>15 DEF vars, CallInv
  <2>2. OpInv'
    BY <1>15 DEF vars, OpInv
  <2>3. FileInv'
    BY <1>15 DEF vars, FileInv
  <2>4. TrustInv'
    BY <1>15 DEF vars, TrustInv
  <2> QED
    BY <2>1, <2>2, <2>3, <2>4
<1> QED
  BY <1>1, <1>2, <1>3, <1>4, <1>5, <1>6, <1>7, <1>8, <1>9, <1>10, <1>11, <1>12, <1>13, <1>14, <1>15 DEF Next

\* The invariant has the exclusiveness of devices among its consequences.
LEMMA IInvExclusive == IInv => DeviceExclusive
BY DEF IInv, TypeOK, OpInv, FileInv, TrustInv, DeviceExclusive, HasNone, Injective, Of

\* A device is prepared for one claim at a time, whatever the number of claims
\* and devices, unless the driver dies after a failed directory sync.
THEOREM DevicesExclusive == Spec => []DeviceExclusive
<1>1. Spec => []IInv
  BY InitIInv, NextIInv, PTL DEF Spec
<1> QED
  BY <1>1, IInvExclusive, PTL
=============================================================================
