---------------------------- MODULE DeviceClaims ----------------------------
(***************************************************************************)
(* The Vulkan DRA driver of a worker: the kubelet asks it to prepare and   *)
(* unprepare ResourceClaims, it probes the render device it discovered and *)
(* records which claim the device is prepared for in a state file.  The    *)
(* device is exclusive; two claims must not be told that they have it,     *)
(* although the driver dies and its file operations fail.                  *)
(*                                                                         *)
(* The kubelet has at most one call in progress for a claim.               *)
(***************************************************************************)
EXTENDS Naturals

CONSTANTS Claims, Devices

VARIABLES up,       \* whether the driver runs
          device,   \* the discovered device: a set of at most one
          call,     \* per claim: where the kubelet's call is, and the device it is about
          mem,      \* Store.state: the prepared claims, as pairs of claim and device
          op,       \* the operation that holds Store.mu
          visible,  \* the state file
          synced,   \* the state file as it survives a power failure
          held,     \* history: what the kubelet was told is prepared and has not asked back
          freed,    \* history: the claims whose last call was an unprepare without error
          trust     \* history: "dirty" since a failed sync left memory and file different,
                    \* "lost" if the driver died then

vars == <<up, device, call, mem, op, visible, synced, held, freed, trust>>

Pairs == Claims \X Devices

Of(prepared, c) == {p \in prepared : p[1] = c}

Idle == [at |-> "idle", device |-> {}]

Unlocked == [at |-> "free", claim |-> {}, before |-> {}, grant |-> {}]

TypeOK ==
    /\ up \in BOOLEAN
    /\ device \in SUBSET Devices
    /\ call \in [Claims -> [at : {"idle", "probe", "reserve", "release", "store"}, device : SUBSET Devices]]
    /\ mem \in SUBSET Pairs /\ visible \in SUBSET Pairs /\ synced \in SUBSET Pairs
    /\ op \in [at : {"free", "write", "sync"}, claim : SUBSET Claims, before : SUBSET Pairs,
               grant : SUBSET Pairs]
    /\ held \in SUBSET Pairs /\ freed \in SUBSET Claims
    /\ trust \in {"agree", "dirty", "lost"}

Init ==
    /\ up = TRUE /\ device = {} /\ call = [c \in Claims |-> Idle]
    /\ mem = {} /\ op = Unlocked /\ visible = {} /\ synced = {}
    /\ held = {} /\ freed = {} /\ trust = "agree"

-----------------------------------------------------------------------------
(* The driver.                                                             *)

\* state.Open reads what the file holds.
Open ==
    /\ ~up
    /\ up' = TRUE /\ mem' = visible
    /\ UNCHANGED <<device, call, op, visible, synced, held, freed, trust>>

\* The render device of the expected driver, or none that can be used: there
\* is none, there are several, or looking for it or writing its CDI file fails.
Discover == {{}} \cup {{d} : d \in Devices}

reconcileDevice ==
    /\ up
    /\ device' \in Discover
    /\ UNCHANGED <<up, call, mem, op, visible, synced, held, freed, trust>>

\* The claim is let through if its one allocation of this driver is the device
\* discovered last; the probe that follows works on a copy of that.
prepare(c, d) ==
    /\ up /\ call[c] = Idle
    /\ d \in device
    /\ call' = [call EXCEPT ![c] = [at |-> "probe", device |-> {d}]]
    /\ freed' = freed \ {c}
    /\ UNCHANGED <<up, device, mem, op, visible, synced, held, trust>>

Probe(c) ==
    /\ call[c].at = "probe"
    /\ \E healthy \in BOOLEAN :
          call' = [call EXCEPT ![c] = IF healthy THEN [@ EXCEPT !.at = "reserve"] ELSE Idle]
    /\ UNCHANGED <<up, device, mem, op, visible, synced, held, freed, trust>>

\* Another claim has the device.
deviceBusy(d) == \E p \in mem : p[2] = d

\* The memory is changed first, and again if that cannot be written.
persist(c, new, grant) ==
    /\ mem' = new
    /\ op' = [at |-> "write", claim |-> {c}, before |-> mem, grant |-> grant]
    /\ call' = [call EXCEPT ![c].at = "store"]

\* A claim that is prepared already is answered from memory.
Reserve(c) ==
    /\ call[c].at = "reserve" /\ op = Unlocked
    /\ \E d \in call[c].device :
          \/ /\ Of(mem, c) = {} /\ ~deviceBusy(d)
             /\ persist(c, mem \cup {<<c, d>>}, {<<c, d>>}) /\ UNCHANGED held
          \/ /\ Of(mem, c) # {} \/ deviceBusy(d)
             /\ held' = IF <<c, d>> \in mem THEN held \cup {<<c, d>>} ELSE held
             /\ call' = [call EXCEPT ![c] = Idle] /\ UNCHANGED <<mem, op>>
    /\ UNCHANGED <<up, device, visible, synced, freed, trust>>

UnprepareResourceClaims(c) ==
    /\ up /\ call[c] = Idle
    /\ call' = [call EXCEPT ![c].at = "release"]
    /\ held' = held \ Of(held, c)
    /\ UNCHANGED <<up, device, mem, op, visible, synced, freed, trust>>

Release(c) ==
    /\ call[c].at = "release" /\ op = Unlocked
    /\ IF Of(mem, c) = {}
       THEN /\ freed' = freed \cup {c}
            /\ call' = [call EXCEPT ![c] = Idle] /\ UNCHANGED <<mem, op>>
       ELSE persist(c, mem \ Of(mem, c), {}) /\ UNCHANGED freed
    /\ UNCHANGED <<up, device, visible, synced, held, trust>>

-----------------------------------------------------------------------------
(* persistLocked.                                                          *)

Return ==
    /\ op' = Unlocked
    /\ call' = [c \in Claims |-> IF c \in op.claim THEN Idle ELSE call[c]]

\* Mutated form: the memory keeps what could not be written.
PersistFailsKept ==
    /\ op.at = "write" /\ Return
    /\ UNCHANGED <<up, device, mem, visible, synced, held, freed, trust>>

\* A step up to the rename fails: the memory is changed back.
PersistFails ==
    /\ op.at = "write"
    /\ mem' = op.before /\ Return
    /\ UNCHANGED <<up, device, visible, synced, held, freed, trust>>

Rename ==
    /\ op.at = "write"
    /\ visible' = mem /\ op' = [op EXCEPT !.at = "sync"]
    /\ UNCHANGED <<up, device, call, mem, synced, held, freed, trust>>

SyncDirectory ==
    /\ op.at = "sync"
    /\ synced' = visible
    /\ held' = held \cup op.grant
    /\ freed' = IF op.grant = {} THEN freed \cup op.claim ELSE freed
    /\ trust' = IF trust = "dirty" THEN "agree" ELSE trust
    /\ Return
    /\ UNCHANGED <<up, device, mem, visible>>

\* The memory is changed back, the file is not.
SyncFails ==
    /\ op.at = "sync"
    /\ mem' = op.before /\ Return
    /\ trust' = IF trust = "agree" THEN "dirty" ELSE trust
    /\ UNCHANGED <<up, device, visible, synced, held, freed>>

-----------------------------------------------------------------------------
(* The environment.                                                        *)

WriteBack ==
    /\ synced' = visible
    /\ UNCHANGED <<up, device, call, mem, op, visible, held, freed, trust>>

Died == up' = FALSE /\ device' = {} /\ call' = [c \in Claims |-> Idle] /\ mem' = {} /\ op' = Unlocked

\* The driver dies; the containers that have a device keep it.
Crash ==
    /\ up /\ Died
    /\ trust' = IF trust = "dirty" THEN "lost" ELSE trust
    /\ UNCHANGED <<visible, synced, held, freed>>

\* No container survives a power failure, and the kubelet prepares the claims
\* of its Pods again.
PowerFailure ==
    /\ Died
    /\ visible' = synced /\ held' = {} /\ freed' = {} /\ trust' = "agree"
    /\ UNCHANGED synced

Next ==
    \/ Open \/ reconcileDevice
    \/ \E c \in Claims :
          \/ \E d \in Devices : prepare(c, d)
          \/ Probe(c) \/ Reserve(c) \/ UnprepareResourceClaims(c) \/ Release(c)
    \/ PersistFails \/ Rename \/ SyncDirectory \/ SyncFails
    \/ WriteBack \/ Crash \/ PowerFailure

Spec == Init /\ [][Next]_vars

-----------------------------------------------------------------------------
(* Properties.                                                             *)

Injective(prepared) == \A p, q \in prepared : p[2] = q[2] => p = q

\* A device is prepared for one claim at a time, and a claim whose unprepare
\* returned without error keeps no device from the others, through concurrent
\* calls, devices that come and go, failed writes, and deaths of the driver
\* and the node.  The exception is a driver that dies while a failed sync of
\* the directory has left its memory and its file different.
DeviceExclusive ==
    trust # "lost" =>
        /\ Injective(held)
        /\ \A c \in freed : Of(IF up THEN mem ELSE visible, c) = {}
=============================================================================
