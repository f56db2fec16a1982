---------------------------- MODULE MeshEnrollment ----------------------------
(***************************************************************************)
(* Mesh addresses of Native hosts: "idlectl join" claims an address of the *)
(* WireKube mesh with a Lease named after it (internal/meshclaim), creates *)
(* a WireKubePeer that advertises it, and checks late that the address is  *)
(* still its own; "idlectl delete host" takes it all back                  *)
(* (internal/native/wirekube).  The commands of different hosts interleave *)
(* call by call; each host runs one command at a time.                     *)
(*                                                                         *)
(* A claim Lease is its holder, a WireKubePeer its address.  Only a host's *)
(* own command creates its claims and its peer, so a UID that a command    *)
(* remembers is still current exactly while the holder is unchanged; for   *)
(* the state file, which outlives commands, "uid" says so explicitly.      *)
(***************************************************************************)
EXTENDS Integers, Sequences, SequencesExt

CONSTANTS
    Hosts,
    Nodes,          \* mesh nodes that are not Native hosts
    Addresses,      \* the usable addresses of the mesh CIDR
    Walk,           \* per host: every address once, in the order of IPForNameAttempt
    ProbeLimit,     \* candidates tried one by one before the claims are listed
    MaxFaults,      \* bound: failed or lost calls, failed writes and crashes
    None

VARIABLES
    arbitrates,     \* the mesh's addressAllocation: "allocator" or not
    claim,          \* per address: the holder of its claim Lease, or None
    peer,           \* per host and node: the address its WireKubePeer advertises, or None
    identity,       \* per host: whether its service account and roles exist
    file,           \* per host: the local leaf state, or NoFile
    joined,         \* per host: its connectivity service runs on a finished join
    cmd,            \* per host: the command in progress
    faults

vars == <<arbitrates, claim, peer, identity, file, joined, cmd, faults>>

Capacity == Cardinality(Addresses)

\* The state file records the address and the UID of the peer: none yet, that
\* of the peer that exists, or that of one that is gone.
NoFile == [exists |-> FALSE, address |-> None, uid |-> "none"]
Idle == [at |-> "idle", mode |-> "none", attempt |-> 0, taken |-> {},
         address |-> None, claimed |-> FALSE, made |-> FALSE]

TypeOK ==
    /\ arbitrates \in BOOLEAN
    /\ claim \in [Addresses -> Hosts \cup Nodes \cup {None}]
    /\ peer \in [Hosts \cup Nodes -> Addresses \cup {None}]
    /\ identity \in [Hosts -> BOOLEAN]
    /\ file \in [Hosts -> [exists : BOOLEAN, address : Addresses \cup {None},
                           uid : {"none", "current", "gone"}]]
    /\ joined \in [Hosts -> BOOLEAN]
    /\ cmd \in [Hosts ->
         [at : {"idle", "held", "scan", "create", "read", "list", "save",
                "peer", "saveUID", "confirm", "identity", "finish",
                "undoPeer", "undoIdentity", "undoClaim",
                "revokePeer", "revokeIdentity", "listOwn", "release", "forget"},
          mode : {"none", "preferred", "probe", "free", "reserve"},
          attempt : 0..Capacity, taken : SUBSET Addresses,
          address : Addresses \cup {None}, claimed : BOOLEAN, made : BOOLEAN]]
    /\ faults \in 0..MaxFaults

\* The nodes of the mesh advertise different addresses, or none; where the
\* mesh arbitrates they hold the claims.
Init ==
    /\ arbitrates \in BOOLEAN
    /\ peer \in [Hosts \cup Nodes -> Addresses \cup {None}]
    /\ \A h \in Hosts : peer[h] = None
    /\ \A m, n \in Nodes : m # n /\ peer[m] # None => peer[m] # peer[n]
    /\ claim = [a \in Addresses |->
                  IF arbitrates /\ \E n \in Nodes : peer[n] = a
                  THEN CHOOSE n \in Nodes : peer[n] = a ELSE None]
    /\ identity = [h \in Hosts |-> FALSE]
    /\ file = [h \in Hosts |-> NoFile]
    /\ joined = [h \in Hosts |-> FALSE]
    /\ cmd = [h \in Hosts |-> Idle]
    /\ faults = 0

-----------------------------------------------------------------------------
(* The claims.                                                             *)

\* meshclaim.claim: what Create does to an address nobody holds.
Claimed(h, a) == [claim EXCEPT ![a] = h]

\* deleteClaim: delete with the UID read earlier.  NotFound and Conflict are
\* ignored, so a claim that has another holder by now stays.
Deleted(h, as) ==
    [a \in Addresses |-> IF a \in as /\ claim[a] = h THEN None ELSE claim[a]]

heldBy(h) == {a \in Addresses : claim[a] = h}

\* The address a walk is at.
candidate(h) ==
    IF cmd[h].mode = "preferred" THEN file[h].address ELSE Walk[h][cmd[h].attempt]

\* The next attempt of allocateFromFreeList that is not known to be taken.
untaken(h, from, taken) == {i \in from..Capacity : Walk[h][i] \notin taken}

walkFrom(h, c, from, taken) ==
    IF untaken(h, from, taken) = {} THEN Idle     \* ErrExhausted
    ELSE [c EXCEPT !.at = "create", !.mode = "free", !.taken = taken,
                   !.attempt = Min(untaken(h, from, taken))]

probed == IF ProbeLimit < Capacity THEN ProbeLimit ELSE Capacity

\* Where Allocate and Reserve go when the candidate turned out to be taken.
afterTaken(h) ==
    LET c == cmd[h] IN
    CASE c.mode = "reserve" -> Idle               \* ErrInUse
      [] c.mode = "preferred" -> [c EXCEPT !.at = "create", !.mode = "probe", !.attempt = 1]
      [] c.mode = "probe" /\ c.attempt < probed -> [c EXCEPT !.at = "create", !.attempt = @ + 1]
      [] c.mode = "probe" /\ c.attempt = probed ->
           IF probed = Capacity THEN Idle ELSE [c EXCEPT !.at = "list"]
      [] c.mode = "free" -> walkFrom(h, c, c.attempt + 1, c.taken \cup {candidate(h)})

\* claimMeshIP has settled the address.
settled(h, a, created) ==
    [Idle EXCEPT !.at = "save", !.address = a, !.claimed = created]

-----------------------------------------------------------------------------
(* Failure.  A call or a write that fails leaves its effect undone, or done *)
(* with the answer lost; either way the command takes the error path of the *)
(* place it is at.                                                          *)

\* rollbackNewWireKubeEnrollment undoes what this command created, and no more.
rollback(c) ==
    IF c.made THEN [c EXCEPT !.at = "undoPeer"]
    ELSE IF c.claimed THEN [c EXCEPT !.at = "undoClaim"]
    ELSE Idle

onError(c) ==
    CASE c.at \in {"save", "peer", "saveUID", "confirm", "identity", "finish"} -> rollback(c)
      [] c.at = "undoPeer" -> [c EXCEPT !.at = "undoIdentity"]
      [] c.at = "undoIdentity" -> rollback([c EXCEPT !.made = FALSE])
      [] OTHER -> Idle

Fault == faults < MaxFaults /\ faults' = faults + 1

\* The step's effect happens; its answer arrives, or it does not.
Proceed(h, c) ==
    \/ cmd' = [cmd EXCEPT ![h] = c] /\ UNCHANGED faults
    \/ cmd' = [cmd EXCEPT ![h] = onError(cmd[h])] /\ Fault

\* The step has no effect.
CallFails(h) ==
    /\ cmd[h].at # "idle"
    /\ Fault
    /\ cmd' = [cmd EXCEPT ![h] = onError(cmd[h])]
    /\ UNCHANGED <<arbitrates, claim, peer, identity, file, joined>>

\* The command is killed.
Crash(h) ==
    /\ cmd[h].at # "idle"
    /\ Fault
    /\ cmd' = [cmd EXCEPT ![h] = Idle]
    /\ UNCHANGED <<arbitrates, claim, peer, identity, file, joined>>

-----------------------------------------------------------------------------
(* Enroll: the address.                                                    *)

\* loadOrCreateState.
Enroll(h) ==
    /\ cmd[h].at = "idle"
    /\ file' = [file EXCEPT ![h].exists = TRUE]
    /\ cmd' = [cmd EXCEPT ![h].at = IF arbitrates THEN "held" ELSE "scan"]
    /\ UNCHANGED <<arbitrates, claim, peer, identity, joined, faults>>

\* Allocate first looks for a claim this host already holds.  Commands of one
\* host run one after another, so there is at most one (see JoinRepeats)
\* and no duplicate to release.
heldClaim(h) ==
    /\ cmd[h].at = "held"
    /\ cmd' = [cmd EXCEPT ![h] =
         IF heldBy(h) # {} THEN settled(h, CHOOSE a \in heldBy(h) : TRUE, FALSE)
         ELSE IF file[h].address # None
         THEN [@ EXCEPT !.at = "create", !.mode = "preferred"]
         ELSE [@ EXCEPT !.at = "create", !.mode = "probe", !.attempt = 1]]
    /\ UNCHANGED <<arbitrates, claim, peer, identity, file, joined, faults>>

\* Another peer advertises the address the host's name hashes to.
advertised(h) == \E k \in (Hosts \cup Nodes) \ {h} : peer[k] = Walk[h][1]

\* validateMeshIPAvailability, then Reserve, on a mesh that does not arbitrate.
validateMeshIPAvailability(h) ==
    /\ cmd[h].at = "scan"
    /\ cmd' = [cmd EXCEPT ![h] =
         IF advertised(h) THEN Idle
         ELSE [@ EXCEPT !.at = "create", !.mode = "reserve", !.attempt = 1]]
    /\ UNCHANGED <<arbitrates, claim, peer, identity, file, joined, faults>>

\* claim: Create arbitrates; AlreadyExists leads to a look at who holds it.
createClaim(h) ==
    /\ cmd[h].at = "create"
    /\ IF claim[candidate(h)] = None
       THEN /\ claim' = Claimed(h, candidate(h))
            /\ Proceed(h, settled(h, candidate(h), TRUE))
       ELSE /\ cmd' = [cmd EXCEPT ![h].at = "read"]
            /\ UNCHANGED <<claim, faults>>
    /\ UNCHANGED <<arbitrates, peer, identity, file, joined>>

\* The claim is ours, someone else's, or gone again, which counts as taken.
readClaim(h) ==
    /\ cmd[h].at = "read"
    /\ cmd' = [cmd EXCEPT ![h] =
         IF claim[candidate(h)] = h THEN settled(h, candidate(h), FALSE)
         ELSE afterTaken(h)]
    /\ UNCHANGED <<arbitrates, claim, peer, identity, file, joined, faults>>

\* allocateFromFreeList lists the claims once.
listClaims(h) ==
    /\ cmd[h].at = "list"
    /\ cmd' = [cmd EXCEPT ![h] =
         walkFrom(h, @, 1, {a \in Addresses : claim[a] # None})]
    /\ UNCHANGED <<arbitrates, claim, peer, identity, file, joined, faults>>

\* The first writeState of Enroll records the address.
saveAddress(h) ==
    /\ cmd[h].at = "save"
    /\ file' = [file EXCEPT ![h].address = cmd[h].address]
    /\ Proceed(h, [cmd[h] EXCEPT !.at = "peer"])
    /\ UNCHANGED <<arbitrates, claim, peer, identity, joined>>

-----------------------------------------------------------------------------
(* Enroll: the peer.                                                       *)

\* validateOwnedWireKubePeer: the recorded UID, if any, and the route.
validOwned(h, a) == file[h].uid # "gone" /\ peer[h] = a

ensureWireKubePeer(h) ==
    /\ cmd[h].at = "peer"
    /\ \/ /\ peer[h] = None
          /\ peer' = [peer EXCEPT ![h] = cmd[h].address]
          /\ Proceed(h, [cmd[h] EXCEPT !.at = "saveUID", !.made = TRUE])
       \/ /\ peer[h] # None
          /\ cmd' = [cmd EXCEPT ![h] = IF validOwned(h, cmd[h].address)
                                       THEN [@ EXCEPT !.at = "saveUID"] ELSE rollback(@)]
          /\ UNCHANGED <<peer, faults>>
    /\ UNCHANGED <<arbitrates, claim, identity, file, joined>>

\* The second writeState records the peer's UID.
saveUID(h) ==
    /\ cmd[h].at = "saveUID"
    /\ file' = [file EXCEPT ![h].uid = "current"]
    /\ Proceed(h, [cmd[h] EXCEPT !.at = "confirm"])
    /\ UNCHANGED <<arbitrates, claim, peer, identity, joined>>

\* Mutated form of stillHeld: nothing is checked again.
stillHeldAssumed(h) == TRUE

\* confirmMeshIPStillHeld: the claim is the guarantee on a mesh that
\* arbitrates, the scan of the other peers on one that does not.
stillHeld(h) == IF arbitrates THEN claim[cmd[h].address] = h ELSE ~advertised(h)

confirmMeshIPStillHeld(h) ==
    /\ cmd[h].at = "confirm"
    /\ cmd' = [cmd EXCEPT ![h] = IF stillHeld(h) THEN [@ EXCEPT !.at = "identity"]
                                 ELSE rollback(@)]
    /\ UNCHANGED <<arbitrates, claim, peer, identity, file, joined, faults>>

\* ensurePeerIdentity: the service account and its roles.
ensurePeerIdentity(h) ==
    /\ cmd[h].at = "identity"
    /\ identity' = [identity EXCEPT ![h] = TRUE]
    /\ Proceed(h, [cmd[h] EXCEPT !.at = "finish"])
    /\ UNCHANGED <<arbitrates, claim, peer, file, joined>>

\* writePeerKubeconfig and the last writeState; Enroll returns.
FinishEnroll(h) ==
    /\ cmd[h].at = "finish"
    /\ joined' = [joined EXCEPT ![h] = TRUE]
    /\ cmd' = [cmd EXCEPT ![h] = Idle]
    /\ UNCHANGED <<arbitrates, claim, peer, identity, file, faults>>

-----------------------------------------------------------------------------
(* Rollback and Revoke.                                                    *)

\* The peer of h is deleted: the UID in the state file is that of a peer gone.
PeerDeleted(h) ==
    /\ peer' = [peer EXCEPT ![h] = None]
    /\ file' = [file EXCEPT ![h].uid = IF @ = "current" THEN "gone" ELSE @]

undoPeer(h) ==
    /\ cmd[h].at = "undoPeer"
    /\ PeerDeleted(h)
    /\ Proceed(h, [cmd[h] EXCEPT !.at = "undoIdentity"])
    /\ UNCHANGED <<arbitrates, claim, identity, joined>>

undoIdentity(h) ==
    /\ cmd[h].at = "undoIdentity"
    /\ identity' = [identity EXCEPT ![h] = FALSE]
    /\ Proceed(h, rollback([cmd[h] EXCEPT !.made = FALSE]))
    /\ UNCHANGED <<arbitrates, claim, peer, file, joined>>

rollbackMeshIPClaim(h) ==
    /\ cmd[h].at = "undoClaim"
    /\ claim' = Deleted(h, {cmd[h].address})
    /\ Proceed(h, Idle)
    /\ UNCHANGED <<arbitrates, peer, identity, file, joined>>

\* The services are removed before Revoke reads the state.  Until the first
\* saveAddress the file has no peer mode and no mesh CIDR: Revoke then finds no
\* peer of the older kind, and deleteMeshIPClaim does not look for claims.
Revoke(h) ==
    /\ cmd[h].at = "idle" /\ file[h].exists
    /\ joined' = [joined EXCEPT ![h] = FALSE]
    /\ cmd' = [cmd EXCEPT ![h].at = IF file[h].address = None THEN "forget" ELSE "revokePeer"]
    /\ UNCHANGED <<arbitrates, claim, peer, identity, file, faults>>

revokeWireKubePeer(h) ==
    /\ cmd[h].at = "revokePeer"
    /\ \/ /\ peer[h] = None
          /\ cmd' = [cmd EXCEPT ![h].at = "revokeIdentity"]
          /\ UNCHANGED <<peer, file, faults>>
       \/ /\ peer[h] # None /\ validOwned(h, file[h].address)
          /\ PeerDeleted(h)
          /\ Proceed(h, [cmd[h] EXCEPT !.at = "revokeIdentity"])
       \/ /\ peer[h] # None /\ ~validOwned(h, file[h].address)
          /\ cmd' = [cmd EXCEPT ![h] = Idle]
          /\ UNCHANGED <<peer, file, faults>>
    /\ UNCHANGED <<arbitrates, claim, identity, joined>>

deletePeerIdentity(h) ==
    /\ cmd[h].at = "revokeIdentity"
    /\ identity' = [identity EXCEPT ![h] = FALSE]
    /\ Proceed(h, [cmd[h] EXCEPT !.at = "listOwn"])
    /\ UNCHANGED <<arbitrates, claim, peer, file, joined>>

\* Mutated form of listOwnClaims: only the recorded address is handed back.
listOwnClaimsRecorded(h) ==
    /\ cmd[h].at = "listOwn"
    /\ cmd' = [cmd EXCEPT ![h] = [@ EXCEPT !.at = "release",
                                           !.taken = heldBy(h) \cap {file[h].address}]]
    /\ UNCHANGED <<arbitrates, claim, peer, identity, file, joined, faults>>

\* Release lists the claims and keeps those this host holds ...
listOwnClaims(h) ==
    /\ cmd[h].at = "listOwn"
    /\ cmd' = [cmd EXCEPT ![h] = [@ EXCEPT !.at = "release", !.taken = heldBy(h)]]
    /\ UNCHANGED <<arbitrates, claim, peer, identity, file, joined, faults>>

\* ... and deletes them; waitForClaimGone finds them gone or someone else's.
releaseClaims(h) ==
    /\ cmd[h].at = "release"
    /\ claim' = Deleted(h, cmd[h].taken)
    /\ Proceed(h, [Idle EXCEPT !.at = "forget"])
    /\ UNCHANGED <<arbitrates, peer, identity, file, joined>>

removeLocalState(h) ==
    /\ cmd[h].at = "forget"
    /\ file' = [file EXCEPT ![h] = NoFile]
    /\ Proceed(h, Idle)
    /\ UNCHANGED <<arbitrates, claim, peer, identity, joined>>

-----------------------------------------------------------------------------
(* WireKube, outside this repository.  Its reaper deletes a claim that has  *)
(* outlived its grace with no WireKubePeer of its holder's name.            *)

Reap(a) ==
    /\ claim[a] # None /\ peer[claim[a]] = None
    /\ claim' = [claim EXCEPT ![a] = None]
    /\ UNCHANGED <<arbitrates, peer, identity, file, joined, cmd, faults>>

\* A node is deleted, and its WireKubePeer with it.
NodeLeaves(n) ==
    /\ peer[n] # None
    /\ peer' = [peer EXCEPT ![n] = None]
    /\ UNCHANGED <<arbitrates, claim, identity, file, joined, cmd, faults>>

-----------------------------------------------------------------------------
Command(h) ==
    \/ heldClaim(h) \/ validateMeshIPAvailability(h) \/ createClaim(h)
    \/ readClaim(h) \/ listClaims(h) \/ saveAddress(h)
    \/ ensureWireKubePeer(h) \/ saveUID(h) \/ confirmMeshIPStillHeld(h)
    \/ ensurePeerIdentity(h) \/ FinishEnroll(h)
    \/ undoPeer(h) \/ undoIdentity(h) \/ rollbackMeshIPClaim(h)
    \/ revokeWireKubePeer(h) \/ deletePeerIdentity(h) \/ listOwnClaims(h)
    \/ releaseClaims(h) \/ removeLocalState(h)

Next ==
    \/ \E h \in Hosts : Enroll(h) \/ Revoke(h) \/ Command(h) \/ CallFails(h) \/ Crash(h)
    \/ \E a \in Addresses : Reap(a)
    \/ \E n \in Nodes : NodeLeaves(n)

Spec == Init /\ [][Next]_vars

-----------------------------------------------------------------------------
(* Properties.                                                             *)

\* A host whose join returned success advertises an address that no other
\* joined host and no node advertises:
\* not when their names hash to one, not when a claim is reaped in the middle
\* of a slow join, not after any failed, lost or interrupted call.  It is the
\* address its state file records, the peer is the one whose UID was recorded
\* and, where the mesh arbitrates, the claim on the address is still its own.
JoinedOwnsAddress ==
    \A h \in Hosts : joined[h] =>
        /\ \A k \in (Hosts \cup Nodes) \ {h} : (k \in Hosts => joined[k]) => peer[h] # peer[k]
        /\ peer[h] # None /\ peer[h] = file[h].address /\ file[h].uid = "current"
        /\ arbitrates => claim[peer[h]] = h

\* The state file is removed last: wherever join or delete stops, what is left
\* of the host in the cluster is found by running delete again, claims at an
\* address other than the recorded one included.  (Before an address was ever
\* recorded, a claim can be left to the reaper.)
ForgetsNothing ==
    \A h \in Hosts : file[h].exists /\ ~file'[h].exists =>
        /\ peer[h] = None /\ ~identity[h]
        /\ file[h].address # None => heldBy(h) = {}

\* A join can be run again: it lands on the address it claimed before, so that
\* however often it is retried a host consumes one address.  As long as no
\* call, write or command has failed, a command that returns leaves no peer
\* that the next join and delete would refuse as not their own, whatever the
\* reaper and the other hosts did meanwhile.
JoinRepeats ==
    \A h \in Hosts :
        /\ Cardinality(heldBy(h)) <= 1
        /\ faults = 0 /\ cmd[h].at = "idle" /\ peer[h] # None => validOwned(h, file[h].address)

\* A joined host owns its address, and a join can be repeated.
AddressOwned == JoinedOwnsAddress /\ JoinRepeats

\* A claim changes hands only by being given up: by a command of its holder,
\* or by the reaper while the holder has no peer.  No teardown or rollback of
\* one host takes the claim that another made on the same address meanwhile.
ClaimStep ==
    \A a \in Addresses : claim[a] # None /\ claim'[a] # claim[a] =>
        /\ claim'[a] = None
        /\ \/ claim[a] \in Hosts /\ cmd'[claim[a]] # cmd[claim[a]]
           \/ peer[claim[a]] = None

\* A host gives up all that is its own, and nothing of another.
ReleasesOwn == [][ForgetsNothing /\ ClaimStep]_vars
=============================================================================
