------------------------------ MODULE LeafLink ------------------------------
(***************************************************************************)
(* The connected-leaf link of a Native host: `idlectl link`                *)
(* (cmd/idlectl/main.go), the tunnel it keeps                              *)
(* (internal/native/wirekube/tunnel_darwin.go, network_darwin.go), the     *)
(* lock and the status file it shares with the agent and with the command  *)
(* that revokes the peer (runtime.go, runtime_lock_unix.go), and the agent *)
(* that decides from the file alone whether the host is connected.         *)
(*                                                                         *)
(* Time is counted in ticks of a third of maximumAge or more; only the age *)
(* of the status file, and how long ago the link last worked, are kept.    *)
(***************************************************************************)
EXTENDS Naturals, FiniteSets, Functions

CONSTANTS Links,      \* slots for link processes: launchd's and one run by hand
          Names,      \* remote WireKubePeers
          Keys,       \* public keys they may carry
          Absent,     \* no such peer, or none with a key and a /32 in the mesh
          None,
          maximumAge, \* ticks after which the agent calls a status stale
          MaxStarts,  \* bound: link processes started
          MaxEdits,   \* bound: changes of the peers in the cluster
          MaxFaults   \* bound: failed calls, replaced routes, crashes

VARIABLES link,      \* per slot, the process
          lock,      \* who holds the flock of wirekube-runtime.lock
          file,      \* wirekube-runtime.json
          cluster,   \* the peers, and `connected` in this peer's status
          sinceUp,   \* ticks since the link last carried traffic (history)
          env        \* starts, edits and faults so far

vars == <<link, lock, file, cluster, sinceUp, env>>

NoPeers == [n \in {} |-> Absent]
Down == [at |-> "down", inst |-> 0, stopping |-> FALSE, tun |-> FALSE, route |-> FALSE, relay |-> FALSE,
         next |-> NoPeers, peerKeys |-> NoPeers, device |-> {}, proxies |-> {},
         expired |-> FALSE, status |-> None]
Ages == 0..(maximumAge + 1)
Older(age) == IF age > maximumAge THEN age ELSE age + 1
Probe == "probe"

TypeOK ==
    /\ \A l \in Links :
        /\ link[l].at \in {"down", "token", "lock", "starting", "checks", "open", "configure", "connect", "refresh", "list",
                           "proxies", "ipc", "validate", "write", "publish", "wait", "clear", "close", "remove", "unlock"}
        /\ link[l].device \subseteq Keys /\ link[l].proxies \subseteq Keys
        /\ link[l].route => link[l].tun
    /\ lock \in Links \cup {None, Probe}
    /\ file = None \/ file \in [inst : 1..MaxStarts, error : BOOLEAN, age : Ages]
    /\ sinceUp \in Ages
    /\ cluster.peers \in [Names -> Keys \cup {Absent}]

Init ==
    /\ link = [l \in Links |-> Down]
    /\ lock = None /\ file = None /\ sinceUp = maximumAge + 1
    /\ cluster \in [peers : [Names -> Keys \cup {Absent}], connected : {FALSE}]
    /\ env = [starts |-> 0, edits |-> 0, faults |-> 0]

Fault == env.faults < MaxFaults /\ env' = [env EXCEPT !.faults = @ + 1]
\* A call that takes the context of the command fails once that is done.
Failure(l) == (link[l].stopping /\ UNCHANGED env) \/ Fault

At(l, pc) == link[l].at = pc
Goto(l, pc) == link' = [link EXCEPT ![l].at = pc]
SetLink(l, record) == link' = [link EXCEPT ![l] = record]

(***************************************************************************)
(* The start of the link, in the order of runLink; each failure runs the   *)
(* deferred calls registered so far.                                       *)
(***************************************************************************)
Start(l) ==
    /\ At(l, "down") /\ env.starts < MaxStarts
    /\ Goto(l, "token") /\ env' = [env EXCEPT !.starts = @ + 1]
    /\ UNCHANGED <<lock, file, cluster>>

WriteRelayToken(l) ==
    /\ At(l, "token")
    /\ (Goto(l, "lock") /\ UNCHANGED env) \/ (Goto(l, "down") /\ Failure(l))
    /\ UNCHANGED <<lock, file, cluster>>

AcquireRuntimeLock(l) ==
    /\ At(l, "lock")
    /\ IF lock = None THEN lock' = l /\ SetLink(l, [link[l] EXCEPT !.at = "starting", !.inst = env.starts])
                      ELSE Goto(l, "down") /\ UNCHANGED lock
    /\ UNCHANGED <<file, cluster, env>>

WriteRuntimeStatus(l, error, age, then, otherwise) ==
    /\ \/ file' = [inst |-> link[l].inst, error |-> error, age |-> age] /\ Goto(l, then) /\ UNCHANGED env
       \/ UNCHANGED file /\ Goto(l, otherwise) /\ Fault
    /\ UNCHANGED <<lock, cluster>>

StartingStatus(l) == At(l, "starting") /\ WriteRuntimeStatus(l, TRUE, 0, "checks", "unlock")

\* Endpoints outside the mesh, no overlapping interface, and Preflight: no
\* route into the mesh yet.
Preflight == \A l \in Links : ~link[l].route

TunnelChecks(l) ==
    /\ At(l, "checks")
    /\ \/ Preflight /\ Goto(l, "open") /\ UNCHANGED env
       \/ ~Preflight /\ Goto(l, "remove") /\ UNCHANGED env
       \/ Goto(l, "remove") /\ Failure(l)
    /\ UNCHANGED <<lock, file, cluster>>

\* The utun with its WireGuard device, or fail, which closes what is open.
startPlatformTunnel(l) ==
    /\ At(l, "open")
    /\ \/ SetLink(l, [link[l] EXCEPT !.at = "configure", !.tun = TRUE]) /\ UNCHANGED env
       \/ Goto(l, "remove") /\ Fault
    /\ UNCHANGED <<lock, file, cluster>>

Configure(l) ==
    /\ At(l, "configure")
    /\ \/ SetLink(l, [link[l] EXCEPT !.at = "connect", !.route = TRUE]) /\ UNCHANGED env
       \/ Goto(l, "close") /\ Failure(l)
    /\ UNCHANGED <<lock, file, cluster>>

\* The first connection may fail; the pool keeps trying in the background.
Connect(l) ==
    /\ At(l, "connect")
    /\ \E up \in BOOLEAN : SetLink(l, [link[l] EXCEPT !.at = "refresh", !.relay = up])
    /\ UNCHANGED <<lock, file, cluster, env>>

(***************************************************************************)
(* writeStatus, once at the start and then at every tick of the interval.  *)
(***************************************************************************)
\* A refresh that is not due, or that works, leaves a good token; one that
\* fails is an error only when the token in the file has expired.
refreshRelayToken(l) ==
    /\ At(l, "refresh")
    /\ \/ SetLink(l, [link[l] EXCEPT !.at = "list", !.expired = FALSE]) /\ UNCHANGED env
       \/ Failure(l) /\ \E late \in BOOLEAN : SetLink(l, [link[l] EXCEPT !.at = "list", !.expired = late])
    /\ UNCHANGED <<lock, file, cluster>>

\* The peers SyncPeers will use: those with a key and a route in the mesh.
usablePeers == [n \in {m \in Names : cluster.peers[m] \in Keys} |-> cluster.peers[n]]

SyncList(l) ==
    /\ At(l, "list")
    /\ \/ SetLink(l, [link[l] EXCEPT !.at = "proxies", !.next = usablePeers]) /\ UNCHANGED env
       \/ Goto(l, "validate") /\ Failure(l)
    /\ UNCHANGED <<lock, file, cluster>>

\* One proxy per key; a failure keeps the ones already made.
GetOrCreateProxy(l) ==
    /\ At(l, "proxies")
    /\ \/ /\ link[l].tun \/ link[l].next = NoPeers
          /\ UNCHANGED env
          /\ SetLink(l, [link[l] EXCEPT !.at = "ipc", !.proxies = @ \cup Range(link[l].next)])
       \/ \E made \in SUBSET Range(link[l].next) :
            /\ made # Range(link[l].next)
            /\ Failure(l)
            /\ SetLink(l, [link[l] EXCEPT !.at = "validate", !.next = NoPeers,
                                    !.proxies = @ \cup IF link[l].tun THEN made ELSE {}])
    /\ UNCHANGED <<lock, file, cluster>>

stalePeerPublicKeys(previous, next) == Range(previous) \ Range(next)

\* replace_peers, then the proxies nobody uses any more.
SyncDevice(l) ==
    /\ At(l, "ipc")
    /\ LET L == link[l] IN
       \/ /\ L.tun /\ UNCHANGED env
          /\ SetLink(l, [L EXCEPT !.at = "validate", !.device = Range(L.next), !.peerKeys = L.next, !.next = NoPeers,
                                  !.proxies = @ \ stalePeerPublicKeys(L.peerKeys, L.next)])
       \/ /\ Failure(l)
          /\ \E left \in {L.device, {}} : SetLink(l, [L EXCEPT !.at = "validate", !.device = left, !.next = NoPeers])
    /\ UNCHANGED <<lock, file, cluster>>

\* The route is still this interface's, the relay session is up, some peer is
\* synchronized, and the WireGuard device answers.
Validated(L) == L.route /\ L.relay /\ DOMAIN L.peerKeys # {} /\ L.tun

\* Mutated form: the peers recorded last are taken for a working tunnel.
ValidateRecorded(l) ==
    /\ At(l, "validate")
    /\ SetLink(l, [link[l] EXCEPT !.at = "write", !.expired = FALSE,
                   !.status = [error |-> link[l].expired \/ DOMAIN link[l].peerKeys = {}, age |-> 0]])
    /\ UNCHANGED <<lock, file, cluster, env>>

Validate(l) ==
    /\ At(l, "validate")
    /\ \/ /\ UNCHANGED env
          /\ SetLink(l, [link[l] EXCEPT !.at = "write", !.expired = FALSE,
                         !.status = [error |-> link[l].expired \/ ~Validated(link[l]), age |-> 0]])
       \/ Failure(l) /\ SetLink(l, [link[l] EXCEPT !.at = "write", !.expired = FALSE, !.status = [error |-> TRUE, age |-> 0]])
    /\ UNCHANGED <<lock, file, cluster>>

WriteStatus(l) ==
    /\ At(l, "write") /\ WriteRuntimeStatus(l, link[l].status.error, link[l].status.age, "publish", "clear")

UpdatePeerStatus(l, connected, then, fails) ==
    /\ Goto(l, then)
    /\ \/ cluster' = [cluster EXCEPT !.connected = connected] /\ UNCHANGED env
       \/ fails /\ UNCHANGED cluster
    /\ UNCHANGED <<lock, file>>

Publish(l) == At(l, "publish") /\ UpdatePeerStatus(l, ~link[l].status.error, "wait", Failure(l))

\* Both cases of the select may be ready.
Wait(l) ==
    /\ At(l, "wait")
    /\ SetLink(l, [link[l] EXCEPT !.at = "refresh", !.status = None]) \/ (link[l].stopping /\ Goto(l, "clear"))
    /\ UNCHANGED <<lock, file, cluster, env>>

(***************************************************************************)
(* The deferred calls, last registered first, and the goroutine that       *)
(* closes the tunnel as soon as the context is done.                       *)
(***************************************************************************)
Clear(l) == At(l, "clear") /\ UpdatePeerStatus(l, FALSE, "close", Fault)

Closed(L) == [L EXCEPT !.tun = FALSE, !.route = FALSE, !.relay = FALSE, !.device = {}, !.proxies = {}]

CloseTunnel(l) ==
    /\ At(l, "close") /\ SetLink(l, [Closed(link[l]) EXCEPT !.at = "remove"])
    /\ UNCHANGED <<lock, file, cluster, env>>

CloseOnDone(l) ==
    /\ link[l].stopping /\ link[l].tun /\ ~link[l].at \in {"configure", "connect", "close"}
    /\ SetLink(l, Closed(link[l]))
    /\ UNCHANGED <<lock, file, cluster, env>>

RemoveRuntimeStatus(l) ==
    /\ At(l, "remove") /\ Goto(l, "unlock")
    /\ \/ file' = (IF file # None /\ file.inst = link[l].inst THEN None ELSE file) /\ UNCHANGED env
       \/ UNCHANGED file /\ Fault
    /\ UNCHANGED <<lock, cluster>>

Unlock(l) ==
    /\ At(l, "unlock") /\ SetLink(l, Down) /\ lock' = None
    /\ UNCHANGED <<file, cluster, env>>

(***************************************************************************)
(* The agent's reading of the status file, and the command that revokes    *)
(* the peer, which takes the lock for a moment to see whether it is free.  *)
(***************************************************************************)
ReadRuntimeStatus == file # None /\ file.age <= maximumAge /\ ~file.error

evaluateConnectivity == ReadRuntimeStatus

RuntimeLockIsHeld ==
    /\ \/ lock = None /\ lock' = Probe
       \/ lock = Probe /\ lock' = None
    /\ UNCHANGED <<link, file, cluster, env>>

(***************************************************************************)
(* The surroundings: launchd, the cluster, the relay, the routing table.   *)
(***************************************************************************)
Terminate(l) ==
    /\ link[l].at # "down" /\ ~link[l].stopping
    /\ link' = [link EXCEPT ![l].stopping = TRUE]
    /\ UNCHANGED <<lock, file, cluster, env>>

\* The kernel drops the flock, the utun and its routes with the process.
Crash(l) ==
    /\ link[l].at # "down" /\ Fault
    /\ SetLink(l, Down) /\ lock' = (IF lock = l THEN None ELSE lock)
    /\ UNCHANGED <<file, cluster>>

EditPeer ==
    /\ env.edits < MaxEdits /\ env' = [env EXCEPT !.edits = @ + 1]
    /\ \E n \in Names, key \in Keys \cup {Absent} : cluster' = [cluster EXCEPT !.peers[n] = key]
    /\ UNCHANGED <<link, lock, file>>

RelayChanges(l) ==
    /\ link[l].tun /\ ~link[l].at \in {"configure", "connect"}
    /\ link' = [link EXCEPT ![l].relay = ~@]
    /\ UNCHANGED <<lock, file, cluster, env>>

RouteReplaced(l) ==
    /\ link[l].route /\ Fault
    /\ link' = [link EXCEPT ![l].route = FALSE]
    /\ UNCHANGED <<lock, file, cluster>>

Working == \E l \in Links : Validated(link[l])

Tick ==
    /\ file' = (IF file = None THEN None ELSE [file EXCEPT !.age = Older(@)])
    /\ link' = [l \in Links |-> IF link[l].status = None THEN link[l] ELSE [link[l] EXCEPT !.status.age = Older(@)]]
    /\ sinceUp' = (IF Working THEN 0 ELSE Older(sinceUp))
    /\ UNCHANGED <<lock, cluster, env>>

LinkStep(l) ==
    \/ Start(l) \/ WriteRelayToken(l) \/ AcquireRuntimeLock(l) \/ StartingStatus(l) \/ TunnelChecks(l)
    \/ startPlatformTunnel(l) \/ Configure(l) \/ Connect(l)
    \/ refreshRelayToken(l) \/ SyncList(l) \/ GetOrCreateProxy(l) \/ SyncDevice(l) \/ Validate(l)
    \/ WriteStatus(l) \/ Publish(l) \/ Wait(l)
    \/ Clear(l) \/ CloseTunnel(l) \/ CloseOnDone(l) \/ RemoveRuntimeStatus(l) \/ Unlock(l)

Surroundings ==
    \/ \E l \in Links : Terminate(l) \/ Crash(l) \/ RelayChanges(l) \/ RouteReplaced(l)
    \/ EditPeer \/ RuntimeLockIsHeld

Next ==
    \/ /\ (\E l \in Links : LinkStep(l)) \/ Surroundings
       /\ sinceUp' = IF Working \/ Working' THEN 0 ELSE sinceUp
    \/ Tick

Spec == Init /\ [][Next]_vars

(***************************************************************************)
(* Properties.                                                             *)
(***************************************************************************)

\* The agent calls the host connected only while, or at most maximumAge after,
\* the tunnel worked: whatever died, was replaced or restarted since, a status
\* that says so went stale or was overwritten (runtime.go:68, main.go:671).
ConnectedIsRecent == evaluateConnectivity => sinceUp <= maximumAge

\* Every peer the WireGuard device sends to has its relay proxy, through key
\* rotation and peers that share a key (tunnel_darwin.go:181,
\* tunnel.go:177), and there is one such device at a time.
RoutedPeersHaveProxies ==
    /\ \A l \in Links : link[l].device \subseteq link[l].proxies
    /\ \A l, m \in Links : link[l].tun /\ link[m].tun => l = m

\* What the link reports, and what it routes, is what it has.
LinkIsAsTold == ConnectedIsRecent /\ RoutedPeersHaveProxies
=============================================================================
