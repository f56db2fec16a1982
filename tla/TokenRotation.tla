--------------------------- MODULE TokenRotation ---------------------------
(***************************************************************************)
(* The rotating service-account token of the agent, the link, the          *)
(* controller and the projection (internal/native/credential/rotating.go): *)
(* every API request of a process takes the token from one source, which   *)
(* asks for the next one under its mutex when the current one is about to  *)
(* expire, and writes it to the kubeconfig a restart will read.            *)
(*                                                                         *)
(* A token is the time it expires.                                         *)
(***************************************************************************)
EXTENDS Naturals

CONSTANTS Requests,      \* concurrent API requests of the process
          None,
          refreshBefore, \* how long before the expiry a token is replaced
          tokenDuration, \* how long a new token lives
          MaxNow,        \* bound: the clock
          MaxFaults      \* bound: failed calls and writes, crashes

VARIABLES now, source, kubeconfig, mutex, request, faults

vars == <<now, source, kubeconfig, mutex, request, faults>>

Idle == [at |-> "idle", token |-> 0]
Times == 0..(MaxNow + tokenDuration)

TypeOK ==
    /\ now \in 0..MaxNow /\ faults \in 0..MaxFaults
    /\ source \in [up : BOOLEAN, token : Times]
    /\ kubeconfig \in Times
    /\ mutex \in Requests \cup {None}
    /\ request \in [Requests -> [at : {"idle", "locking", "refresh", "persist", "persisted", "send"}, token : Times]]

\* Join left a token in the kubeconfig.
Init ==
    /\ now = 0 /\ faults = 0 /\ mutex = None
    /\ kubeconfig = tokenDuration
    /\ source = [up |-> FALSE, token |-> 0]
    /\ request = [r \in Requests |-> Idle]

Fault == faults < MaxFaults /\ faults' = faults + 1
Set(r, at, token) == request' = [request EXCEPT ![r] = [at |-> at, token |-> token]]

\* The expiry of the first token is read from the token itself.
Configure ==
    /\ ~source.up
    /\ source' = [up |-> TRUE, token |-> kubeconfig]
    /\ UNCHANGED <<now, kubeconfig, mutex, request, faults>>

RoundTrip(r) ==
    /\ source.up /\ request[r].at = "idle" /\ Set(r, "locking", 0)
    /\ UNCHANGED <<now, source, kubeconfig, mutex, faults>>

currentToken(r) ==
    /\ request[r].at = "locking" /\ mutex = None
    /\ \/ now + refreshBefore < source.token /\ Set(r, "send", source.token) /\ UNCHANGED mutex
       \/ ~(now + refreshBefore < source.token) /\ Set(r, "refresh", 0) /\ mutex' = r
    /\ UNCHANGED <<now, source, kubeconfig, faults>>

\* The API grants a token to one that is still valid.
refresh(r) ==
    /\ request[r].at = "refresh"
    /\ \/ now < source.token /\ Set(r, "persist", now + tokenDuration) /\ UNCHANGED <<mutex, faults>>
       \/ ~(now < source.token) /\ Set(r, "idle", 0) /\ mutex' = None /\ UNCHANGED faults
       \/ Set(r, "idle", 0) /\ mutex' = None /\ Fault
    /\ UNCHANGED <<now, source, kubeconfig>>

\* Mutated form: a failed write is reported, and the new token taken anyway.
persistTokenIgnored(r) ==
    /\ request[r].at = "persist"
    /\ Set(r, "persisted", request[r].token) /\ UNCHANGED <<now, source, mutex>>
    /\ (kubeconfig' = request[r].token /\ UNCHANGED faults) \/ (UNCHANGED kubeconfig /\ Fault)

\* The rename is the last step: the file holds the old token or the new one.
persistToken(r) ==
    /\ request[r].at = "persist"
    /\ \/ kubeconfig' = request[r].token /\ Set(r, "persisted", request[r].token) /\ UNCHANGED <<mutex, faults>>
       \/ Set(r, "idle", 0) /\ mutex' = None /\ Fault /\ UNCHANGED kubeconfig
    /\ UNCHANGED <<now, source>>

Adopt(r) ==
    /\ request[r].at = "persisted"
    /\ source' = [source EXCEPT !.token = request[r].token]
    /\ Set(r, "send", request[r].token) /\ mutex' = None
    /\ UNCHANGED <<now, kubeconfig, faults>>

Send(r) ==
    /\ request[r].at = "send" /\ Set(r, "idle", 0)
    /\ UNCHANGED <<now, source, kubeconfig, mutex, faults>>

\* Time passes, the Mac asleep or awake.
Tick == now < MaxNow /\ now' = now + 1 /\ UNCHANGED <<source, kubeconfig, mutex, request, faults>>

Crash ==
    /\ source.up /\ Fault
    /\ source' = [up |-> FALSE, token |-> 0] /\ mutex' = None /\ request' = [r \in Requests |-> Idle]
    /\ UNCHANGED <<now, kubeconfig>>

Next ==
    \/ Configure \/ Tick \/ Crash
    \/ \E r \in Requests : RoundTrip(r) \/ currentToken(r) \/ refresh(r) \/ persistToken(r) \/ Adopt(r) \/ Send(r)

Spec == Init /\ [][Next]_vars

\* A process that dies at any moment starts again with a token that lives at
\* least as long as any it had used: a token is on disk before the source or a
\* request holds it (rotating.go:124-129), so a host that could talk to the
\* cluster is not sent back to `join` by a restart.
RestartKeepsToken ==
    /\ source.up => source.token <= kubeconfig
    /\ \A r \in Requests : request[r].at = "send" => request[r].token <= kubeconfig
=============================================================================
