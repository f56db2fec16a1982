------------------------ MODULE ServingCertificates ------------------------
(***************************************************************************)
(* How a Linux worker's kubelet gets its serving certificate               *)
(* (internal/idleloom/bootstrap.go): ApproveKubeletServingCSR, run by the  *)
(* command that creates or starts the worker, which waits, and by the      *)
(* maintainer, which looks again at every interval; beside them the        *)
(* kubelet that files requests, the signer, an administrator who denies or *)
(* approves by hand, and the collector of old requests.                    *)
(*                                                                         *)
(* Requests are numbered in the order of their creation.                   *)
(***************************************************************************)
EXTENDS Naturals, FiniteSetsExt

CONSTANTS Approvers,   \* "command" and "maintainer"
          MaxRequests, \* bound: requests filed for this Node name
          MaxFaults    \* bound: API errors, timeouts, deaths of the command

VARIABLES csrs,     \* the requests in the API, by number
          approver, \* per approver the call it is in
          kubelet,  \* what the kubelet serves and the request it waits on
          issued,   \* requests whose certificate names this Node and address (history)
          env       \* requests filed, faults so far

vars == <<csrs, approver, kubelet, issued, env>>

\* good: signed by a fit key, for this Node name and guest address and no other.
Requests == [good : BOOLEAN, state : {"pending", "approved", "denied"}, certificate : BOOLEAN]
Numbers == 1..MaxRequests
Idle == [at |-> "idle", wait |-> FALSE, notBefore |-> 1, csr |-> 0, seen |-> "pending", result |-> "none"]

TypeOK ==
    /\ DOMAIN csrs \subseteq Numbers /\ \A n \in DOMAIN csrs : csrs[n] \in Requests
    /\ \A a \in Approvers :
        /\ approver[a].at \in {"idle", "list", "approve", "issue", "probe"}
        /\ approver[a].result \in {"none", "ok", "error"}
        /\ approver[a].csr \in 0..MaxRequests
    /\ kubelet.serves \in {"none", "good", "bad"} /\ kubelet.csr \in 0..MaxRequests
    /\ issued \subseteq Numbers /\ env.filed \in 0..MaxRequests

Init ==
    /\ csrs = [n \in {} |-> 0]
    /\ approver = [a \in Approvers |-> Idle]
    /\ kubelet = [serves |-> "none", csr |-> 0]
    /\ issued = {}
    /\ env = [filed |-> 0, faults |-> 0]

Fault == env.faults < MaxFaults /\ env' = [env EXCEPT !.faults = @ + 1]
Set(a, record) == approver' = [approver EXCEPT ![a] = record]
Return(a, result) == Set(a, [approver[a] EXCEPT !.at = "idle", !.csr = 0, !.result = result])

\* Create and resume wait, start and the maintainer do not. All go by the
\* creation of the worker, but for a resume that finds no Node.
Begin(a) ==
    /\ approver[a].at = "idle"
    /\ \E wait \in {a = "command", FALSE}, notBefore \in {1, env.filed + 1} :
         /\ wait \/ notBefore = 1
         /\ Set(a, [Idle EXCEPT !.at = "list", !.wait = wait, !.notBefore = notBefore])
    /\ UNCHANGED <<csrs, kubelet, issued, env>>

Recent(a, state) == {n \in DOMAIN csrs : n >= approver[a].notBefore /\ csrs[n].state = state}

csrDenied(n) == csrs[n].state = "denied"
Pending(n) == n \in DOMAIN csrs /\ csrs[n].state = "pending"
validateKubeletServingCSR(n) == csrs[n].good

(***************************************************************************)
(* One turn of the loop: the newest pending request, else the newest       *)
(* approved one, else what the kubelet serves.                             *)
(***************************************************************************)
List(a) ==
    /\ approver[a].at = "list"
    /\ LET pending == Recent(a, "pending")
           approved == Recent(a, "approved")
           wait == approver[a].wait
       IN  \/ /\ pending # {} /\ UNCHANGED env
              /\ IF validateKubeletServingCSR(Max(pending))
                 THEN Set(a, [approver[a] EXCEPT !.at = "approve", !.csr = Max(pending)])
                 ELSE Return(a, "error")
           \/ /\ pending = {} /\ approved # {} /\ UNCHANGED env
              /\ CASE ~validateKubeletServingCSR(Max(approved)) -> Return(a, "error")
                   [] wait /\ ~csrs[Max(approved)].certificate ->
                        Set(a, [approver[a] EXCEPT !.at = "issue", !.csr = Max(approved)])
                   [] OTHER -> Return(a, "ok")
           \/ /\ pending = {} /\ approved = {} /\ UNCHANGED env
              /\ CASE wait /\ Recent(a, "denied") # {} -> Return(a, "error")
                   [] ~wait -> Return(a, "ok")
                   [] OTHER -> Set(a, [approver[a] EXCEPT !.at = "probe"])
           \/ Fault /\ Return(a, "error")
    /\ UNCHANGED <<csrs, kubelet, issued>>

\* The update carries the resourceVersion of the list: it is refused when the
\* request was decided or collected since.
UpdateApproval(a) ==
    /\ approver[a].at = "approve"
    /\ LET n == approver[a].csr IN
       \/ /\ Pending(n) /\ UNCHANGED env
          /\ csrs' = [csrs EXCEPT ![n].state = "approved"]
          /\ IF approver[a].wait THEN Set(a, [approver[a] EXCEPT !.at = "issue"]) ELSE Return(a, "ok")
       \/ /\ ~Pending(n)
          /\ Return(a, "error") /\ UNCHANGED <<csrs, env>>
       \/ Fault /\ Return(a, "error") /\ UNCHANGED csrs
    /\ UNCHANGED <<kubelet, issued>>

\* Mutated form: the approval is taken for the certificate.
waitForIssuedUnseen(a) ==
    /\ approver[a].at = "issue"
    /\ Return(a, IF approver[a].csr \in DOMAIN csrs THEN "ok" ELSE "error")
    /\ UNCHANGED <<csrs, kubelet, issued, env>>

waitForIssuedServingCertificate(a) ==
    /\ approver[a].at = "issue"
    /\ LET n == approver[a].csr IN
       \/ n \notin DOMAIN csrs /\ Return(a, "error") /\ UNCHANGED env
       \/ n \in DOMAIN csrs /\ csrDenied(n) /\ Return(a, "error") /\ UNCHANGED env
       \/ n \in DOMAIN csrs /\ ~csrDenied(n) /\ csrs[n].certificate /\ Return(a, "ok") /\ UNCHANGED env
       \/ Fault /\ Return(a, "error")
    /\ UNCHANGED <<csrs, kubelet, issued>>

\* Nothing to approve: what the kubelet serves decides, or the next tick.
kubeletServingCertificateReady(a) ==
    /\ approver[a].at = "probe"
    /\ \/ kubelet.serves = "good" /\ Return(a, "ok") /\ UNCHANGED env
       \/ kubelet.serves # "good" /\ Set(a, [approver[a] EXCEPT !.at = "list"]) /\ UNCHANGED env
       \/ Fault /\ Return(a, "error")
    /\ UNCHANGED <<csrs, kubelet, issued>>

ApproveKubeletServingCSR(a) ==
    Begin(a) \/ List(a) \/ UpdateApproval(a) \/ waitForIssuedServingCertificate(a) \/ kubeletServingCertificateReady(a)

(***************************************************************************)
(* The surroundings.                                                       *)
(***************************************************************************)
\* No certificate, or one that is about to expire, and no request under way;
\* a request that is denied, collected or not answered in time is given up.
File ==
    /\ kubelet.csr = 0 /\ kubelet.serves # "good" /\ env.filed < MaxRequests
    /\ \E good \in BOOLEAN :
         csrs' = [n \in DOMAIN csrs \cup {env.filed + 1} |->
                    IF n \in DOMAIN csrs THEN csrs[n] ELSE [good |-> good, state |-> "pending", certificate |-> FALSE]]
    /\ env' = [env EXCEPT !.filed = @ + 1]
    /\ kubelet' = [kubelet EXCEPT !.csr = env.filed + 1]
    /\ UNCHANGED <<approver, issued>>

GiveUp ==
    /\ kubelet.csr # 0
    /\ kubelet' = [kubelet EXCEPT !.csr = 0]
    /\ UNCHANGED <<csrs, approver, issued, env>>

Sign ==
    /\ \E n \in DOMAIN csrs :
         /\ csrs[n].state = "approved" /\ ~csrs[n].certificate
         /\ csrs' = [csrs EXCEPT ![n].certificate = TRUE]
         /\ issued' = IF csrs[n].good THEN issued \cup {n} ELSE issued
    /\ UNCHANGED <<approver, kubelet, env>>

\* The kubelet takes up the certificate of the request it waits on.
Install ==
    /\ kubelet.csr \in DOMAIN csrs /\ csrs[kubelet.csr].certificate
    /\ kubelet' = [serves |-> IF csrs[kubelet.csr].good THEN "good" ELSE "bad", csr |-> 0]
    /\ UNCHANGED <<csrs, approver, issued, env>>

\* The certificate expires, or the guest comes up with another address.
Expire ==
    /\ kubelet.serves # "none" /\ env.filed < MaxRequests
    /\ kubelet' = [kubelet EXCEPT !.serves = "none"]
    /\ UNCHANGED <<csrs, approver, issued, env>>

Decide ==
    /\ Fault
    /\ \E n \in DOMAIN csrs, state \in {"approved", "denied"} :
         csrs[n].state = "pending" /\ csrs' = [csrs EXCEPT ![n].state = state]
    /\ UNCHANGED <<approver, kubelet, issued>>

Collect ==
    /\ \E n \in DOMAIN csrs : csrs' = [m \in DOMAIN csrs \ {n} |-> csrs[m]]
    /\ UNCHANGED <<approver, kubelet, issued, env>>

Next ==
    \/ \E a \in Approvers : ApproveKubeletServingCSR(a)
    \/ File \/ GiveUp \/ Sign \/ Install \/ Expire \/ Decide \/ Collect

Spec == Init /\ [][Next]_vars

(***************************************************************************)
(* Properties.                                                             *)
(***************************************************************************)

\* When the approval that create and resume wait for succeeds, a certificate
\* for this Node and address was issued, whoever approved the request (the
\* maintainer, an administrator) and whatever was denied, collected or filed
\* again meanwhile: create goes on to wait for the Node and records the worker
\* (bootstrap.go:44-134).
ReadyMeansIssued ==
    \A a \in Approvers : approver[a].result = "ok" /\ approver[a].wait => issued # {}
=============================================================================
