--------------------------- MODULE FencingEpochs ---------------------------
(***************************************************************************)
(* What the fencing epochs of one host promise, with no Lease, no          *)
(* resource versions and no retries: while a host identity lives, every    *)
(* epoch handed out is larger than all the epochs handed out before it.    *)
(* FencingAllocator implements this specification.                         *)
(***************************************************************************)
EXTENDS Naturals, Sequences

CONSTANT MaxEpoch      \* the largest epoch that can be handed out

VARIABLES
    host,              \* the UID of the enrolled host (a growing number), or NoHost
    last,              \* the last epoch consumed on behalf of that host
    granted            \* the epochs handed out so far, in the order of their writes

vars == <<host, last, granted>>

NoHost == 0

Init ==
    /\ host = NoHost
    /\ last = 0
    /\ granted = <<>>

\* A host identity appears that no epoch has been handed out for.
Enroll ==
    /\ host' \in Nat \ {NoHost}
    /\ \A i \in DOMAIN granted : granted[i].host < host'
    /\ last' = 0
    /\ UNCHANGED granted

Withdraw ==
    /\ host' = NoHost
    /\ last' = 0
    /\ UNCHANGED granted

\* The next epoch is consumed and handed to a caller.
Allocate ==
    /\ host # NoHost
    /\ last < MaxEpoch
    /\ last' = last + 1
    /\ granted' = Append(granted, [host |-> host, epoch |-> last + 1])
    /\ UNCHANGED host

\* The next epoch is consumed, but the caller never learns of it.
Burn ==
    /\ host # NoHost
    /\ last < MaxEpoch
    /\ last' = last + 1
    /\ UNCHANGED <<host, granted>>

Next == Enroll \/ Withdraw \/ Allocate \/ Burn

Spec == Init /\ [][Next]_vars
=============================================================================
