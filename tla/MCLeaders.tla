----------------------------- MODULE MCLeaders -----------------------------
(***************************************************************************)
(* The components in which two processes act on the same objects at once,  *)
(* for TLC in one run: the fencing allocator, the native controller and    *)
(* the Pod projection with two leaders, and the approval of a worker's     *)
(* serving certificate by a command and the maintainer.  Each behaviour    *)
(* picks one of them and keeps its state in the variables they share, so   *)
(* the states are those of the components side by side.                    *)
(***************************************************************************)
EXTENDS FencingAllocator, TLC

CONSTANTS Hosts, Nowhere, Shown, NotYet, Gone, None

VARIABLES focus,  \* the component that moves
          s1, s2, s3, s4, s5, s6, s7, s8, s9  \* its state; None where it has less, or is the allocator

slots == <<s1, s2, s3, s4, s5, s6, s7, s8, s9>>

OneFinite == <<"finite">>

\* One finite workload, and a leader that has not noticed the next one yet.
Controller == INSTANCE NativeController WITH
    Controllers <- Callers, NoHost <- Nowhere, Kind <- OneFinite,
    MaxEpoch <- 2, MaxUid <- 2, MaxFaults <- 0,
    workload <- s1, mailbox <- s2, epoch <- s3, offered <- s4, stray <- s5, endpoint <- s6,
    ended <- s7, ctl <- s8, faults <- s9

Projection == INSTANCE PodProjection WITH
    Controllers <- Callers, Assignments <- Shown, MaxFaults <- 1, api <- s1, ctl <- s2, env <- s3

BothApprovers == {"command", "maintainer"}

Certificates == INSTANCE ServingCertificates WITH
    Approvers <- BothApprovers, MaxRequests <- 3, MaxFaults <- 1,
    csrs <- s1, approver <- s2, kubelet <- s3, issued <- s4, env <- s5

\* Leaders are alike, and so are hosts.
Symmetry == Permutations(Callers) \cup Permutations(Hosts)

\* A component that has fewer variables leaves the others alone.
Init5 == s6 = None /\ s7 = None /\ s8 = None /\ s9 = None
Init3 == s4 = None /\ s5 = None /\ Init5

LeadersInit ==
    /\ Init
    /\ \/ focus = "fencing" /\ s1 = None /\ s2 = None /\ s3 = None /\ Init3
       \/ focus = "controller" /\ Controller!Init
       \/ focus = "projection" /\ Projection!Init /\ Init3
       \/ focus = "certificates" /\ Certificates!Init /\ Init5

FencingMoves == focus = "fencing" /\ Next /\ UNCHANGED <<focus, slots>>
ControllerMoves == focus = "controller" /\ Controller!Next /\ UNCHANGED <<focus, vars>>
ProjectionMoves ==
    focus = "projection" /\ Projection!Next /\ UNCHANGED <<focus, vars, s4, s5, s6, s7, s8, s9>>
CertificatesMove ==
    focus = "certificates" /\ Certificates!Next /\ UNCHANGED <<focus, vars, s6, s7, s8, s9>>

LeadersNext == FencingMoves \/ ControllerMoves \/ ProjectionMoves \/ CertificatesMove

LeadersSpec == LeadersInit /\ [][LeadersNext]_<<focus, vars, slots>>

-----------------------------------------------------------------------------
(* The properties of the four modules, where they are explained.           *)

\* Every component keeps its types.
TypesOK ==
    CASE focus = "fencing"      -> TypeOK
      [] focus = "controller"   -> Controller!TypeOK
      [] focus = "projection"   -> Projection!TypeOK
      [] focus = "certificates" -> Certificates!TypeOK

\* A workload never has assignments on two hosts (NativeController).
OneHostPerWorkload == focus = "controller" => Controller!OneHostPerWorkload

\* Every mailbox follows the contract of HostMailbox, although two leaders
\* create and empty mailboxes (NativeController).
KeepsContract == [][focus = "controller" => Controller!ContractStep]_slots

\* The projection of an assignment stays as long as the assignment runs
\* (PodProjection).
ProjectionOutlivesRun == [][focus = "projection" => Projection!RemovesOnlyOver]_slots

\* The phase of a projected Pod never goes back (PodProjection).
PhaseNeverRegresses == [][focus = "projection" => Projection!PhaseAdvances]_slots

\* A certificate the command waited for is issued for this Node
\* (ServingCertificates).
ReadyMeansIssued == focus = "certificates" => Certificates!ReadyMeansIssued
=============================================================================
