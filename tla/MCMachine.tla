----------------------------- MODULE MCMachine -----------------------------
(***************************************************************************)
(* What Idleloom keeps on a Mac for TLC in one run: the execution journal, *)
(* a worker VM, the DRA driver in it, and the mesh link in two instances   *)
(* (two link processes and a peer; one process and two peers).  Each       *)
(* behaviour picks one of them and keeps its state in the variables they   *)
(* share, so the states are those of the components side by side.          *)
(***************************************************************************)
EXTENDS ExecutionStore, TLC

CONSTANTS Twins, Twins2,  \* two sets of interchangeable values
          OneLink, OneName, Absent, Other

VARIABLES focus,  \* the component that moves
          s1, s2, s3, s4, s5, s6,  \* its state; None where it has less, or is the journal
          s7, s8, s9, s10

slots == <<s1, s2, s3, s4, s5, s6>>
more == <<s7, s8, s9, s10>>

Symmetry == Permutations(Twins) \cup Permutations(Twins2)

Worker == INSTANCE WorkerLifecycle WITH
    Subnets <- Twins, Children <- Twins2, MaxCreates <- 2, MaxFaults <- 2,
    env <- s1, cmd <- s2, file <- s3, host <- s4, k8s <- s5, maint <- s6

Link == INSTANCE LeafLink WITH
    Links <- Twins, Names <- OneName, Keys <- Twins2, maximumAge <- 0, MaxStarts <- 2, MaxEdits <- 1,
    MaxFaults <- 1, link <- s1, lock <- s2, file <- s3, cluster <- s4, sinceUp <- s5, env <- s6

Peers == INSTANCE LeafLink WITH
    Links <- OneLink, Names <- Twins, Keys <- Twins2, maximumAge <- 0, MaxStarts <- 2, MaxEdits <- 1,
    MaxFaults <- 1, link <- s1, lock <- s2, file <- s3, cluster <- s4, sinceUp <- s5, env <- s6

Driver == INSTANCE DeviceClaims WITH
    Claims <- Twins, Devices <- Twins2,
    up <- s1, device <- s2, call <- s3, mem <- s4, op <- s5, visible <- s6, synced <- s7,
    held <- s8, freed <- s9, trust <- s10

NoMore == s7 = None /\ s8 = None /\ s9 = None /\ s10 = None

MachineInit ==
    /\ Init
    /\ \/ /\ focus = "journal" /\ NoMore
          /\ s1 = None /\ s2 = None /\ s3 = None /\ s4 = None /\ s5 = None /\ s6 = None
       \/ focus = "worker" /\ Worker!Init /\ NoMore
       \/ focus = "link" /\ Link!Init /\ NoMore
       \/ focus = "peers" /\ Peers!Init /\ NoMore
       \/ focus = "driver" /\ Driver!Init

JournalMoves == focus = "journal" /\ Next /\ UNCHANGED <<focus, slots, more>>
WorkerMoves == focus = "worker" /\ Worker!Next /\ UNCHANGED <<focus, vars, more>>
LinkMoves == focus = "link" /\ Link!Next /\ UNCHANGED <<focus, vars, more>>
PeersMove == focus = "peers" /\ Peers!Next /\ UNCHANGED <<focus, vars, more>>
DriverMoves == focus = "driver" /\ Driver!Next /\ UNCHANGED <<focus, vars>>

\* The user gives no further command.
WorkerRests == focus = "worker" /\ UNCHANGED <<focus, vars, slots, more>>

MachineNext == JournalMoves \/ WorkerMoves \/ LinkMoves \/ PeersMove \/ DriverMoves \/ WorkerRests

MachineSpec == MachineInit /\ [][MachineNext]_<<focus, vars, slots, more>>

-----------------------------------------------------------------------------
(* The properties of the four modules, where they are explained.           *)

\* Every component keeps its types.
TypesOK ==
    CASE focus = "journal" -> TypeOK
      [] focus = "worker"  -> Worker!TypeOK
      [] focus = "link"    -> Link!TypeOK
      [] focus = "peers"   -> Peers!TypeOK
      [] focus = "driver"  -> Driver!TypeOK

\* Nothing of a worker is out of reach of `delete worker` (WorkerLifecycle).
WorkerNothingForgotten == focus = "worker" => Worker!NothingForgotten

\* A worker is halted only when it runs no Pod (WorkerLifecycle).
DrainedBeforeHalt == focus = "worker" => Worker!DrainedBeforeHalt

\* `delete worker` ends the maintainer before the state and the peer before
\* the address (WorkerLifecycle).
DeletesInOrder == [][focus = "worker" => Worker!DeleteStep]_slots

\* What the link reports and routes is what it has (LeafLink).
LinkIsAsTold ==
    /\ focus = "link" => Link!LinkIsAsTold
    /\ focus = "peers" => Peers!LinkIsAsTold

\* A device is prepared for one claim at a time (DeviceClaims).
DeviceExclusive == focus = "driver" => Driver!DeviceExclusive
=============================================================================
