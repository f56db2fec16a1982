------------------------------ MODULE MCNative ------------------------------
(***************************************************************************)
(* The Native part of Idleloom for TLC in one run: the controller that     *)
(* assigns workloads, the preparation of a model, the process that runs    *)
(* it, its log, the token of the API client, and the mesh identity of a    *)
(* host.  Each behaviour picks one of them and keeps its state in the      *)
(* variables they share, so the states are those of the components side    *)
(* by side.                                                                *)
(***************************************************************************)
EXTENDS NativeController

CONSTANTS Wheels, Files, Commits, Matching, Clients, Names, Followers, Requests,
          Nodes, None, Other

VARIABLES focus,  \* the component that moves
          s1, s2, s3, s4, s5, s6, s7, s8, s9  \* its state; None where it has less, or is the controller

ServerThenFinite == <<"server", "finite">>
TwoReleases == {1, 2}
EveryRole == {"batch", "server", "command"}
ShortLines == {0, 2}
TwoHosts == {"a", "b"}
ThreeAddresses == 1..3
\* Two names that hash to the same address and then diverge.
TwoWalks == [h \in TwoHosts |-> IF h = "a" THEN <<1, 2, 3>> ELSE <<1, 3, 2>>]

Preparation == INSTANCE ModelPreparation WITH
    Releases <- TwoReleases, MaxSources <- 1, MaxFaults <- 2, disk <- s1, op <- s2, env <- s3

Runtime == INSTANCE RuntimeProcess WITH
    Roles <- EveryRole, MaxRunRecords <- 1, MaxLines <- 2, MaxEdits <- 1, MaxFaults <- 2,
    job <- s1, model <- s2, agent <- s3, start <- s4, proc <- s5, batch <- s6, relay <- s7, run <- s8,
    env <- s9

Log == INSTANCE LogBridge WITH
    Lengths <- ShortLines, Maximum <- 4, RecordBytes <- 4, MaxAssignments <- 2, MaxEntries <- 5,
    MaxFaults <- 2, ring <- s1, file <- s2, agent <- s3, reader <- s4, env <- s5

Token == INSTANCE TokenRotation WITH
    refreshBefore <- 1, tokenDuration <- 3, MaxNow <- 8, MaxFaults <- 2,
    now <- s1, source <- s2, kubeconfig <- s3, mutex <- s4, request <- s5, faults <- s6

Mesh == INSTANCE MeshEnrollment WITH
    Hosts <- TwoHosts, Addresses <- ThreeAddresses, Walk <- TwoWalks, ProbeLimit <- 2, MaxFaults <- 1,
    arbitrates <- s1, claim <- s2, peer <- s3, identity <- s4, file <- s5, joined <- s6, cmd <- s7,
    faults <- s8

slots == <<s1, s2, s3, s4, s5, s6, s7, s8, s9>>

\* A component that has fewer variables leaves the others alone.
Init3 == s4 = None /\ s5 = None /\ s6 = None /\ s7 = None /\ s8 = None /\ s9 = None
Init5 == s6 = None /\ s7 = None /\ s8 = None /\ s9 = None
Init6 == s7 = None /\ s8 = None /\ s9 = None

NativeInit ==
    /\ Init
    /\ \/ focus = "controller" /\ s1 = None /\ s2 = None /\ s3 = None /\ Init3
       \/ focus = "preparation" /\ Preparation!Init /\ Init3
       \/ focus = "runtime" /\ Runtime!Init
       \/ focus = "log" /\ Log!Init /\ Init5
       \/ focus = "token" /\ Token!Init /\ Init6
       \/ focus = "mesh" /\ Mesh!Init /\ s9 = None

ControllerMoves == focus = "controller" /\ Next /\ UNCHANGED <<focus, slots>>
PreparationMoves ==
    focus = "preparation" /\ Preparation!Next /\ UNCHANGED <<focus, vars, s4, s5, s6, s7, s8, s9>>
RuntimeMoves == focus = "runtime" /\ Runtime!Next /\ UNCHANGED <<focus, vars>>
LogMoves == focus = "log" /\ Log!Next /\ UNCHANGED <<focus, vars, s6, s7, s8, s9>>
TokenMoves == focus = "token" /\ Token!Next /\ UNCHANGED <<focus, vars, s7, s8, s9>>
MeshMoves == focus = "mesh" /\ Mesh!Next /\ UNCHANGED <<focus, vars, s9>>

\* Nothing is left to log, and the readers are gone.
LogRests == focus = "log" /\ UNCHANGED <<focus, vars, slots>>

NativeNext ==
    \/ ControllerMoves \/ PreparationMoves \/ RuntimeMoves
    \/ LogMoves \/ TokenMoves \/ MeshMoves \/ LogRests

NativeSpec == NativeInit /\ [][NativeNext]_<<focus, vars, slots>>

-----------------------------------------------------------------------------
(* The properties of the six modules, where they are explained.            *)

\* Every component keeps its types.
TypesOK ==
    CASE focus = "controller"  -> TypeOK
      [] focus = "preparation" -> Preparation!TypeOK
      [] focus = "runtime"     -> Runtime!TypeOK
      [] focus = "log"         -> Log!TypeOK
      [] focus = "token"       -> Token!TypeOK
      [] focus = "mesh"        -> Mesh!TypeOK

\* What preparation returns, and what passes the fast check, verifies
\* (ModelPreparation).
PreparationSound == focus = "preparation" => Preparation!PreparationSound

\* When the handle is given up the process is dead and reaped
\* (RuntimeProcess).
StoppedMeansGone == focus = "runtime" => Runtime!StoppedMeansGone

\* A runtime loads the pinned bytes only (RuntimeProcess).
WrongModelNeverLoaded == focus = "runtime" => Runtime!WrongModelNeverLoaded

\* What a finished run reports is what it did (RuntimeProcess).
EndIsFaithful == focus = "runtime" => Runtime!EndIsFaithful

\* The log file decodes to what the agent holds (LogBridge).
LogSurvives == focus = "log" => Log!LogSurvives

\* Followers see every line once, or a gap (LogBridge).
FollowersSeeEverything == focus = "log" => Log!FollowersSeeEverything

\* A restarted process finds the token that the one before it had used
\* (TokenRotation).
RestartKeepsToken == focus = "token" => Token!RestartKeepsToken

\* A joined host owns its mesh address, and a join can be repeated
\* (MeshEnrollment).
AddressOwned == focus = "mesh" => Mesh!AddressOwned

\* A host gives up all of its mesh identity and nothing of another's
\* (MeshEnrollment).
ReleasesOwn == [][focus = "mesh" => Mesh!ForgetsNothing /\ Mesh!ClaimStep]_slots
=============================================================================
