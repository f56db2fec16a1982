------------------------------- MODULE MCHost -------------------------------
(***************************************************************************)
(* A Native host for TLC in one run: the agent that executes assignments,  *)
(* and the commands that install and remove it with the other services.    *)
(* Each behaviour picks one of the two and leaves the other alone, so the  *)
(* states are those of the two side by side.                               *)
(***************************************************************************)
EXTENDS MCNativeAgent

CONSTANTS None, Other

VARIABLES focus,              \* the component that moves
          s1, s2, s3, s4, s5  \* the state of the installation; None when the agent moves

slots == <<s1, s2, s3, s4, s5>>

Services == INSTANCE HostLifecycle WITH
    MaxJoins <- 2, MaxWorkloads <- 1, MaxFaults <- 1,
    cmd <- s1, dir <- s2, mac <- s3, k8s <- s4, env <- s5

HostInit ==
    /\ Init
    /\ \/ focus = "agent" /\ s1 = None /\ s2 = None /\ s3 = None /\ s4 = None /\ s5 = None
       \/ focus = "services" /\ Services!Init

AgentMoves == focus = "agent" /\ Next /\ UNCHANGED <<focus, slots>>
ServicesMove == focus = "services" /\ Services!Next /\ UNCHANGED <<focus, vars>>

\* The user gives no further command.
ServicesRest == focus = "services" /\ UNCHANGED <<focus, vars, slots>>

HostNext == AgentMoves \/ ServicesMove \/ ServicesRest

HostSpec == HostInit /\ [][HostNext]_<<focus, vars, slots>>

-----------------------------------------------------------------------------
(* The properties of the two modules, where they are explained.            *)

\* Both components keep their types.
TypesOK == IF focus = "agent" THEN TypeOK ELSE Services!TypeOK

\* Every launchd service is named in the receipt (HostLifecycle).
NoUnrecordedService == focus = "services" => Services!NoUnrecordedService
=============================================================================
