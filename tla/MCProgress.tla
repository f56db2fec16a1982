----------------------------- MODULE MCProgress -----------------------------
(***************************************************************************)
(* The liveness of the controller and of a runtime process for TLC in one  *)
(* run.  Each behaviour picks one of the two; the other keeps its first    *)
(* state, so the states are those of the two side by side.  Each property  *)
(* assumes the fairness of its own component.                              *)
(***************************************************************************)
EXTENDS NativeController

CONSTANTS Clients, Names, None

VARIABLES focus,  \* the component that moves
          rtJob, rtModel, rtAgent, rtStart, rtProc, rtBatch, rtRelay, rtRun, rtEnv

rtVars == <<rtJob, rtModel, rtAgent, rtStart, rtProc, rtBatch, rtRelay, rtRun, rtEnv>>

Runtime == INSTANCE RuntimeProcess WITH
    Roles <- {"batch", "command"}, MaxRunRecords <- 1, MaxLines <- 2, MaxEdits <- 0, MaxFaults <- 1,
    job <- rtJob, model <- rtModel, agent <- rtAgent, start <- rtStart, proc <- rtProc,
    batch <- rtBatch, relay <- rtRelay, run <- rtRun, env <- rtEnv

ServerThenFinite == <<"server", "finite">>

ProgressInit ==
    /\ focus \in {"controller", "runtime"}
    /\ Init /\ Runtime!Init
    /\ focus # "runtime" => rtJob.kind = "command" /\ ~rtJob.inherits

ControllerMoves == focus = "controller" /\ Next /\ UNCHANGED <<focus, rtVars>>
RuntimeMoves    == focus = "runtime" /\ Runtime!Next /\ UNCHANGED <<focus, vars>>

ProgressSpec == ProgressInit /\ [][ControllerMoves \/ RuntimeMoves]_<<focus, vars, rtVars>>

\* The controller's cycle and the hosts keep going: a deleted workload that had
\* a reference or no intent yet goes away.
WorkloadDeleted == Fairness => ReferencedDeletionCompletes

\* The goroutines of a runtime process keep going: a stop the agent has begun
\* returns and a cancelled start comes to an end.
RuntimeStops == Runtime!Fairness => Runtime!StopReturns
=============================================================================
