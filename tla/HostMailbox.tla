----------------------------- MODULE HostMailbox -----------------------------
(***************************************************************************)
(* The contract between the controller and the agent of one host: the life *)
(* of the assignment object "active" in the host's namespace, the only     *)
(* thing the two share.  The controller creates it, asks for a stop and    *)
(* deletes it; the agent writes its status.  NativeController implements   *)
(* this specification with the agent left open, NativeAgent with the       *)
(* controller left open.                                                   *)
(***************************************************************************)
CONSTANTS
    Ids,        \* names of the assignments offered in the mailbox
    FiniteIds,  \* those whose workload ends by itself
    Phases,     \* the phases an agent may report, "Stopped" and "none" included
    Absent      \* the empty mailbox

VARIABLES
    box,        \* the mailbox: id, stop requested, phase, stop acknowledged
    offered,    \* the ids offered so far
    ended       \* whether the assignment in the mailbox has been reported finished

boxVars == <<box, offered, ended>>

MailboxInit == box = Absent /\ offered = {} /\ ended = FALSE

\* An assignment is offered in an empty mailbox, each one once.
Offer(id) ==
    /\ box = Absent
    /\ id \notin offered
    /\ box' = [id |-> id, stop |-> FALSE, phase |-> "none", ack |-> FALSE]
    /\ offered' = offered \cup {id}
    /\ ended' = FALSE

AskStop ==
    /\ box # Absent /\ ~box.stop
    /\ box' = [box EXCEPT !.stop = TRUE]
    /\ UNCHANGED <<offered, ended>>

\* Before a stop is requested the agent reports any phase but Stopped, and
\* acknowledges nothing.
Report(phase) ==
    /\ box # Absent /\ ~box.stop
    /\ phase \in Phases \ {"none", "Stopped"}
    /\ box' = [box EXCEPT !.phase = phase]
    /\ ended' = (ended \/ (phase \in {"Succeeded", "Failed"} /\ box.id \in FiniteIds))
    /\ UNCHANGED offered

\* After it, the agent says one thing: that the execution has stopped.
Acknowledge ==
    /\ box # Absent /\ box.stop
    /\ box' = [box EXCEPT !.phase = "Stopped", !.ack = TRUE]
    /\ UNCHANGED <<offered, ended>>

\* The mailbox is emptied after an acknowledged stop, or to reclaim it from
\* a run that was reported finished.
Withdraw ==
    /\ box # Absent
    /\ IF box.stop THEN box.ack ELSE ended
    /\ box' = Absent
    /\ ended' = FALSE
    /\ UNCHANGED offered

MailboxNext ==
    \/ \E id \in Ids : Offer(id)
    \/ \E phase \in Phases : Report(phase)
    \/ AskStop \/ Acknowledge \/ Withdraw

MailboxSpec == MailboxInit /\ [][MailboxNext]_boxVars
=============================================================================
