-------------------------- MODULE ExecutionJournal --------------------------
(***************************************************************************)
(* What the execution store promises the agent: one record that moves      *)
(* through a life cycle, whose last acknowledged value (or a later one that *)
(* was attempted) is what the next agent finds, whatever crashed between.  *)
(* Files, locks, renames and directory syncs do not appear.                *)
(***************************************************************************)
EXTENDS Naturals

CONSTANTS Execs, Plans, Pids, Exits, None

VARIABLES
    known,      \* what the agent that has the journal open knows, or Closed
    possible    \* the records that the next Open may find

vars == <<known, possible>>

Closed == [exec |-> None, plan |-> None, pid |-> None, done |-> TRUE, exit |-> None]
Empty  == [exec |-> None, plan |-> None, pid |-> None, done |-> FALSE, exit |-> None]

\* One step of a record's life: planned, process recorded, completed, cleared.
Successor(r, new) ==
    \/ new = Empty
    \/ /\ r = Empty
       /\ new \in [exec : Execs, plan : Plans, pid : {None}, done : {FALSE}, exit : {None}]
    \/ /\ r # Empty /\ r.pid = None
       /\ \E p \in Pids : new = [r EXCEPT !.pid = p]
    \/ /\ r # Empty /\ r.pid # None /\ ~r.done
       /\ \E x \in Exits : new = [r EXCEPT !.done = TRUE, !.exit = x]

Init ==
    /\ known = Closed
    /\ possible = {Empty}

Open ==
    /\ known = Closed
    /\ known' \in possible
    /\ UNCHANGED possible

\* A successor of what the agent knows may reach the disk.
Attempt ==
    /\ known # Closed
    /\ UNCHANGED known
    /\ \E new \in possible' : /\ Successor(known, new)
                              /\ possible' \subseteq possible \cup {new}

\* The operation returns without error: its record is all that can be found.
Acknowledge ==
    /\ known # Closed
    /\ Successor(known, known')
    /\ known' \in possible
    /\ possible' = {known'}

\* The operating system decides which of the attempts lasted.
Settle ==
    /\ UNCHANGED known
    /\ possible' \subseteq possible
    /\ possible' # {}

\* The agent closes the journal or dies; a power failure settles the disk too.
Crash ==
    /\ known' = Closed
    /\ possible' \subseteq possible
    /\ possible' # {}

Next == Open \/ Attempt \/ Acknowledge \/ Settle \/ Crash

Spec == Init /\ [][Next]_vars
=============================================================================
