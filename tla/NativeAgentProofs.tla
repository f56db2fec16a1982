-------------------------- MODULE NativeAgentProofs --------------------------
(***************************************************************************)
(* The safety of the Native agent for any assignments and any number of    *)
(* runs and faults: at most one accountable process runs, an acknowledged  *)
(* stop means that it is gone, a reported success is not run again, and    *)
(* the agent keeps the mailbox contract.                                   *)
(***************************************************************************)
EXTENDS NativeAgentInvariant

-----------------------------------------------------------------------------
(* A reported success is remembered.                                       *)

\* That a run has ended well is never forgotten.
LEMMA EndedWellGrows == ASSUME IInv, StepFacts PROVE EndedWell \subseteq EndedWell'
<1>1. OutcomeInv /\ PassTyped
  BY IInv DEF IInv
<1>. SUFFICES /\ good \cup interrupted \subseteq good' \cup interrupted'
              /\ \A r \in good \cup interrupted : owner'[r] = owner[r]
  BY DEF EndedWell
<1>2. CASE BeginFacts
  <2>1. \A r \in good \cup interrupted : r \in Runs /\ r # runs + 1
    BY <1>1, Constants DEF OutcomeInv, PassTyped, Spawned, Runs
  <2>. QED BY <1>2, <2>1 DEF BeginFacts
<1>3. CASE OutsideFacts \/ DownFacts \/ HaltFacts
  BY <1>3 DEF OutsideFacts, DownFacts, HaltFacts, Ending, tally
<1>4. CASE UNCHANGED <<owner, good, interrupted>>
  BY <1>4
<1>. QED BY StepFacts, <1>2, <1>3, <1>4, Zenon
         DEF StepFacts, MailFacts, QuietFacts, GetFacts, EnsureFacts, TerminateFacts, ClearFacts,
             DecideFacts, RefreshFacts, PublishFacts, CompleteFacts, StartFacts, ReadyFacts,
             RecordProcessFacts, RecoverFacts, tally, ran

\* A reported success stays in the journal for as long as the mailbox could make a
\* pass start the assignment again.
LEMMA SuccessStep == ASSUME IInv, StepFacts PROVE SuccessInv'
<1>1. BoxTyped /\ SetsTyped /\ PassTyped /\ BoxInv /\ LoopInv /\ RecordInv /\ ProcessInv /\
   OutcomeInv /\ SuccessInv
  BY IInv DEF IInv
<1>2. EndedWell \subseteq EndedWell'
  BY IInv, StepFacts, EndedWellGrows
<1>3. 0 \notin published /\ (jmem.done => jmem.n # 0)
  BY <1>1, Constants DEF SetsTyped, RecordInv, NoRecord
<1>. USE <1>1, <1>2, <1>3
<1>4. CASE MailFacts
  BY <1>4 DEF MailFacts, RecordInv, SuccessInv, Emptying, Reporting, DoneFor, Absent, grip,
     journal
<1>5. CASE OutsideFacts \/ DownFacts
  BY <1>5 DEF OutsideFacts, DownFacts, SuccessInv, Emptying, Reporting, DoneFor, mail, journal,
     Ending, Absent
<1>6. CASE QuietFacts \/ HaltFacts \/ TerminateFacts
  BY <1>6 DEF QuietFacts, HaltFacts, TerminateFacts, SuccessInv, Emptying, Reporting, DoneFor,
     Absent, Step, EndPass, EnsureFails, mail, grip, journal, Ending, AfterHalt, AfterHaltFails
<1>7. CASE GetFacts
  BY <1>7 DEF GetFacts, SuccessInv, Emptying, Reporting, DoneFor, Absent, Step, EndPass, mail,
     grip, journal
<1>8. CASE EnsureFacts
  <2>1. EndedWell' = EndedWell
    BY <1>8 DEF EnsureFacts, EndedWell, tally, ran
  <2>2. ~snap.stop
    BY <1>8 DEF EnsureFacts, LoopInv, Starting
  <2>3. jmem.done /\ jmem.ok => jmem.n \in EndedWell
    BY DEF RecordInv, OutcomeInv, EndedWell, NoRecord
  <2>4. /\ Reporting' => jmem.ok /\ jmem.done /\ jmem.n = snap.n /\ Finite(snap.n)
        /\ ~Emptying' /\ snap' = snap
    BY <1>8 DEF EnsureFacts, Step, EnsureFails, Reporting, Emptying
  <2>. QED BY <1>8, <2>1, <2>2, <2>3, <2>4
           DEF EnsureFacts, mail, journal, grip, SuccessInv, DoneFor
<1>9. CASE ClearFacts
  <2>1. EndedWell' = EndedWell /\ handle = 0
    BY <1>9 DEF ClearFacts, EndedWell, LoopInv, ProcessInv, tally, ran
  <2>2. /\ snap' = snap \/ (snap'.n = 0 /\ snap'.phase = "none")
        /\ ~Reporting' /\ ~Emptying'
    BY <1>9 DEF ClearFacts, Step, EnsureFails, EndPass, Reporting, Emptying, Absent
  <2>3. CASE jmem' = jmem /\ jdisk' = jdisk
    BY <1>9, <2>1, <2>2, <2>3 DEF ClearFacts, mail, grip, SuccessInv, DoneFor
  <2>4. CASE jmem' \in {jmem, NoRecord} /\ jdisk' = NoRecord
    <3>1. jmem.done => goal \in {"absent", "fence", "stop"}
      BY <1>9 DEF ClearFacts, LoopInv, RecordInv, Committed, NoRecord
    <3>2. mailbox.n \in published => mailbox.stop
      BY <1>9, <3>1 DEF ClearFacts, LoopInv, BoxInv, RecordInv, SuccessInv, Committed,
         Fencing, Emptying, DoneFor, NoRecord
    <3>3. snap.n \in published => snap.stop
      BY <1>9, <3>1 DEF ClearFacts, LoopInv, BoxInv, RecordInv, SuccessInv,
         Committed, Fencing, Emptying, DoneFor, NoRecord
    <3>4. /\ jmem.done /\ mailbox.n = jmem.n => mailbox.stop
          /\ jmem.done /\ snap.n = jmem.n => snap.stop
      BY <1>9, <3>1 DEF ClearFacts, LoopInv, BoxInv, RecordInv, Committed, Fencing,
         Emptying, NoRecord
    <3>. QED BY <1>9, <2>1, <2>2, <2>4, <3>2, <3>3, <3>4
             DEF ClearFacts, mail, grip, SuccessInv, DoneFor, NoRecord
  <2>. QED BY <1>9, <2>3, <2>4 DEF ClearFacts
<1>10. CASE DecideFacts
  <2>1. EndedWell' = EndedWell
    BY <1>10 DEF DecideFacts, EndedWell, tally, ran
  <2>2. /\ mailbox'.n = mailbox.n /\ mailbox'.stop = mailbox.stop
        /\ mailbox'.phase = "Succeeded" => mailbox.phase = "Succeeded"
    BY <1>10 DEF DecideFacts, Announces
  <2>3. Reporting' => Finite(snap.n) /\ snap.n \in EndedWell /\ DoneFor(snap.n) /\ snap' = snap
    BY <1>10 DEF DecideFacts, Step, EndPass, completed, Reporting, SuccessInv
  <2>4. (snap' = snap \/ (snap'.n = 0 /\ snap'.phase = "none")) /\ ~Emptying'
    BY <1>10 DEF DecideFacts, Step, EndPass, Emptying, Absent
  <2>. QED BY <1>10, <2>1, <2>2, <2>3, <2>4
           DEF DecideFacts, journal, grip, SuccessInv, DoneFor
<1>11. CASE RefreshFacts
  BY <1>11 DEF RefreshFacts, SuccessInv, Emptying, Reporting, DoneFor, grip, journal, Announces
<1>12. CASE PublishFacts
  <2>1. EndedWell' = EndedWell
    BY <1>12 DEF PublishFacts, EndedWell, tally, ran
  <2>2. /\ snap' = snap \/ (snap'.n = 0 /\ snap'.phase = "none")
        /\ ~Reporting' /\ ~Emptying'
    BY <1>12 DEF PublishFacts, Step, EndPass, Reporting, Emptying, Absent
  <2>3. CASE UNCHANGED mail
    BY <1>12, <2>1, <2>2, <2>3 DEF PublishFacts, mail, journal, grip, SuccessInv, DoneFor
  <2>4. CASE /\ fresh /\ snap' = snap
             /\ mailbox'.n = mailbox.n /\ mailbox'.stop = mailbox.stop
             /\ mailbox'.phase = out
             /\ published' = IF out = "Succeeded" THEN published \cup {snap.n} ELSE published
    <3>1. mailbox.n = snap.n /\ mailbox.stop = snap.stop /\ snap.n \in used
      BY <2>4 DEF BoxInv
    <3>2. CASE out = "Succeeded"
      <4>1. Finite(snap.n) /\ snap.n \in EndedWell /\ DoneFor(snap.n)
        BY <1>12, <3>2 DEF PublishFacts, SuccessInv, Reporting
      <4>. QED BY <1>12, <2>1, <2>2, <2>4, <3>1, <3>2, <4>1
               DEF PublishFacts, journal, grip, SuccessInv, DoneFor
    <3>3. CASE out # "Succeeded"
      BY <1>12, <2>1, <2>2, <2>4, <3>1, <3>3 DEF PublishFacts, journal, grip, SuccessInv, DoneFor
    <3>. QED BY <3>2, <3>3
  <2>. QED BY <1>12, <2>3, <2>4 DEF PublishFacts, Step
<1>13. CASE CompleteFacts
  <2>1. EndedWell' = EndedWell
    BY <1>13 DEF CompleteFacts, EndedWell, tally, ran
  <2>2. ~snap.stop /\ handle = jmem.run
    BY <1>13 DEF CompleteFacts, LoopInv, ProcessInv, Starting
  <2>3. exit = "ok" => jmem.n \in EndedWell
    BY <1>13, <2>2 DEF CompleteFacts, RecordInv, ProcessInv, OutcomeInv, EndedWell
  <2>. QED BY <1>13, <2>1, <2>2, <2>3
           DEF CompleteFacts, mail, grip, Step, EnsureFails, SuccessInv, Emptying, Reporting, DoneFor
<1>14. CASE BeginFacts \/ StartFacts \/ RecoverFacts
  BY <1>14 DEF BeginFacts, StartFacts, RecoverFacts, SuccessInv, Emptying, Reporting, DoneFor,
     NoRecord, Step, EnsureFails, mail, grip, journal
<1>15. CASE ReadyFacts \/ RecordProcessFacts
  BY <1>15 DEF ReadyFacts, RecordProcessFacts, RecordInv, SuccessInv, Emptying, Reporting,
     DoneFor, Step, mail, journal
<1>. QED BY StepFacts, <1>4, <1>5, <1>6, <1>7, <1>8, <1>9, <1>10, <1>11, <1>12, <1>13, <1>14,
   <1>15 DEF StepFacts

-----------------------------------------------------------------------------
(* The whole invariant.                                                    *)

\* The typed parts of the invariant are the type invariant of NativeAgent.
LEMMA TypedParts ==
    TypeOK <=> /\ BoxTyped /\ RecordsTyped /\ ProcessesTyped
               /\ SetsTyped /\ PassTyped /\ OthersTyped /\ FlagsTyped
BY DEF TypeOK, BoxTyped, RecordsTyped, ProcessesTyped, SetsTyped, PassTyped, OthersTyped,
   FlagsTyped

\* The agent starts in the invariant: an empty mailbox, an empty journal, no process.
LEMMA InitInv == Init => IInv
<1>. SUFFICES ASSUME Init PROVE IInv
  OBVIOUS
<1>1. BoxTyped /\ RecordsTyped
  BY MailboxShapes, RecordShapes DEF Init, BoxTyped, RecordsTyped
<1>2. ProcessesTyped /\ SetsTyped /\ PassTyped /\ OthersTyped
  BY Constants DEF Init, ProcessesTyped, SetsTyped, PassTyped, OthersTyped, Runs, Phases
<1>3. FlagsTyped
  BY DEF Init, FlagsTyped
<1>4. BoxInv /\ LoopInv
  BY DEF Init, BoxInv, LoopInv, Committed, Starting, Fencing, Absent
<1>5. Live = {} /\ Spawned = {}
  BY DEF Init, Live, Spawned
<1>6. RecordInv
  BY DEF Init, RecordInv, Committed, Fencing, Emptying, NoRecord
<1>7. ProcessInv /\ OutcomeInv
  BY <1>5 DEF Init, ProcessInv, OutcomeInv, Accountable, NoRecord
<1>8. SuccessInv
  BY DEF Init, SuccessInv, Reporting, Emptying, Absent, NoRecord
<1>9. OneRunPerHost /\ AckMeansStopped
  BY <1>5 DEF OneRunPerHost, AckMeansStopped
<1>. QED BY <1>1, <1>2, <1>3, <1>4, <1>6, <1>7, <1>8, <1>9 DEF IInv

\* Every step preserves the invariant.
LEMMA StepInv == IInv /\ [Next]_vars => IInv'
<1>1. ASSUME IInv, Next PROVE IInv'
  <2>1. StepFacts
    BY <1>1, Steps
  <2>2. BoxTyped' /\ RecordsTyped' /\ ProcessesTyped' /\ SetsTyped'
    BY <1>1, <2>1, BoxTypedStep, RecordsTypedStep, ProcessesTypedStep, SetsTypedStep
  <2>3. PassTyped' /\ OthersTyped' /\ FlagsTyped'
    BY <1>1, <2>1, PassTypedStep, OthersTypedStep, FlagsTypedStep
  <2>4. BoxInv' /\ LoopInv' /\ RecordInv' /\ ProcessInv'
    BY <1>1, <2>1, BoxStep, LoopStep, RecordStep, ProcessStep
  <2>5. OutcomeInv' /\ SuccessInv' /\ OneRunPerHost' /\ AckMeansStopped'
    BY <1>1, <2>1, OutcomeStep, SuccessStep, OneRunStep, AckStep
  <2>. QED BY <2>2, <2>3, <2>4, <2>5 DEF IInv
<1>2. ASSUME IInv, UNCHANGED vars PROVE IInv'
  <2>1. /\ BoxTyped' /\ RecordsTyped' /\ ProcessesTyped' /\ SetsTyped'
        /\ PassTyped' /\ OthersTyped' /\ FlagsTyped'
    BY <1>2 DEF IInv, vars, BoxTyped, RecordsTyped, ProcessesTyped, SetsTyped, PassTyped,
       OthersTyped, FlagsTyped
  <2>2. BoxInv' /\ RecordInv'
    BY <1>2 DEF IInv, vars, BoxInv, RecordInv, Committed, Fencing, Emptying
  <2>3. LoopInv'
    BY <1>2 DEF IInv, vars, LoopInv, Committed, Starting, Fencing
  <2>4. ProcessInv' /\ OutcomeInv'
    BY <1>2 DEF IInv, vars, ProcessInv, OutcomeInv, Accountable, Live, Spawned
  <2>5. SuccessInv'
    BY <1>2 DEF IInv, vars, SuccessInv, Reporting, Emptying, DoneFor, EndedWell
  <2>6. OneRunPerHost' /\ AckMeansStopped'
    BY <1>2 DEF IInv, vars, OneRunPerHost, AckMeansStopped, Live
  <2>. QED BY <2>1, <2>2, <2>3, <2>4, <2>5, <2>6 DEF IInv
<1>. QED BY <1>1, <1>2

\* The invariant holds in every behaviour of the agent and its host.
THEOREM AgentInvariant == Spec => []IInv
<1>. QED BY InitInv, StepInv, PTL DEF Spec

\* Type correctness.
THEOREM AgentTypes == Spec => []TypeOK
<1>1. IInv => TypeOK
  BY TypedParts DEF IInv
<1>. QED BY <1>1, AgentInvariant, PTL

\* For any sequence of assignments and any number of runs, crashes, failed
\* calls and failed kills: at most one process that the agent can account for
\* runs, and once a status was reported it is one of the reported assignment.
THEOREM AgentOneRunPerHost == Spec => []OneRunPerHost
<1>1. IInv => OneRunPerHost
  BY DEF IInv
<1>. QED BY <1>1, AgentInvariant, PTL

\* When the agent has acknowledged a stop, no process of that assignment is
\* left that it can account for.
THEOREM AgentAckMeansStopped == Spec => []AckMeansStopped
<1>1. IInv => AckMeansStopped
  BY DEF IInv
<1>. QED BY <1>1, AgentInvariant, PTL

\* Only the spawn of the journaled run, whose assignment has not been reported
\* Succeeded, makes a process.
LEMMA SpawnsUnreported ==
    ASSUME IInv, StepFacts, NEW r \in Runs, proc[r] = "none", proc'[r] # "none"
    PROVE  owner[r] \notin published
<1>1. r \notin Spawned /\ r \in Spawned'
  BY DEF Spawned
<1>2. pc = "spawn" /\ r = jmem.run
  BY StepFacts, <1>1
  DEF StepFacts, MailFacts, OutsideFacts, DownFacts, QuietFacts, GetFacts, EnsureFacts,
      HaltFacts, TerminateFacts, ClearFacts, DecideFacts, RefreshFacts, PublishFacts,
      CompleteFacts, BeginFacts, StartFacts, ReadyFacts, RecordProcessFacts, RecoverFacts,
      Ending, ran
<1>3. owner[r] = snap.n /\ ~snap.stop /\ ~jmem.done
  BY IInv, <1>2 DEF IInv, RecordInv, LoopInv, Committed, Starting
<1>. QED BY IInv, <1>3 DEF IInv, SuccessInv, DoneFor

\* Succeeded is reported only for an assignment one of whose runs ended well
\* or was cancelled, and a run reported Succeeded is not started again, across
\* any number of crashes and whatever is written to the status in between.
THEOREM AgentSucceededOnce == Spec => SucceededOnce
<1>1. ASSUME IInv, IInv', [Next]_vars PROVE [SucceedsOnce]_vars
  <2>1. \A n \in published' : \E r \in good' \cup interrupted' : owner'[r] = n
    BY <1>1 DEF IInv, SuccessInv, EndedWell
  <2>2. CASE Next
    BY <1>1, <2>1, <2>2, Steps, SpawnsUnreported DEF SucceedsOnce
  <2>3. CASE UNCHANGED vars
    BY <2>3
  <2>. QED BY <1>1, <2>2, <2>3
<1>. QED BY <1>1, AgentInvariant, PTL DEF Spec, SucceededOnce

-----------------------------------------------------------------------------
(* The mailbox contract.                                                   *)

\* What HostMailbox sees of the mailbox.
Box == IF mailbox = Absent THEN Absent
       ELSE [id |-> mailbox.n, stop |-> mailbox.stop, phase |-> mailbox.phase,
             ack |-> mailbox.ack]

\* An object of the contract is not the empty mailbox.
LEMMA BoxShape ==
    ASSUME NEW a, NEW b, NEW c, NEW d
    PROVE  [id |-> a, stop |-> b, phase |-> c, ack |-> d] # Absent
<1>. DEFINE box == [id |-> a, stop |-> b, phase |-> c, ack |-> d]
<1>1. "id" \in DOMAIN box /\ "id" \notin DOMAIN Absent
  BY DEF Absent
<1>. QED BY <1>1

\* A step that writes a status to the mailbox is a report before the stop is
\* requested and the acknowledgement after it.
LEMMA StatusReported ==
    ASSUME IInv, mailbox.n # 0, NEW phase \in Phases \ {"none", "Stopped"}, ~mailbox.stop,
           mailbox' = [mailbox EXCEPT !.phase = phase, !.ack = FALSE],
           used' = used,
           ended' = (ended \/ (phase \in {"Succeeded", "Failed"} /\ Finite(mailbox.n)))
    PROVE  Contract!Report(phase)
<1>1. mailbox \in Mailbox /\ mailbox.n \in Assignments /\ mailbox.ack = FALSE
  BY IInv DEF IInv, BoxTyped, Mailbox, BoxInv
<1>2. /\ mailbox'.n = mailbox.n /\ mailbox'.stop = mailbox.stop /\ mailbox'.phase = phase
      /\ mailbox'.ack = FALSE
  BY <1>1 DEF Mailbox
<1>3. mailbox # Absent /\ mailbox' # Absent
  <2>1. Absent.n = 0
    BY DEF Absent
  <2>. QED BY <1>2, <2>1
<1>4. Box = [id |-> mailbox.n, stop |-> mailbox.stop, phase |-> mailbox.phase, ack |-> FALSE]
  BY <1>1, <1>3 DEF Box
<1>5. Box' = [id |-> mailbox.n, stop |-> mailbox.stop, phase |-> phase, ack |-> FALSE]
  BY <1>2, <1>3 DEF Box
<1>6. Box # Absent
  BY <1>4, BoxShape
<1>7. Box' = [Box EXCEPT !.phase = phase]
  <2>1. PICK n, s, p, a : n = mailbox.n /\ s = mailbox.stop /\ p = mailbox.phase /\ a = FALSE
    OBVIOUS
  <2>2. /\ Box = [id |-> n, stop |-> s, phase |-> p, ack |-> a]
        /\ Box' = [id |-> n, stop |-> s, phase |-> phase, ack |-> a]
    BY <1>4, <1>5, <2>1, Zenon
  <2>. QED BY <2>2
<1>8. Box.id = mailbox.n /\ Box.stop = mailbox.stop
  BY <1>4
<1>. QED BY <1>1, <1>6, <1>7, <1>8 DEF Contract!Report, Box

\* What the contract sees of a mailbox that is not empty.
LEMMA BoxShown ==
    ASSUME mailbox.n # 0
    PROVE  /\ mailbox # Absent /\ Box # Absent
           /\ Box.id = mailbox.n /\ Box.stop = mailbox.stop
           /\ Box.phase = mailbox.phase /\ Box.ack = mailbox.ack
           /\ Box = [id |-> mailbox.n, stop |-> mailbox.stop, phase |-> mailbox.phase,
                     ack |-> mailbox.ack]
<1>1. mailbox # Absent
  BY DEF Absent
<1>. QED BY <1>1, BoxShape DEF Box

\* The controller's request for a stop is one of the contract.
LEMMA StopAsked == ASSUME IInv, RequestStop PROVE Contract!AskStop
<1>1. mailbox.n # 0 /\ ~mailbox.stop /\ mailbox \in Mailbox
  BY IInv, RequestStop DEF RequestStop, IInv, BoxInv, BoxTyped
<1>2. /\ mailbox'.n = mailbox.n /\ mailbox'.phase = mailbox.phase
      /\ mailbox'.ack = mailbox.ack /\ mailbox'.stop = TRUE
  BY <1>1, RequestStop DEF RequestStop, Mailbox
<1>3. mailbox' # Absent
  <2>1. Absent.n = 0
    BY DEF Absent
  <2>. QED BY <1>1, <1>2, <2>1
<1>4. Box' = [Box EXCEPT !.stop = TRUE]
  <2>1. PICK n, s, t, p, a : /\ n = mailbox.n /\ s = mailbox.stop /\ t = TRUE
                             /\ p = mailbox.phase /\ a = mailbox.ack
    OBVIOUS
  <2>2. Box = [id |-> n, stop |-> s, phase |-> p, ack |-> a]
    BY <1>1, <2>1, BoxShown, Zenon
  <2>3. Box' = [id |-> n, stop |-> t, phase |-> p, ack |-> a]
    BY <1>2, <1>3, <2>1, Zenon DEF Box
  <2>4. Box' = [Box EXCEPT !.stop = t]
    BY <2>2, <2>3
  <2>. QED BY <2>1, <2>4
<1>. QED BY <1>1, <1>4, RequestStop, BoxShown DEF RequestStop, Contract!AskStop, Box

\* An acknowledgement written to a mailbox whose stop was requested is one of the
\* contract.
LEMMA StopAcked ==
    ASSUME IInv, mailbox.n # 0, mailbox.stop, used' = used, ended' = ended,
           mailbox' = [mailbox EXCEPT !.phase = "Stopped", !.ack = TRUE]
    PROVE  Contract!Acknowledge
<1>1. mailbox \in Mailbox
  BY IInv DEF IInv, BoxTyped
<1>2. /\ mailbox'.n = mailbox.n /\ mailbox'.phase = "Stopped"
      /\ mailbox'.ack = TRUE /\ mailbox'.stop = mailbox.stop
  BY <1>1 DEF Mailbox
<1>3. mailbox' # Absent
  <2>1. Absent.n = 0
    BY DEF Absent
  <2>. QED BY <1>1, <1>2, <2>1
<1>4. Box' = [Box EXCEPT !.phase = "Stopped", !.ack = TRUE]
  <2>1. PICK n, s, t, p, q, a : /\ n = mailbox.n /\ s = mailbox.stop /\ t = TRUE
                                /\ q = "Stopped" /\ p = mailbox.phase /\ a = mailbox.ack
    OBVIOUS
  <2>2. Box = [id |-> n, stop |-> s, phase |-> p, ack |-> a]
    BY <1>1, <2>1, BoxShown, Zenon
  <2>3. Box' = [id |-> n, stop |-> s, phase |-> q, ack |-> t]
    BY <1>2, <1>3, <2>1, Zenon DEF Box
  <2>4. PICK b : b = [id |-> n, stop |-> s, phase |-> q, ack |-> a]
    OBVIOUS
  <2>5. b = [Box EXCEPT !.phase = q]
    BY <2>2, <2>4
  <2>6. Box' = [b EXCEPT !.ack = t]
    BY <2>3, <2>4
  <2>7. Box' = [Box EXCEPT !.phase = q, !.ack = t]
    BY <2>5, <2>6
  <2>. QED BY <2>1, <2>7
<1>. QED BY <1>4, BoxShown DEF Contract!Acknowledge, Box

\* The creation of an assignment is an offer of the contract.
LEMMA MailboxOffered ==
    ASSUME IInv, NEW n \in Assignments, CreateMailbox(n)
    PROVE  Contract!Offer(n)
<1>1. Box = Absent
  BY CreateMailbox(n) DEF CreateMailbox, Box
<1>2. /\ mailbox'.n = n /\ mailbox'.stop = FALSE /\ mailbox'.phase = "none"
      /\ mailbox'.ack = FALSE
  BY CreateMailbox(n) DEF CreateMailbox
<1>3. mailbox' # Absent
  <2>1. Absent.n = 0 /\ n # 0
    BY Constants DEF Absent
  <2>. QED BY <1>2, <2>1
<1>4. Box' = [id |-> n, stop |-> FALSE, phase |-> "none", ack |-> FALSE]
  BY <1>2, <1>3, Zenon DEF Box
<1>. QED BY <1>1, <1>4, CreateMailbox(n) DEF CreateMailbox, Contract!Offer, Box

\* The deletion of the mailbox is a withdrawal of the contract.
LEMMA MailboxWithdrawn == ASSUME IInv, DeleteMailbox PROVE Contract!Withdraw
<1>1. mailbox.n # 0
  BY IInv, DeleteMailbox DEF DeleteMailbox, IInv, BoxInv
<1>2. Box' = Absent
  BY DeleteMailbox DEF DeleteMailbox, Box
<1>. QED BY <1>1, <1>2, BoxShown, DeleteMailbox DEF DeleteMailbox, Contract!Withdraw, Box

\* Every step is one of the contract, or does not touch the mailbox.
LEMMA StepKeepsContract == ASSUME IInv, Next PROVE ContractStep
<1>1. CASE Controller
  <2>1. CASE RequestStop
    BY IInv, <2>1, StopAsked DEF ContractStep, Contract!MailboxNext
  <2>2. CASE DeleteMailbox
    BY IInv, <2>2, MailboxWithdrawn DEF ContractStep, Contract!MailboxNext
  <2>3. ASSUME NEW n \in Assignments, CreateMailbox(n) PROVE ContractStep
    BY IInv, <2>3, MailboxOffered DEF ContractStep, Contract!MailboxNext
  <2>. QED BY <1>1, <2>1, <2>2, <2>3 DEF Controller
<1>2. CASE UNCHANGED <<mailbox, used, ended>>
  BY <1>2 DEF ContractStep, Contract!boxVars
<1>3. CASE mailbox' = Announced /\ mailbox.n # 0 /\ ~mailbox.stop /\ UNCHANGED <<used, ended>>
  <2>1. Contract!Report("Starting")
    BY IInv, <1>3, StatusReported DEF Announced, Phases, IInv, FlagsTyped
  <2>. QED BY <2>1 DEF ContractStep, Contract!MailboxNext, Phases
<1>4. CASE Decide
  <2>1. /\ UNCHANGED <<used, ended>>
        /\ mailbox' = mailbox \/ (mailbox' = Announced /\ fresh /\ ~snap.stop)
    BY <1>4 DEF Decide, stopRequested
  <2>2. fresh /\ ~snap.stop => mailbox.n # 0 /\ ~mailbox.stop
    BY IInv DEF IInv, BoxInv
  <2>. QED BY <1>2, <1>3, <2>1, <2>2
<1>5. CASE refreshStartupLease
  <2>1. snap.n # 0
    BY IInv, <1>5 DEF refreshStartupLease, IInv, LoopInv, Committed
  <2>. QED BY <1>3, <1>5, <2>1 DEF refreshStartupLease, renewable
<1>6. CASE Publish
  <2>1. /\ pc = "publish" /\ used' = used
        /\ \/ UNCHANGED <<mailbox, ended>>
           \/ /\ fresh
              /\ mailbox' = [mailbox EXCEPT !.phase = out, !.ack = (out = "Stopped")]
              /\ ended' = (ended \/ completed(mailbox'))
    BY <1>6 DEF Publish
  <2>2. CASE UNCHANGED <<mailbox, ended>>
    BY <1>2, <2>1, <2>2
  <2>3. CASE /\ fresh
             /\ mailbox' = [mailbox EXCEPT !.phase = out, !.ack = (out = "Stopped")]
             /\ ended' = (ended \/ completed(mailbox'))
    <3>1. /\ mailbox \in Mailbox /\ mailbox.n # 0 /\ mailbox.stop = snap.stop
          /\ out \in Phases /\ out # "none" /\ ended \in BOOLEAN
      BY IInv, <2>1, <2>3 DEF IInv, BoxTyped, BoxInv, LoopInv, PassTyped, FlagsTyped
    <3>2. mailbox'.n = mailbox.n /\ mailbox'.phase = out
      BY <2>3, <3>1 DEF Mailbox
    <3>3. CASE out = "Stopped"
      <4>1. mailbox' = [mailbox EXCEPT !.phase = "Stopped", !.ack = TRUE]
        BY <2>3, <3>3
      <4>2. ended' = ended
        BY <2>3, <3>1, <3>2, <3>3 DEF completed
      <4>3. mailbox.stop
        BY IInv, <2>1, <3>1, <3>3 DEF IInv, LoopInv
      <4>. QED BY IInv, <2>1, <3>1, <4>1, <4>2, <4>3, StopAcked
               DEF ContractStep, Contract!MailboxNext
    <3>4. CASE out # "Stopped"
      <4>1. mailbox' = [mailbox EXCEPT !.phase = out, !.ack = FALSE]
        BY <2>3, <3>4
      <4>2. ended' = (ended \/ (out \in {"Succeeded", "Failed"} /\ Finite(mailbox.n)))
        BY <2>3, <3>2 DEF completed
      <4>3. ~mailbox.stop
        BY IInv, <2>1, <3>1, <3>4 DEF IInv, LoopInv, Starting
      <4>4. Contract!Report(out)
        BY IInv, <2>1, <3>1, <3>4, <4>1, <4>2, <4>3, StatusReported
      <4>. QED BY <3>1, <4>4 DEF ContractStep, Contract!MailboxNext
    <3>. QED BY <3>3, <3>4
  <2>. QED BY <2>1, <2>2, <2>3
<1>7. CASE Host \/ Watchdog \/ Shutdown \/ Crash \/ PowerFailure
  BY <1>2, <1>7 DEF Host, HandleEnds, PidReused, PidFreed, LeaseExpires, ProcessExits, HostStep,
     Watchdog, WatchdogFires, WatchdogHalts, WatchdogTerminates, Shutdown, Crash, PowerFailure,
     Down, api
<1>8. CASE \/ ReadHost \/ GetMailbox \/ Halt \/ Terminate \/ Clear \/ Complete \/ Ensure
           \/ PrepareFails \/ Begin \/ Spawn \/ RecordProcess \/ Ready \/ StartFails
           \/ UpdateHost \/ CallFails \/ recoverOrphan
  BY <1>2, <1>8
  DEF ReadHost, GetMailbox, Halt, Terminate, Clear, Complete, Ensure, PrepareFails, Begin,
      Spawn, RecordProcess, Ready, StartFails, UpdateHost, CallFails, recoverOrphan, api
<1>. QED BY Next, <1>1, <1>4, <1>5, <1>6, <1>7, <1>8 DEF Next, Pass, Start, Trouble

\* The agent implements its side of the mailbox contract: every step of the
\* agent and of its host is a step of HostMailbox or leaves the mailbox alone.
THEOREM AgentKeepsContract == Spec => KeepsContract
<1>1. Init => Contract!MailboxInit
  BY DEF Init, Contract!MailboxInit
<1>2. ASSUME IInv, [Next]_vars PROVE [ContractStep]_vars
  BY <1>2, StepKeepsContract
<1>. QED BY <1>1, <1>2, AgentInvariant, PTL DEF Spec, KeepsContract
=============================================================================
