------------------------- MODULE NativeAgentInvariant -------------------------
(***************************************************************************)
(* The invariant of NativeAgentSteps is inductive: each of its parts is    *)
(* preserved by every step.                                                *)
(***************************************************************************)
EXTENDS NativeAgentSteps

-----------------------------------------------------------------------------
(* Types are preserved.                                                    *)

\* The mailbox, and the copy of it.
LEMMA BoxTypedStep == ASSUME IInv, StepFacts PROVE BoxTyped'
<1>1. BoxTyped
  BY IInv DEF IInv
<1>. USE <1>1, MailboxShapes DEF BoxTyped, Step, EndPass, EnsureFails, mail, tally, ran, grip,
   journal
<1>2. CASE MailFacts \/ OutsideFacts \/ DownFacts \/ QuietFacts \/ GetFacts \/ EnsureFacts \/
   HaltFacts \/ TerminateFacts \/ ClearFacts \/ DecideFacts \/ RefreshFacts \/ PublishFacts \/
   CompleteFacts \/ BeginFacts \/ StartFacts \/ ReadyFacts \/ RecordProcessFacts \/ RecoverFacts
  BY <1>2 DEF MailFacts, OutsideFacts, Ending, DownFacts, QuietFacts, GetFacts, EnsureFacts,
     HaltFacts, AfterHalt, AfterHaltFails, TerminateFacts, Led, ClearFacts, DecideFacts,
     Announces, RefreshFacts, PublishFacts, CompleteFacts, BeginFacts, StartFacts, ReadyFacts,
     RecordProcessFacts, RecoverFacts
<1>. QED BY StepFacts, <1>2 DEF StepFacts

\* The journal, in memory and on disk.
LEMMA RecordsTypedStep == ASSUME IInv, StepFacts PROVE RecordsTyped'
<1>1. RecordsTyped
  BY IInv DEF IInv
<1>. USE <1>1, RecordShapes DEF RecordsTyped, Step, EndPass, EnsureFails, mail, tally, ran,
   grip, journal
<1>2. CASE MailFacts \/ OutsideFacts \/ DownFacts \/ QuietFacts \/ GetFacts \/ EnsureFacts \/
   HaltFacts \/ TerminateFacts \/ ClearFacts \/ DecideFacts \/ RefreshFacts \/ PublishFacts \/
   CompleteFacts \/ BeginFacts \/ StartFacts \/ ReadyFacts \/ RecordProcessFacts \/ RecoverFacts
  BY <1>2 DEF MailFacts, OutsideFacts, Ending, DownFacts, QuietFacts, GetFacts, EnsureFacts,
     HaltFacts, AfterHalt, AfterHaltFails, TerminateFacts, Led, ClearFacts, DecideFacts,
     Announces, RefreshFacts, PublishFacts, CompleteFacts, BeginFacts, StartFacts, ReadyFacts,
     RecordProcessFacts, RecoverFacts
<1>. QED BY StepFacts, <1>2 DEF StepFacts

\* The sets that only grow.
LEMMA SetsTypedStep == ASSUME IInv, StepFacts PROVE SetsTyped'
<1>1. BoxTyped /\ SetsTyped /\ PassTyped /\ LoopInv /\ OutcomeInv /\ RecordInv
  BY IInv DEF IInv
<1>. USE <1>1 DEF BoxTyped, SetsTyped, Mailbox, PassTyped, LoopInv, OutcomeInv, Committed, Live,
   Spawned, Step, EndPass, EnsureFails, mail, tally, ran, grip, journal
<1>2. CASE MailFacts \/ OutsideFacts \/ DownFacts \/ QuietFacts \/ GetFacts \/ EnsureFacts \/
   HaltFacts \/ TerminateFacts \/ ClearFacts \/ DecideFacts \/ RefreshFacts \/ PublishFacts \/
   CompleteFacts \/ BeginFacts \/ StartFacts \/ ReadyFacts \/ RecordProcessFacts \/ RecoverFacts
  BY <1>2 DEF MailFacts, OutsideFacts, Ending, DownFacts, QuietFacts, GetFacts, EnsureFacts,
     HaltFacts, AfterHalt, AfterHaltFails, TerminateFacts, Led, ClearFacts, DecideFacts,
     Announces, RefreshFacts, PublishFacts, CompleteFacts, BeginFacts, StartFacts, ReadyFacts,
     RecordProcessFacts, RecoverFacts
<1>. QED BY StepFacts, <1>2 DEF StepFacts

\* The control state of the pass.
LEMMA PassTypedStep == ASSUME IInv, StepFacts PROVE PassTyped'
<1>1. BoxTyped /\ RecordsTyped /\ RecordInv /\ PassTyped
  BY IInv DEF IInv
<1>. USE <1>1, Constants DEF BoxTyped, RecordsTyped, RecordInv, PassTyped, Record, Mailbox,
   Runs, Phases, Step, EndPass, EnsureFails, mail, tally, ran, grip, journal
<1>2. CASE MailFacts \/ OutsideFacts \/ DownFacts \/ QuietFacts \/ GetFacts \/ EnsureFacts \/
   RefreshFacts
  BY <1>2 DEF MailFacts, OutsideFacts, Ending, DownFacts, QuietFacts, GetFacts, EnsureFacts,
     RefreshFacts, Announces
<1>3. CASE HaltFacts \/ TerminateFacts \/ ClearFacts
  BY <1>3 DEF HaltFacts, Ending, AfterHalt, AfterHaltFails, TerminateFacts, Led, ClearFacts
<1>4. CASE DecideFacts \/ PublishFacts \/ CompleteFacts
  BY <1>4 DEF DecideFacts, Announces, PublishFacts, CompleteFacts
<1>5. CASE BeginFacts \/ StartFacts \/ ReadyFacts \/ RecordProcessFacts \/ RecoverFacts
  BY <1>5 DEF BeginFacts, StartFacts, ReadyFacts, RecordProcessFacts, RecoverFacts, Led
<1>. QED BY StepFacts, <1>2, <1>3, <1>4, <1>5 DEF StepFacts

\* proc changes only at one run at a time, or in a power failure; a run gets its
\* owner when it is planned.
LEMMA ProcessesTypedStep == ASSUME IInv, Next PROVE ProcessesTyped'
<1>1. ProcessesTyped /\ BoxTyped
  BY IInv DEF IInv
<1>2. snap.n \in Assignments \cup {0}
  BY <1>1 DEF BoxTyped, Mailbox
<1>. USE <1>1, <1>2 DEF ProcessesTyped, os, Killed
<1>3. CASE Controller \/ Host
  BY <1>3 DEF Controller, RequestStop, DeleteMailbox, CreateMailbox, ControllerStep,
     Host, HandleEnds, PidReused, PidFreed, LeaseExpires, ProcessExits, HostStep
<1>4. CASE Watchdog \/ Halt \/ Terminate \/ recoverOrphan
  BY <1>4 DEF Watchdog, WatchdogFires, WatchdogHalts, WatchdogTerminates, Halt, Terminate,
     recoverOrphan, stopProcess, terminateRecorded
<1>5. CASE Shutdown \/ Crash \/ PowerFailure
  BY <1>5 DEF Shutdown, Crash, PowerFailure, Down
<1>6. CASE \/ ReadHost \/ GetMailbox \/ Clear \/ Decide \/ Complete \/ Ensure \/ Publish
           \/ UpdateHost \/ refreshStartupLease \/ CallFails \/ PrepareFails
  BY <1>6 DEF ReadHost, GetMailbox, Clear, Decide, Complete, Ensure, Publish, UpdateHost,
     refreshStartupLease, CallFails, PrepareFails
<1>7. CASE Begin \/ Spawn \/ RecordProcess \/ Ready \/ StartFails
  BY <1>7 DEF Begin, Spawn, RecordProcess, unrecordedKilled, Ready, StartFails
<1>. QED BY Next, <1>3, <1>4, <1>5, <1>6, <1>7 DEF Next, Pass, Start, Trouble

\* The counters, the watchdog and the other bookkeeping.
LEMMA OthersTypedStep == ASSUME IInv, Next PROVE OthersTyped'
<1>1. OthersTyped /\ BoxTyped
  BY IInv DEF IInv
<1>2. snap.n \in Assignments \cup {0}
  BY <1>1 DEF BoxTyped, Mailbox
<1>3. Fault(1) \/ Fault(2) => faults' \in 0..MaxFaults
  BY <1>1, Constants DEF OthersTyped, Fault
<1>. USE <1>1, <1>2, <1>3 DEF OthersTyped, api, process
<1>4. CASE Controller \/ Host
  BY <1>4 DEF Controller, RequestStop, DeleteMailbox, CreateMailbox, ControllerStep,
     Host, HandleEnds, PidReused, PidFreed, LeaseExpires, ProcessExits, HostStep
<1>5. CASE Watchdog \/ Halt \/ Terminate \/ recoverOrphan
  BY <1>5 DEF Watchdog, WatchdogFires, WatchdogHalts, WatchdogTerminates, Halt, Terminate,
     recoverOrphan, stopProcess, terminateRecorded
<1>6. CASE Shutdown \/ Crash \/ PowerFailure
  BY <1>6 DEF Shutdown, Crash, PowerFailure, Down
<1>7. CASE ReadHost \/ GetMailbox \/ Ensure \/ UpdateHost \/ refreshStartupLease \/ PrepareFails
  BY <1>7 DEF ReadHost, GetMailbox, Ensure, UpdateHost, advertised, refreshStartupLease,
     PrepareFails
<1>8. CASE Decide \/ Publish \/ CallFails
  BY <1>8 DEF Decide, Publish, CallFails
<1>9. CASE Clear \/ Complete \/ Begin
  <2>1. faults' \in 0..MaxFaults
    BY <1>9 DEF Clear, Complete, Begin, persist
  <2>2. UNCHANGED <<hostActive, exit, wd>> /\ cur' \in {cur, 0, snap.n}
    BY <1>9 DEF Clear, Complete, Begin
  <2>. QED BY <2>1, <2>2
<1>10. CASE Spawn \/ RecordProcess \/ Ready \/ StartFails
  BY <1>10 DEF Spawn, RecordProcess, persist, Ready, StartFails
<1>. QED BY Next, <1>4, <1>5, <1>6, <1>7, <1>8, <1>9, <1>10 DEF Next, Pass, Start, Trouble

\* The flags.
LEMMA FlagsTypedStep == ASSUME IInv, Next PROVE FlagsTyped'
<1>1. FlagsTyped
  BY IInv DEF IInv
<1>. USE <1>1 DEF FlagsTyped, api, os, loop, Step, EndPass, EnsureFails
<1>2. CASE Controller \/ Host
  BY <1>2 DEF Controller, RequestStop, DeleteMailbox, CreateMailbox, ControllerStep,
     Host, HandleEnds, PidReused, PidFreed, LeaseExpires, ProcessExits, HostStep
<1>3. CASE Watchdog
  BY <1>3 DEF Watchdog, WatchdogFires, WatchdogHalts, WatchdogTerminates
<1>4. CASE Halt \/ Terminate \/ Clear \/ recoverOrphan
  BY <1>4 DEF Halt, AfterHalt, AfterHaltFails, Terminate, Clear, recoverOrphan
<1>5. CASE Shutdown \/ Crash \/ PowerFailure
  BY <1>5 DEF Shutdown, Crash, PowerFailure, Down
<1>6. CASE \/ ReadHost \/ GetMailbox \/ Decide \/ Ensure \/ Publish
           \/ UpdateHost \/ refreshStartupLease \/ CallFails \/ PrepareFails
  BY <1>6 DEF ReadHost, GetMailbox, Decide, Ensure, Publish, UpdateHost,
     refreshStartupLease, CallFails, PrepareFails
<1>7. CASE Complete \/ Begin \/ Spawn \/ RecordProcess \/ Ready \/ StartFails
  BY <1>7 DEF Complete, Begin, Spawn, RecordProcess, Ready, StartFails
<1>. QED BY Next, <1>2, <1>3, <1>4, <1>5, <1>6, <1>7 DEF Next, Pass, Start, Trouble

-----------------------------------------------------------------------------
(* The other parts of the invariant are preserved.                         *)

\* The copy of the mailbox is out of date in a known way: the controller can only
\* have asked for a stop, or replaced the assignment by one not yet reported on.
LEMMA BoxStep == ASSUME IInv, StepFacts PROVE BoxInv'
<1>1. BoxTyped /\ SetsTyped /\ BoxInv /\ LoopInv
  BY IInv DEF IInv
<1>. USE <1>1
<1>2. CASE MailFacts
  BY <1>2, Constants DEF MailFacts, BoxInv, Absent
<1>3. CASE OutsideFacts \/ EnsureFacts \/ CompleteFacts \/ BeginFacts \/ StartFacts \/
   ReadyFacts \/ RecordProcessFacts \/ RecoverFacts
  BY <1>3 DEF OutsideFacts, EnsureFacts, CompleteFacts, BeginFacts, StartFacts, ReadyFacts,
     RecordProcessFacts, RecoverFacts, BoxInv, mail, Step, EnsureFails
<1>4. CASE DownFacts \/ QuietFacts \/ HaltFacts \/ TerminateFacts \/ ClearFacts
  BY <1>4 DEF DownFacts, QuietFacts, HaltFacts, TerminateFacts, ClearFacts, BoxInv, Absent,
     mail, Step, EndPass, EnsureFails, AfterHalt, AfterHaltFails
<1>5. CASE GetFacts
  BY <1>5 DEF GetFacts, BoxInv, Absent, Step, EndPass, mail
<1>6. CASE DecideFacts
  BY <1>6 DEF DecideFacts, BoxInv, Absent, Step, EndPass, Announces
<1>7. CASE RefreshFacts
  BY <1>7 DEF RefreshFacts, LoopInv, BoxInv, Committed, Announces
<1>8. CASE PublishFacts
  BY <1>8 DEF PublishFacts, LoopInv, BoxInv, Absent, Step, EndPass, mail
<1>. QED BY StepFacts, <1>2, <1>3, <1>4, <1>5, <1>6, <1>7, <1>8 DEF StepFacts

\* What the pass knows at each point.
LEMMA LoopStep == ASSUME IInv, StepFacts PROVE LoopInv'
<1>1. BoxTyped /\ BoxInv /\ LoopInv
  BY IInv DEF IInv
<1>. USE <1>1
<1>2. CASE MailFacts \/ OutsideFacts \/ DownFacts \/ RefreshFacts \/ RecoverFacts
  BY <1>2 DEF MailFacts, OutsideFacts, DownFacts, RefreshFacts, RecoverFacts, LoopInv,
     Committed, Starting, Fencing, journal, Absent
<1>3. CASE QuietFacts \/ EnsureFacts \/ PublishFacts \/ CompleteFacts
  BY <1>3 DEF QuietFacts, EnsureFacts, PublishFacts, CompleteFacts, LoopInv, Committed,
     Starting, Fencing, Absent, Step, EndPass, EnsureFails
<1>4. CASE GetFacts
  BY <1>4 DEF GetFacts, BoxInv, LoopInv, Committed, Starting, Fencing, Step, EndPass
<1>5. CASE HaltFacts
  BY <1>5 DEF HaltFacts, LoopInv, Committed, Starting, Fencing, Absent, Step, EndPass,
     EnsureFails, AfterHalt, AfterHaltFails
<1>6. CASE TerminateFacts \/ ClearFacts
  BY <1>6 DEF TerminateFacts, ClearFacts, LoopInv, Committed, Starting, Fencing, Absent, Step,
     EndPass, EnsureFails
<1>7. CASE DecideFacts
  BY <1>7 DEF DecideFacts, LoopInv, Committed, Starting, Fencing, Absent, Step, EndPass,
     completed
<1>8. CASE BeginFacts \/ StartFacts \/ ReadyFacts \/ RecordProcessFacts
  BY <1>8 DEF BeginFacts, StartFacts, ReadyFacts, RecordProcessFacts, LoopInv, Committed,
     Starting, Step, EnsureFails
<1>. QED BY StepFacts, <1>2, <1>3, <1>4, <1>5, <1>6, <1>7, <1>8 DEF StepFacts

\* A pass gets past the fencing of another assignment's execution only with an
\* empty journal.
LEMMA RecordStep == ASSUME IInv, StepFacts PROVE RecordInv'
<1>1. RecordsTyped /\ BoxTyped /\ PassTyped /\ BoxInv /\ LoopInv /\ RecordInv
  BY IInv DEF IInv
<1>. USE <1>1
<1>2. CASE MailFacts
  BY <1>2 DEF MailFacts, RecordInv, Committed, Fencing, Emptying, Absent, tally, ran, journal
<1>3. CASE OutsideFacts \/ QuietFacts \/ HaltFacts \/ TerminateFacts
  BY <1>3 DEF OutsideFacts, QuietFacts, HaltFacts, TerminateFacts, RecordInv, Committed,
     Fencing, Emptying, mail, journal, Step, EndPass, EnsureFails, tally, ran, AfterHalt,
     AfterHaltFails
<1>4. CASE DownFacts \/ ClearFacts \/ RecoverFacts
  BY <1>4 DEF DownFacts, ClearFacts, RecoverFacts, RecordInv, Committed, Fencing, Emptying,
     mail, tally, NoRecord, Step, EndPass, EnsureFails, ran, journal
<1>5. CASE GetFacts
  BY <1>5 DEF GetFacts, RecordInv, Committed, Fencing, Emptying, Absent, Step, EndPass, mail,
     tally, ran, journal
<1>6. CASE EnsureFacts \/ DecideFacts \/ RefreshFacts \/ PublishFacts
  BY <1>6 DEF EnsureFacts, DecideFacts, RefreshFacts, PublishFacts, RecordInv, Committed,
     Fencing, Emptying, Step, EnsureFails, mail, tally, ran, journal, EndPass
<1>7. CASE CompleteFacts
  BY <1>7 DEF CompleteFacts, RecordInv, Committed, Fencing, Emptying, NoRecord, Step,
     EnsureFails, mail, tally, ran
<1>8. CASE BeginFacts
  BY <1>8, Constants DEF BeginFacts, LoopInv, BoxInv, RecordsTyped, PassTyped, RecordInv,
     Committed, Fencing, Emptying, Record, Runs, Step, EnsureFails, mail
<1>9. CASE StartFacts \/ ReadyFacts \/ RecordProcessFacts
  BY <1>9 DEF StartFacts, ReadyFacts, RecordProcessFacts, RecordInv, Committed, Fencing,
     Emptying, Step, mail, tally, journal, ran, NoRecord
<1>. QED BY StepFacts, <1>2, <1>3, <1>4, <1>5, <1>6, <1>7, <1>8, <1>9 DEF StepFacts

\* Nothing that lives is forgotten: the handle is dropped only after a kill, and
\* the journal is cleared only after the handle and the recorded process are gone.
LEMMA ProcessStep == ASSUME IInv, StepFacts PROVE ProcessInv'
<1>1. RecordsTyped /\ BoxTyped /\ PassTyped /\ LoopInv /\ RecordInv /\ ProcessInv
  BY IInv DEF IInv
<1>. USE <1>1
<1>2. CASE MailFacts \/ OutsideFacts \/ QuietFacts \/ GetFacts \/ EnsureFacts \/ DecideFacts \/
   RefreshFacts \/ PublishFacts
  BY <1>2 DEF MailFacts, OutsideFacts, QuietFacts, GetFacts, EnsureFacts, DecideFacts,
     RefreshFacts, PublishFacts, ProcessInv, Accountable, ran, grip, journal, Ending, Step,
     EndPass, EnsureFails
<1>3. CASE DownFacts
  BY <1>3 DEF DownFacts, RecordInv, ProcessInv, untracked
<1>4. CASE HaltFacts
  BY <1>4 DEF HaltFacts, ProcessInv, Accountable, Step, EndPass, EnsureFails, journal, Ending,
     AfterHalt, AfterHaltFails
<1>5. CASE TerminateFacts \/ RecoverFacts
  BY <1>5 DEF TerminateFacts, RecoverFacts, RecordInv, ProcessInv, Accountable, Step, EndPass,
     EnsureFails, journal, Led
<1>6. CASE ClearFacts \/ CompleteFacts \/ BeginFacts
  BY <1>6 DEF ClearFacts, CompleteFacts, BeginFacts, ProcessInv, Accountable, ran, grip,
     NoRecord, Step, EnsureFails
<1>7. CASE StartFacts \/ ReadyFacts \/ RecordProcessFacts
  BY <1>7 DEF StartFacts, ReadyFacts, RecordProcessFacts, RecordInv, ProcessInv, Accountable,
     Step, grip, journal, ran, Committed, NoRecord
<1>. QED BY StepFacts, <1>2, <1>3, <1>4, <1>5, <1>6, <1>7 DEF StepFacts

\* Results are journaled only for runs that had them.
LEMMA OutcomeStep == ASSUME IInv, StepFacts PROVE OutcomeInv'
<1>1. RecordsTyped /\ PassTyped /\ LoopInv /\ RecordInv /\ ProcessInv /\ OutcomeInv
  BY IInv DEF IInv
<1>2. Live \subseteq Spawned /\ Spawned \subseteq Nat
  BY DEF Live, Spawned, Runs
<1>. USE <1>1
<1>3. CASE MailFacts \/ DownFacts \/ QuietFacts \/ GetFacts \/ EnsureFacts \/ DecideFacts \/
   RefreshFacts \/ PublishFacts
  BY <1>3 DEF MailFacts, DownFacts, QuietFacts, GetFacts, EnsureFacts, DecideFacts,
     RefreshFacts, PublishFacts, OutcomeInv, tally, ran, grip, journal, Step, EndPass,
     EnsureFails
<1>4. CASE TerminateFacts \/ RecoverFacts
  BY <1>4 DEF TerminateFacts, RecoverFacts, OutcomeInv, Step, EndPass, EnsureFails, tally,
     journal, NoRecord
<1>5. CASE ClearFacts
  BY <1>5 DEF ClearFacts, OutcomeInv, NoRecord, Step, EndPass, EnsureFails, tally, ran, grip
<1>6. CASE OutsideFacts \/ HaltFacts
  BY <1>6, <1>2 DEF OutsideFacts, HaltFacts, OutcomeInv, ProcessInv, journal, Ending, Step,
     EndPass, EnsureFails, tally, AfterHalt, AfterHaltFails
<1>7. CASE CompleteFacts
  BY <1>7 DEF CompleteFacts, ProcessInv, OutcomeInv, tally, ran, grip
<1>8. CASE BeginFacts
  BY <1>8, <1>2 DEF BeginFacts, PassTyped, OutcomeInv, Step, EnsureFails, grip
<1>9. CASE StartFacts \/ ReadyFacts
  BY <1>9 DEF StartFacts, ReadyFacts, OutcomeInv, RecordInv, PassTyped, Step, tally, journal,
     grip, ran
<1>10. CASE RecordProcessFacts
  BY <1>10 DEF RecordProcessFacts, OutcomeInv, tally, grip
<1>. QED BY StepFacts, <1>3, <1>4, <1>5, <1>6, <1>7, <1>8, <1>9, <1>10 DEF StepFacts

\* A status is written only by a pass whose journal is that of the mailbox, and a
\* run is started only by such a pass.
LEMMA OneRunStep == ASSUME IInv, StepFacts PROVE OneRunPerHost'
<1>1. BoxInv /\ LoopInv /\ RecordInv /\ ProcessInv /\ OneRunPerHost
  BY IInv DEF IInv
<1>. USE <1>1
<1>2. CASE MailFacts
  BY <1>2 DEF MailFacts, OneRunPerHost, Absent, tally, ran
<1>3. CASE OutsideFacts \/ DownFacts \/ QuietFacts \/ GetFacts \/ EnsureFacts \/ HaltFacts \/
   TerminateFacts \/ ClearFacts \/ CompleteFacts \/ ReadyFacts \/ RecordProcessFacts \/
   RecoverFacts
  BY <1>3 DEF OutsideFacts, DownFacts, QuietFacts, GetFacts, EnsureFacts, HaltFacts,
     TerminateFacts, ClearFacts, CompleteFacts, ReadyFacts, RecordProcessFacts, RecoverFacts,
     OneRunPerHost, mail, Ending, Accountable, tally, ran
<1>4. CASE DecideFacts \/ RefreshFacts
  BY <1>4 DEF DecideFacts, RefreshFacts, BoxInv, RecordInv, ProcessInv, OneRunPerHost,
     Committed, Accountable, tally, ran, Announces
<1>5. CASE PublishFacts
  BY <1>5 DEF PublishFacts, BoxInv, RecordInv, ProcessInv, OneRunPerHost, Committed,
     Accountable, mail, tally, ran
<1>6. CASE BeginFacts \/ StartFacts
  BY <1>6 DEF BeginFacts, StartFacts, ProcessInv, OneRunPerHost, Accountable, BoxInv, RecordInv,
     Committed, mail, tally
<1>. QED BY StepFacts, <1>2, <1>3, <1>4, <1>5, <1>6 DEF StepFacts

\* The acknowledgement is written with an empty journal, and the assignment is not
\* started again after it.
LEMMA AckStep == ASSUME IInv, StepFacts PROVE AckMeansStopped'
<1>1. BoxTyped /\ BoxInv /\ LoopInv /\ RecordInv /\ ProcessInv /\ AckMeansStopped
  BY IInv DEF IInv
<1>2. MailFacts => (mailbox'.ack => mailbox.ack /\ mailbox'.n = mailbox.n)
  <2>1. CASE mailbox'.n = mailbox.n /\ mailbox'.ack = mailbox.ack
    BY <2>1
  <2>2. CASE mailbox' = Absent
    BY <2>2 DEF Absent
  <2>3. CASE ~mailbox'.ack
    BY <2>3
  <2>. QED BY <2>1, <2>2, <2>3, Zenon DEF MailFacts
<1>. USE <1>1, <1>2
<1>3. CASE MailFacts
  <2>1. UNCHANGED <<Live, lost, owner>>
    BY <1>3 DEF MailFacts, tally, ran
  <2>. QED BY <1>3, <2>1 DEF AckMeansStopped
<1>4. CASE OutsideFacts \/ DownFacts \/ QuietFacts \/ GetFacts \/ EnsureFacts \/ HaltFacts \/
   TerminateFacts \/ ClearFacts \/ DecideFacts \/ RefreshFacts \/ CompleteFacts \/ ReadyFacts \/
   RecordProcessFacts \/ RecoverFacts
  BY <1>4 DEF OutsideFacts, DownFacts, QuietFacts, GetFacts, EnsureFacts, HaltFacts,
     TerminateFacts, ClearFacts, DecideFacts, RefreshFacts, CompleteFacts, ReadyFacts,
     RecordProcessFacts, RecoverFacts, AckMeansStopped, mail, Ending, Accountable, tally, ran,
     Announces
<1>5. CASE PublishFacts
  BY <1>5 DEF PublishFacts, LoopInv, ProcessInv, AckMeansStopped, Accountable, mail, tally, ran
<1>6. CASE BeginFacts \/ StartFacts
  BY <1>6 DEF BeginFacts, StartFacts, ProcessInv, AckMeansStopped, Accountable, LoopInv, BoxInv,
     RecordInv, Committed, Starting, mail, tally
<1>. QED BY StepFacts, <1>3, <1>4, <1>5, <1>6 DEF StepFacts

=============================================================================
