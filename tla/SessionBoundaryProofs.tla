----------------------- MODULE SessionBoundaryProofs -----------------------
(***************************************************************************)
(* What holds of the worker boundary for every set of configurations and   *)
(* every number of source records.                                         *)
(*                                                                         *)
(* Four parts.  The end of a session: TypeOK, JournalInv and EndsInv are   *)
(* inductive together (IInv).  The scan of a journal: what the fold of     *)
(* validate_session_event_stream computes of every stream, by induction    *)
(* over its records (ScanMeans).  The streams: the scan against the        *)
(* contract, position by position, for streams of every length.  And what  *)
(* is recorded and reported: ControlInv, WriterInv and JournalLegal say    *)
(* what the worker knows of its journal (WriteInv), and the invariants of  *)
(* ReportInv follow that to the messages, the disk, the cancellation, the  *)
(* result and the history.                                                 *)
(***************************************************************************)
EXTENDS SessionBoundary, SessionStreams, FiniteSetTheorems,
        SequenceTheorems, WellFoundedInduction, TLAPS

LEMMA InitType == Init => TypeOK
<1> SUFFICES ASSUME Init PROVE TypeOK
  OBVIOUS
<1>1. conf \in ConfigType /\ conf.local \in BOOLEAN
  BY ConfigsAssumption DEF Init, WorkerInit, ConfigType
<1>2. WorkerTypeOK
  <2>1. /\ file \in Seq(EventType) /\ buffered \in Seq(EventType)
        /\ stdin \in Seq({"start", "cancel"}) /\ stdout \in Seq(MessageType)
    BY DEF Init, WorkerInit
  <2>2. wpc \in WorkerPcs
    BY DEF Init, WorkerInit, WorkerPcs
  <2>3. conf \in ConfigType /\ workDir \in BOOLEAN /\ worktree \in BOOLEAN
    BY <1>1 DEF Init, WorkerInit
  <2> QED
    BY <2>1, <2>2, <2>3 DEF Init, WorkerInit, WorkerTypeOK, Outcomes, MessageType, Tails
<1>3. result \in ResultType \cup {NoResult}
  BY DEF Init
<1> QED
  BY <1>2, <1>3 DEF Init, TypeOK, SupervisorTypeOK, DriverPcs, NoResult

LEMMA TerminalForType ==
  ASSUME WorkerTypeOK
  PROVE  /\ TerminalFor.status \in EndStatuses
         /\ TerminalFor.reason \in CompatibleReasons[TerminalFor.status]
         /\ TerminalFor.reason \in Reasons
  BY DEF WorkerTypeOK, TerminalFor, Outcomes, EndStatuses, CompatibleReasons, Reasons

LEMMA TerminalKindType ==
  ASSUME NEW status \in EndStatuses
  PROVE  /\ TerminalKind(status) \in TerminalKinds
         /\ status \in StatusesOf(TerminalKind(status))
<1>1. \E k \in TerminalKinds : status \in StatusesOf(k)
  BY DEF EndStatuses, TerminalKinds, StatusesOf
<1> QED
  BY <1>1 DEF TerminalKind

LEMMA RecordType ==
  ASSUME WorkerTypeOK, NEW pc \in Emitting
  PROVE  RecordAt(pc) \in EventType
<1> DEFINE e(kind) == Event(seq, kind, started \/ pc = "start")
<1>1. ASSUME NEW kind \in Kinds \ TerminalKinds
      PROVE  e(kind) \in EventType
  BY <1>1 DEF WorkerTypeOK, Event, EventType, StatusesOf, Kinds, TerminalKinds
<1>2. [e("cleanup.completed") EXCEPT !.verified = cleanupOk] \in EventType
  BY DEF WorkerTypeOK, Event, EventType, StatusesOf, Kinds, TerminalKinds
<1>3. [e(TerminalKind(TerminalFor.status))
         EXCEPT !.status = TerminalFor.status, !.reason = TerminalFor.reason] \in EventType
  <2> DEFINE k == TerminalKind(TerminalFor.status)
             s == TerminalFor.status
             r == TerminalFor.reason
  <2>1. /\ k \in TerminalKinds /\ k \in Kinds /\ s \in StatusesOf(k)
        /\ s \in EndStatuses /\ r \in Reasons /\ r \in CompatibleReasons[s]
    BY TerminalForType, TerminalKindType DEF Kinds
  <2> HIDE DEF k, s, r
  <2>2. [e(k) EXCEPT !.status = s, !.reason = r] \in EventType
    BY <2>1 DEF WorkerTypeOK, Event, EventType
  <2> QED
    BY <2>2 DEF k, s, r
<1> QED
  BY <1>1, <1>2, <1>3 DEF RecordAt, Emitting, Kinds, TerminalKinds

LEMMA NotifiedType ==
  ASSUME stdout \in Seq(MessageType)
  PROVE  Notified \in Seq(MessageType)
<1>1. Message("event") \in MessageType
  BY DEF Message, MessageType, MessageTypes
<1> QED
  BY <1>1 DEF Notified

LEMMA CutsType == Cuts \subseteq Tails /\ "no" \in Tails
  BY DEF Cuts, Tails

LEMMA EmitType ==
  ASSUME WorkerTypeOK, NEW e \in EventType, EmitOk(e) \/ EmitRaises(e)
  PROVE  /\ file' \in Seq(EventType) /\ buffered' \in Seq(EventType)
         /\ exists' \in BOOLEAN /\ torn' \in Tails /\ sticky' \in BOOLEAN
         /\ seq' \in Nat /\ stdout' \in Seq(MessageType)
<1>1. /\ file \in Seq(EventType) /\ buffered \in Seq(EventType)
      /\ stdout \in Seq(MessageType) /\ Notified \in Seq(MessageType)
      /\ exists \in BOOLEAN /\ torn \in Tails /\ sticky \in BOOLEAN /\ seq \in Nat
  BY NotifiedType DEF WorkerTypeOK, MessageType
<1>2. ASSUME Durable(e)
      PROVE  /\ file' \in Seq(EventType) /\ buffered' \in Seq(EventType)
             /\ torn' \in Tails
  <2>1. <<e>> \in Seq(EventType) /\ file \o buffered \in Seq(EventType)
    BY <1>1
  <2>2. file' = (file \o buffered) \o <<e>> /\ torn' = "no" /\ buffered' = <<>>
    BY <1>2 DEF Durable
  <2>3. file' \in Seq(EventType)
    BY <2>1, <2>2
  <2>4. buffered' \in Seq(EventType)
    BY <2>2
  <2>5. torn' \in Tails
    BY <2>2, CutsType
  <2> QED
    BY <2>3, <2>4, <2>5
<1>3. CASE EmitOk(e)
  BY <1>1, <1>2, <1>3 DEF EmitOk, AppendOk
<1>4. CASE EmitRaises(e)
  <2>1. CASE sticky
    BY <1>1, <1>4, <2>1 DEF EmitRaises
  <2>2. CASE ~sticky
    <3>1. AppendFails(e) /\ UNCHANGED exists
      BY <1>4, <2>2 DEF EmitRaises
    <3>2. WriteFails(e) /\ sticky' = TRUE /\ UNCHANGED <<exists, seq, stdout>>
      BY <3>1 DEF AppendFails
    <3>3. CASE Durable(e)
      BY <1>1, <1>2, <3>2, <3>3
    <3>4. CASE ~Durable(e)
      <4>1. buffered' = Append(buffered, e) /\ torn' \in {torn} \cup Cuts /\ file' = file
        BY <3>2, <3>4 DEF WriteFails
      <4>2. buffered' \in Seq(EventType)
        BY <1>1, <4>1
      <4> QED
        BY <1>1, <3>2, <4>1, <4>2, CutsType
    <3> QED
      BY <3>3, <3>4
  <2> QED
    BY <2>1, <2>2
<1> QED
  BY <1>3, <1>4

LEMMA ExitsType ==
  ASSUME Exits
  PROVE  /\ wpc' = "dead" /\ wpc' \in WorkerPcs /\ stdin' \in Seq({"start", "cancel"})
         /\ buffered' \in Seq(EventType) /\ sticky' \in BOOLEAN /\ seq' \in Nat
         /\ outcome' \in Outcomes /\ started' \in BOOLEAN /\ cleanupOk' \in BOOLEAN
         /\ rpc' \in {"off", "reading", "requested"}
         /\ reason' \in {"none", "cancelled", "timed_out"} /\ signalled' \in BOOLEAN
         /\ clock' \in {"none", "running", "passed"}
         /\ signalled' \/ rpc' = "requested" => reason' # "none"
<1>1. buffered' \in Seq(EventType) /\ stdin' \in Seq({"start", "cancel"})
  BY DEF Exits
<1>2. wpc' = "dead" /\ wpc' \in WorkerPcs /\ outcome' \in Outcomes
  BY DEF Exits, WorkerPcs, Outcomes
<1> QED
  BY <1>1, <1>2 DEF Exits

LEMMA SendType ==
  ASSUME stdout \in Seq(MessageType), NEW m \in MessageType, stdout' = Append(stdout, m)
  PROVE  stdout' \in Seq(MessageType)
  OBVIOUS

LEMMA MessageIsTyped ==
  ASSUME NEW type \in MessageTypes
  PROVE  Message(type) \in MessageType
  BY DEF Message, MessageType

(* Death keeps the types, whatever became of the record in the making.     *)
LEMMA DiesType ==
  ASSUME WorkerTypeOK, Dies
  PROVE  WorkerTypeOK'
<1> USE DEF fileVars, diskVars
<1>1. file' \in Seq(EventType) /\ torn' \in Tails
  <2>1. file \in Seq(EventType) /\ torn \in Tails
    BY DEF WorkerTypeOK
  <2>2. ASSUME wpc \in Emitting, file' = Append(file, RecordAt(wpc)) PROVE file' \in Seq(EventType)
    <3>1. RecordAt(wpc) \in EventType
      BY <2>2, RecordType
    <3> HIDE DEF EventType
    <3> QED
      BY <2>1, <2>2, <3>1
  <2> QED
    BY <2>1, <2>2, CutsType DEF Dies
<1>2. Exits /\ UNCHANGED <<conf, exists, workDir, worktree, stdout>>
  BY DEF Dies
<1> QED
  BY <1>1, <1>2, ExitsType DEF WorkerTypeOK

(* Every step of the worker's threads and its clock keeps the types.       *)
LEMMA WorkerKeepsType ==
  ASSUME WorkerTypeOK, WorkerNext
  PROVE  WorkerTypeOK'
<1> USE DEF fileVars, writerVars, journalVars, controlVars, tokenVars, diskVars, pipeVars
<1>1. stdout \in Seq(MessageType)
  BY DEF WorkerTypeOK, MessageType
<1>2. CASE BootRejected
  <2>1. stdout' \in Seq(MessageType)
    BY <1>1, <1>2, MessageIsTyped, SendType DEF BootRejected, MessageTypes, ErrorKinds
  <2> QED
    BY <1>2, <2>1, ExitsType DEF BootRejected, WorkerTypeOK, MessageType
<1>3. CASE BootAccepted
  BY <1>3 DEF BootAccepted, WorkerTypeOK, ConfigType, WorkerPcs, Alive
<1>4. CASE CreateJournal
  BY <1>4 DEF CreateJournal, WorkerTypeOK, WorkerPcs, Alive, Emitting
<1>5. CASE JournalRefused
  <2>1. stdout' \in Seq(MessageType)
    BY <1>1, <1>5, MessageIsTyped, SendType DEF JournalRefused, MessageTypes, ErrorKinds
  <2> QED
    BY <1>5, <2>1, ExitsType DEF JournalRefused, WorkerTypeOK, MessageType
<1>6. CASE SendReady
  <2>1. stdout' \in Seq(MessageType)
    BY <1>1, <1>6, MessageIsTyped, SendType DEF SendReady, MessageTypes
  <2> QED
    BY <1>6, <2>1 DEF SendReady, WorkerTypeOK, MessageType, WorkerPcs, Alive
<1>7. CASE EmitRecord
  <2>1. wpc \in Emitting /\ RecordAt(wpc) \in EventType
    BY <1>7, RecordType DEF EmitRecord
  <2>2. EmitOk(RecordAt(wpc)) \/ EmitRaises(RecordAt(wpc))
    BY <1>7 DEF EmitRecord
  <2>3. wpc' \in WorkerPcs
    BY <1>7, <2>1 DEF EmitRecord, After, WorkerPcs, Alive, Emitting
  <2>4. started' \in BOOLEAN
    BY <1>7 DEF EmitRecord, WorkerTypeOK
  <2>5. UNCHANGED <<conf, outcome, cleanupOk, rpc, reason, signalled, clock,
                    workDir, worktree, stdin>>
    BY <1>7 DEF EmitRecord
  <2> HIDE DEF fileVars, writerVars, journalVars, controlVars, tokenVars, diskVars, pipeVars
  <2>6. /\ file' \in Seq(EventType) /\ buffered' \in Seq(EventType)
        /\ exists' \in BOOLEAN /\ torn' \in Tails /\ sticky' \in BOOLEAN
        /\ seq' \in Nat /\ stdout' \in Seq(MessageType)
    BY <2>1, <2>2, EmitType
  <2> QED
    BY <2>3, <2>4, <2>5, <2>6 DEF WorkerTypeOK
<1>8. CASE Gate
  <2>1. UNCHANGED <<conf, exists, file, torn, buffered, sticky, seq, started, cleanupOk, rpc,
                    clock, workDir, worktree, stdin, stdout>>
    BY <1>8 DEF Gate
  <2>2. CASE CheckRaises
    <3>1. /\ reason' \in {"cancelled", "timed_out"} /\ outcome' = reason'
          /\ signalled' = TRUE
      BY <2>2 DEF CheckRaises, WorkerTypeOK
    <3>2. wpc' \in WorkerPcs
      BY <2>2 DEF CheckRaises, AfterCheck, WorkerPcs, Alive, Emitting
    <3> QED
      BY <2>1, <3>1, <3>2 DEF WorkerTypeOK, Outcomes
  <2>3. CASE ~CheckRaises
    <3>1. UNCHANGED <<reason, signalled, outcome>>
      BY <1>8, <2>3 DEF Gate, CheckPasses
    <3>2. wpc' \in {"launch", "start", "source"}
      BY <1>8, <2>3 DEF Gate
    <3>3. wpc' \in WorkerPcs
      BY <3>2 DEF WorkerPcs, Alive, Emitting
    <3> QED
      BY <2>1, <3>1, <3>3 DEF WorkerTypeOK
  <2> QED
    BY <2>2, <2>3
<1>9. CASE BuildLaunch
  BY <1>9 DEF BuildLaunch, WorkerTypeOK, WorkerPcs, Alive, Emitting, Outcomes
<1>10. CASE MakeWorkDir
  <2>1. workDir' \in BOOLEAN
    BY <1>10 DEF MakeWorkDir, WorkerTypeOK
  <2>2. wpc' \in WorkerPcs /\ outcome' \in Outcomes
    BY <1>10 DEF MakeWorkDir, WorkerTypeOK, WorkerPcs, Alive, Emitting, Outcomes
  <2> QED
    BY <1>10, <2>1, <2>2 DEF MakeWorkDir, WorkerTypeOK
<1>11. CASE SourceEmits
  <2>1. RecordAt("source") \in EventType
    BY RecordType DEF Emitting
  <2>2. EmitOk(RecordAt("source")) \/ EmitRaises(RecordAt("source"))
    BY <1>11 DEF SourceEmits
  <2>3. wpc' \in WorkerPcs
    BY <1>11 DEF SourceEmits, WorkerPcs, Alive, Emitting
  <2>4. UNCHANGED <<conf, outcome, started, cleanupOk, rpc, reason, signalled, clock,
                    workDir, worktree, stdin>>
    BY <1>11 DEF SourceEmits
  <2> HIDE DEF fileVars, writerVars, journalVars, controlVars, tokenVars, diskVars, pipeVars
  <2>5. /\ file' \in Seq(EventType) /\ buffered' \in Seq(EventType)
        /\ exists' \in BOOLEAN /\ torn' \in Tails /\ sticky' \in BOOLEAN
        /\ seq' \in Nat /\ stdout' \in Seq(MessageType)
    BY <2>1, <2>2, EmitType
  <2> QED
    BY <2>3, <2>4, <2>5 DEF WorkerTypeOK
<1>12. CASE SourceEnds
  BY <1>12 DEF SourceEnds, WorkerTypeOK, WorkerPcs, Alive, Emitting, Outcomes
<1>13. CASE Settle
  <2>1. wpc' \in WorkerPcs
    BY <1>13 DEF Settle, WorkerPcs, Alive, Emitting
  <2>2. outcome' \in Outcomes
    <3>1. signalled => reason \in {"cancelled", "timed_out"}
      BY DEF WorkerTypeOK
    <3>2. outcome' \in {outcome, reason} /\ (outcome' = outcome \/ signalled)
      BY <1>13 DEF Settle
    <3> QED
      BY <3>1, <3>2 DEF WorkerTypeOK, Outcomes
  <2> QED
    BY <1>13, <2>1, <2>2 DEF Settle, WorkerTypeOK
<1>14. CASE RemoveOwned
  <2>1. workDir' \in BOOLEAN /\ worktree' \in BOOLEAN
    BY <1>14 DEF RemoveOwned, WorkerTypeOK
  <2>2. cleanupOk' \in BOOLEAN
    BY <1>14 DEF RemoveOwned, NothingLeft
  <2>3. wpc' \in WorkerPcs
    BY <1>14 DEF RemoveOwned, WorkerPcs, Alive, Emitting
  <2> QED
    BY <1>14, <2>1, <2>2, <2>3 DEF RemoveOwned, WorkerTypeOK
<1>15. CASE CloseJournal
  BY <1>15 DEF CloseJournal, WorkerTypeOK, WorkerPcs, Alive
<1>16. CASE SendTerminal
  <2>1. [type |-> "terminal", result |-> BuiltResult] \in MessageType
    BY TerminalForType
       DEF BuiltResult, ResultType, MessageType, MessageTypes, WorkerTypeOK
  <2>2. stdout' \in Seq(MessageType)
    BY <1>1, <1>16, <2>1, SendType DEF SendTerminal
  <2> QED
    BY <1>16, <2>2, ExitsType DEF SendTerminal, WorkerTypeOK, MessageType
<1>17. CASE FatalCleanup
  <2>1. workDir' \in BOOLEAN
    BY <1>17 DEF FatalCleanup, WorkerTypeOK
  <2> QED
    BY <1>17, <2>1 DEF FatalCleanup, WorkerTypeOK, WorkerPcs, Alive
<1>18. CASE FatalSend
  <2>1. stdout' \in Seq(MessageType)
    BY <1>1, <1>18, MessageIsTyped, SendType DEF FatalSend, MessageTypes
  <2> QED
    BY <1>18, <2>1 DEF FatalSend, WorkerTypeOK, MessageType, WorkerPcs, Alive
<1>19. CASE FatalClose
  <2>1. file' \in Seq(EventType) /\ torn' \in Tails
    <3>1. file \o buffered \in Seq(EventType) /\ file \in Seq(EventType)
      BY DEF WorkerTypeOK
    <3>2. torn \in Tails
      BY DEF WorkerTypeOK
    <3> QED
      BY <1>19, <3>1, <3>2, CutsType DEF FatalClose
  <2> QED
    BY <1>19, <2>1, ExitsType DEF FatalClose, WorkerTypeOK
<1>20. CASE CancelReaderTakes
  BY <1>20 DEF CancelReaderTakes, WorkerTypeOK
<1>21. CASE CancelReaderSignals
  BY <1>21 DEF CancelReaderSignals, WorkerTypeOK
<1>22. CASE DeadlinePasses
  BY <1>22 DEF DeadlinePasses, WorkerTypeOK
<1>23. CASE Dies
  BY <1>23, DiesType
<1> QED
  BY <1>2, <1>3, <1>4, <1>5, <1>6, <1>7, <1>8, <1>9, <1>10, <1>11, <1>12, <1>13, <1>14,
     <1>15, <1>16, <1>17, <1>18, <1>19, <1>20, <1>21, <1>22, <1>23
     DEF WorkerNext, WorkerStep

(* What a supervisor step must respect to keep the worker's types.         *)
LEMMA WorkerTypeKept ==
  ASSUME WorkerTypeOK, UNCHANGED <<conf, journalVars, controlVars, tokenVars>>,
         wpc' \in WorkerPcs, workDir' \in BOOLEAN, worktree' \in BOOLEAN,
         stdin' \in Seq({"start", "cancel"}), stdout' \in Seq(MessageType)
  PROVE  WorkerTypeOK'
  BY DEF WorkerTypeOK, MessageType, journalVars, fileVars, writerVars, controlVars, tokenVars

LEMMA WorkerTypeUnchanged ==
  ASSUME WorkerTypeOK, UNCHANGED workerVars
  PROVE  WorkerTypeOK'
  BY DEF WorkerTypeOK, workerVars, journalVars, fileVars, writerVars, controlVars, tokenVars,
     diskVars, pipeVars

LEMMA SendCancelType ==
  ASSUME TypeOK, SendCancelEffect
  PROVE  /\ cancelSent' \in BOOLEAN /\ reaped' \in BOOLEAN
         /\ stdin' \in Seq({"start", "cancel"})
<1>1. /\ cancelSent \in BOOLEAN /\ reaped \in BOOLEAN
      /\ stdin \in Seq({"start", "cancel"})
  BY DEF TypeOK, SupervisorTypeOK, WorkerTypeOK
<1>2. Append(stdin, "cancel") \in Seq({"start", "cancel"})
  BY <1>1
<1> QED
  BY <1>1, <1>2 DEF SendCancelEffect

(* A complete journal ends in a record that states an outcome.             *)
LEMMA CompleteHasOutcome ==
  ASSUME WorkerTypeOK, Read = "complete"
  PROVE  Last(file).status \in EndStatuses /\ Last(file).reason \in Reasons
<1>1. file # <<>> /\ Last(file).kind \in TerminalKinds
  BY DEF Read, ReadState
<1>2. Last(file) \in EventType
  BY <1>1 DEF Last, WorkerTypeOK
<1>3. Last(file).status \in EndStatuses
  BY <1>1, <1>2 DEF EventType, TerminalKinds, StatusesOf, EndStatuses
<1> QED
  BY <1>1, <1>2, <1>3 DEF EventType, CompatibleReasons, Reasons, EndStatuses

LEMMA ResultTypes ==
  ASSUME WorkerTypeOK
  PROVE  /\ FatalResult \in ResultType /\ StartupFailure \in ResultType
         /\ Interrupted \in ResultType /\ ExitResult \in ResultType
<1>1. HasStarted(file) \in BOOLEAN /\ LastCleanupVerified(file) \in BOOLEAN
  BY DEF HasStarted, LastCleanupVerified
<1>2. FatalResult \in ResultType
  BY <1>1 DEF FatalResult, ResultType, EndStatuses, Reasons
<1>3. StartupFailure \in ResultType
  BY DEF StartupFailure, ResultType, EndStatuses, Reasons
<1>4. Interrupted \in ResultType /\ [Interrupted EXCEPT !.run = FALSE] \in ResultType
  BY <1>1 DEF Interrupted, ResultType, EndStatuses, Reasons
<1>5. Read = "complete" => ResultOf(file) \in ResultType
  BY <1>1, CompleteHasOutcome DEF ResultOf, ResultType
<1> QED
  BY <1>2, <1>3, <1>4, <1>5 DEF ExitResult

LEMMA RegisteredType ==
  ASSUME WorkerTypeOK
  PROVE  Registered(exists, file, torn)
           \in EndStatuses \cup {"none", "refused", "malformed", "missing"}
<1>1. Read \in {"missing", "unreadable", "interrupted", "complete", "malformed"}
  BY DEF Read, ReadState
<1>2. CASE Read = "complete"
  BY <1>2, CompleteHasOutcome DEF Registered, Classified, Read
<1>3. CASE Read # "complete"
  BY <1>1, <1>3 DEF Registered, Classified, Read, EndStatuses
<1> QED
  BY <1>2, <1>3

LEMMA SupervisorUnchanged ==
  ASSUME SupervisorTypeOK, UNCHANGED supervisorVars
  PROVE  SupervisorTypeOK'
  BY DEF SupervisorTypeOK, supervisorVars, cancelVars, readerVars, waitVars, endVars

(* The steps of the user's thread, and of the reader.                      *)
LEMMA UserKeepsType ==
  ASSUME TypeOK, User \/ UserSends \/ ReaderTakes
  PROVE  TypeOK'
<1> USE DEF cancelVars, readerVars, waitVars, endVars
<1>0. WorkerTypeOK /\ SupervisorTypeOK
  BY DEF TypeOK
<1>1. CASE User
  <2>1. UNCHANGED workerVars
    BY <1>1 DEF User, UserCloses, UserCancels
  <2>2. /\ cancelRequested \in BOOLEAN /\ stop \in BOOLEAN
        /\ cpc \in {"idle", "closing", "sending"}
    BY <1>0 DEF SupervisorTypeOK
  <2>3. /\ cancelRequested' \in BOOLEAN /\ stop' \in BOOLEAN
        /\ cpc' \in {"idle", "closing", "sending"}
    BY <1>1, <2>2 DEF User, UserCloses, UserCancels
  <2>4. UNCHANGED <<dpc, cancelSent, readerGone, ready, received, surfaced, inWait, grace,
                    hard, reaped, result, registered>>
    BY <1>1 DEF User, UserCloses, UserCancels
  <2>5. SupervisorTypeOK'
    BY <1>0, <2>3, <2>4 DEF SupervisorTypeOK
  <2> QED
    BY <1>0, <2>1, <2>5, WorkerTypeUnchanged DEF TypeOK
<1>2. CASE UserSends
  <2>1. cancelSent' \in BOOLEAN /\ reaped' \in BOOLEAN /\ stdin' \in Seq({"start", "cancel"})
    BY <1>2, SendCancelType DEF UserSends
  <2>2. SupervisorTypeOK'
    BY <1>0, <1>2, <2>1 DEF UserSends, SupervisorTypeOK
  <2>3. WorkerTypeOK'
    BY <1>0, <1>2, <2>1, WorkerTypeKept DEF UserSends, WorkerTypeOK, diskVars, MessageType
  <2> QED
    BY <2>2, <2>3 DEF TypeOK
<1>3. CASE ReaderTakes
  <2>1. /\ stdout \in Seq(MessageType) /\ stdout # <<>>
        /\ Head(stdout) \in MessageType /\ stdout' \in Seq(MessageType)
    <3>1. stdout \in Seq(MessageType) /\ stdout # <<>> /\ stdout' = Tail(stdout)
      BY <1>0, <1>3 DEF ReaderTakes, WorkerTypeOK, MessageType
    <3> QED
      BY <3>1
  <2>2. received' \subseteq MessageType
    BY <1>0, <1>3, <2>1 DEF ReaderTakes, SupervisorTypeOK
  <2>3. surfaced' \in Nat
    <3>1. Len(file) \in Nat /\ surfaced \in Nat
      BY <1>0 DEF WorkerTypeOK, SupervisorTypeOK
    <3> QED
      BY <1>3, <3>1 DEF ReaderTakes
  <2>4. ready' \in BOOLEAN /\ readerGone' \in BOOLEAN
    BY <1>3 DEF ReaderTakes, HalfCharacter
  <2>5. SupervisorTypeOK'
    BY <1>0, <1>3, <2>2, <2>3, <2>4 DEF ReaderTakes, SupervisorTypeOK
  <2>6. WorkerTypeOK'
    BY <1>0, <1>3, <2>1, WorkerTypeKept DEF ReaderTakes, WorkerTypeOK, diskVars
  <2> QED
    BY <2>5, <2>6 DEF TypeOK
<1> QED
  BY <1>1, <1>2, <1>3

(* The clocks and the interrupt.                                           *)
LEMMA TimeKeepsType ==
  ASSUME TypeOK, Clocks \/ Interrupt
  PROVE  TypeOK'
<1> USE DEF cancelVars, readerVars, waitVars, endVars
<1>0. WorkerTypeOK /\ SupervisorTypeOK
  BY DEF TypeOK
<1>1. CASE Clocks
  <2>1. UNCHANGED workerVars
    BY <1>1 DEF Clocks, GraceExpires, HardExpires
  <2>2. SupervisorTypeOK'
    BY <1>0, <1>1 DEF Clocks, GraceExpires, HardExpires, SupervisorTypeOK
  <2> QED
    BY <1>0, <2>1, <2>2, WorkerTypeUnchanged DEF TypeOK
<1>2. CASE Interrupt
  <2>1. cancelSent' \in BOOLEAN /\ reaped' \in BOOLEAN /\ stdin' \in Seq({"start", "cancel"})
    BY <1>2, SendCancelType DEF Interrupt
  <2>2. SupervisorTypeOK'
    BY <1>0, <1>2, <2>1 DEF Interrupt, EnterWait, SupervisorTypeOK, DriverPcs
  <2>3. WorkerTypeOK'
    BY <1>0, <1>2, <2>1, WorkerTypeKept DEF Interrupt, WorkerTypeOK, diskVars, MessageType
  <2> QED
    BY <2>2, <2>3 DEF TypeOK
<1> QED
  BY <1>1, <1>2

(* The driver's steps that leave the worker's variables alone.             *)
LEMMA DriverAloneKeepsType ==
  ASSUME TypeOK,
         \/ Unwound \/ HandshakeExit \/ HandshakeTimeout \/ FollowEnds
         \/ WaitTakesTerminal \/ TakesFatal \/ WaitSeesExit \/ WaitExpires
         \/ Escalated \/ ClassifyRaises \/ Reap
  PROVE  TypeOK'
<1> USE DEF cancelVars, readerVars, waitVars, endVars, DriverPcs
<1>0. WorkerTypeOK /\ SupervisorTypeOK
  BY DEF TypeOK
<1>1. UNCHANGED workerVars
  BY DEF Unwound, HandshakeExit, HandshakeTimeout, FollowEnds, WaitTakesTerminal, TakesFatal,
     WaitSeesExit, WaitExpires, Escalated, ClassifyRaises, Reap
<1>2. SupervisorTypeOK'
  <2>1. CASE Unwound
    BY <1>0, <2>1 DEF Unwound, SupervisorTypeOK
  <2>2. CASE HandshakeExit
    BY <1>0, <2>2 DEF HandshakeExit, SupervisorTypeOK
  <2>3. CASE HandshakeTimeout
    BY <1>0, <2>3 DEF HandshakeTimeout, SupervisorTypeOK
  <2>4. CASE FollowEnds
    BY <1>0, <2>4 DEF FollowEnds, EnterWait, SupervisorTypeOK
  <2>5. CASE WaitTakesTerminal
    <3>1. result' \in ResultType \cup {NoResult}
      BY <1>0, <2>5 DEF WaitTakesTerminal, SupervisorTypeOK, MessageType
    <3> QED
      BY <1>0, <2>5, <3>1 DEF WaitTakesTerminal, SupervisorTypeOK
  <2>6. CASE TakesFatal
    BY <1>0, <2>6, ResultTypes DEF TakesFatal, JournalRaises, SupervisorTypeOK
  <2>7. CASE WaitSeesExit
    BY <1>0, <2>7 DEF WaitSeesExit, SupervisorTypeOK
  <2>8. CASE WaitExpires
    BY <1>0, <2>8 DEF WaitExpires, SupervisorTypeOK
  <2>9. CASE Escalated
    BY <1>0, <2>9 DEF Escalated, SupervisorTypeOK
  <2>10. CASE Reap
    <3>1. Len(file) \in Nat
      BY <1>0 DEF WorkerTypeOK
    <3> QED
      BY <1>0, <2>10, <3>1 DEF Reap, JournalRaises, SupervisorTypeOK
  <2>11. CASE ClassifyRaises
    BY <1>0, <2>11 DEF ClassifyRaises, JournalRaises, SupervisorTypeOK
  <2> QED
    BY <2>1, <2>2, <2>3, <2>4, <2>5, <2>6, <2>7, <2>8, <2>9, <2>10, <2>11
<1> QED
  BY <1>0, <1>1, <1>2, WorkerTypeUnchanged DEF TypeOK

(* The driver's steps that act on the worker, its pipe or its directories. *)
LEMMA DriverActsKeepsType ==
  ASSUME TypeOK,
         \/ Spawn \/ Contain \/ SendStart \/ HandshakeReady \/ FollowStops
         \/ Kill \/ Classify \/ FatalReap \/ Register
  PROVE  TypeOK'
<1> USE DEF cancelVars, readerVars, waitVars, endVars, DriverPcs
<1>0. WorkerTypeOK /\ SupervisorTypeOK
  BY DEF TypeOK
<1>a. /\ wpc \in WorkerPcs /\ workDir \in BOOLEAN /\ worktree \in BOOLEAN
      /\ stdin \in Seq({"start", "cancel"}) /\ stdout \in Seq(MessageType)
  BY <1>0 DEF WorkerTypeOK, MessageType
<1>b. {"boot", "suspended"} \subseteq WorkerPcs
  BY DEF WorkerPcs, Alive
<1>1. CASE Spawn
  <2>1. SupervisorTypeOK'
    BY <1>0, <1>1 DEF Spawn, SupervisorTypeOK
  <2>2. WorkerTypeOK'
    BY <1>0, <1>a, <1>b, <1>1, WorkerTypeKept DEF Spawn, diskVars, pipeVars
  <2> QED
    BY <2>1, <2>2 DEF TypeOK
<1>2. CASE Contain
  <2>1. SupervisorTypeOK'
    BY <1>0, <1>2 DEF Contain, SupervisorTypeOK
  <2>2. WorkerTypeOK'
    BY <1>0, <1>a, <1>b, <1>2, WorkerTypeKept DEF Contain, diskVars, pipeVars
  <2> QED
    BY <2>1, <2>2 DEF TypeOK
<1>3. CASE SendStart
  <2>1. SupervisorTypeOK'
    BY <1>0, <1>3 DEF SendStart, SupervisorTypeOK
  <2>2. stdin' \in Seq({"start", "cancel"})
    BY <1>a, <1>3 DEF SendStart
  <2>3. WorkerTypeOK'
    BY <1>0, <1>a, <1>3, <2>2, WorkerTypeKept DEF SendStart, diskVars
  <2> QED
    BY <2>1, <2>3 DEF TypeOK
<1>4. CASE HandshakeReady
  <2>1. cancelSent' \in BOOLEAN /\ reaped' \in BOOLEAN /\ stdin' \in Seq({"start", "cancel"})
    BY <1>0, <1>a, <1>4, SendCancelType DEF HandshakeReady, SupervisorTypeOK
  <2>2. dpc' \in DriverPcs /\ inWait' \in BOOLEAN
          /\ grace' \in {"off", "armed", "expired"} /\ hard' \in {"off", "armed", "expired"}
    <3>1. CASE conf.live
      BY <1>0, <1>4, <3>1 DEF HandshakeReady, DriverPcs, SupervisorTypeOK
    <3>2. CASE ~conf.live
      BY <1>4, <3>2 DEF HandshakeReady, EnterWait, DriverPcs
    <3> QED
      BY <3>1, <3>2
  <2>3. UNCHANGED <<cpc, cancelRequested, stop, readerVars, endVars>>
    BY <1>4 DEF HandshakeReady
  <2>4. SupervisorTypeOK'
    BY <1>0, <2>1, <2>2, <2>3 DEF SupervisorTypeOK
  <2>5. WorkerTypeOK'
    BY <1>0, <1>a, <1>4, <2>1, WorkerTypeKept DEF HandshakeReady, diskVars
  <2> QED
    BY <2>4, <2>5 DEF TypeOK
<1>5. CASE FollowStops
  <2>1. cancelSent' \in BOOLEAN /\ reaped' \in BOOLEAN /\ stdin' \in Seq({"start", "cancel"})
    BY <1>0, <1>a, <1>5, SendCancelType DEF FollowStops, SupervisorTypeOK
  <2>2. SupervisorTypeOK'
    BY <1>0, <1>5, <2>1 DEF FollowStops, EnterWait, SupervisorTypeOK
  <2>3. WorkerTypeOK'
    BY <1>0, <1>a, <1>5, <2>1, WorkerTypeKept DEF FollowStops, diskVars
  <2> QED
    BY <2>2, <2>3 DEF TypeOK
<1>6. CASE Kill
  BY <1>0, <1>6, DiesType, SupervisorUnchanged DEF Kill, TypeOK
<1>7. CASE Classify
  <2>1. result' \in ResultType \cup {NoResult}
    BY <1>0, <1>7, ResultTypes DEF Classify, SupervisorTypeOK, MessageType
  <2>2. SupervisorTypeOK'
    BY <1>0, <1>7, <2>1 DEF Classify, SupervisorTypeOK
  <2>3. workDir' \in BOOLEAN /\ worktree' \in BOOLEAN
    BY <1>a, <1>7 DEF Classify, PostMortemWorktree, PostMortemWorkDir, diskVars
  <2>4. WorkerTypeOK'
    BY <1>0, <1>a, <1>7, <2>3, WorkerTypeKept DEF Classify, pipeVars
  <2> QED
    BY <2>2, <2>4 DEF TypeOK
<1>8. CASE FatalReap
  <2>1. SupervisorTypeOK'
    BY <1>0, <1>8 DEF FatalReap, SupervisorTypeOK
  <2>2. worktree' \in BOOLEAN
    BY <1>a, <1>8 DEF FatalReap, PostMortemWorktree
  <2>3. WorkerTypeOK'
    BY <1>0, <1>a, <1>8, <2>2, WorkerTypeKept DEF FatalReap, pipeVars
  <2> QED
    BY <2>1, <2>3 DEF TypeOK
<1>9. CASE Register
  <2>1. registered' \in {registered, Registered(exists, file, torn)}
    BY <1>9 DEF Register
  <2>2. SupervisorTypeOK'
    BY <1>0, <1>9, <2>1, RegisteredType DEF Register, SupervisorTypeOK
  <2>3. worktree' \in BOOLEAN
    BY <1>a, <1>9 DEF Register, PostMortemWorktree
  <2>4. WorkerTypeOK'
    BY <1>0, <1>a, <1>9, <2>3, WorkerTypeKept DEF Register, pipeVars
  <2> QED
    BY <2>2, <2>4 DEF TypeOK
<1> QED
  BY <1>1, <1>2, <1>3, <1>4, <1>5, <1>6, <1>7, <1>8, <1>9

LEMMA NextKeepsType == TypeOK /\ [Next]_vars => TypeOK'
<1> SUFFICES ASSUME TypeOK, [Next]_vars PROVE TypeOK'
  OBVIOUS
<1>0. WorkerTypeOK /\ SupervisorTypeOK
  BY DEF TypeOK
<1>1. CASE WorkerNext /\ UNCHANGED supervisorVars
  BY <1>0, <1>1, WorkerKeepsType, SupervisorUnchanged DEF TypeOK
<1>2. CASE User \/ UserSends \/ ReaderTakes
  BY <1>2, UserKeepsType
<1>3. CASE Clocks \/ Interrupt
  BY <1>3, TimeKeepsType
<1>4. CASE Driver
  BY <1>4, DriverAloneKeepsType, DriverActsKeepsType DEF Driver
<1>5. CASE UNCHANGED vars
  BY <1>0, <1>5, WorkerTypeUnchanged, SupervisorUnchanged
     DEF vars, TypeOK
<1> QED
  BY <1>1, <1>2, <1>3, <1>4, <1>5 DEF Next, Rest

(* Every variable keeps its type, and a token that is set keeps a reason:  *)
(* worker.py can always name why it stopped.                               *)
THEOREM TypeCorrect == Spec => []TypeOK
  BY InitType, NextKeepsType, PTL DEF Spec

-----------------------------------------------------------------------------
(* The fatal envelope is the last a worker sends, before the close that is *)
(* its last step; only records with characters of several bytes are cut    *)
(* inside one; and only the live runner is told to stop.                   *)
FatalIsLast ==
  /\ \A i \in DOMAIN stdout : stdout[i].type = "fatal" => wpc \in {"fatalClose", "dead"}
  /\ Received("fatal") => wpc \in {"fatalClose", "dead"}

JournalInv ==
  /\ FatalIsLast
  /\ torn = "split" => conf.unicode
  /\ stop => conf.live

(* What the end of a session rests on: a worker exists from its spawn on;  *)
(* the driver comes to an end only once the worker has, or because a fatal *)
(* worker's journal raised; nothing is settled before the last phase; and  *)
(* a wait() that returned has surfaced the journal and reaped the worker.  *)
LastStep == conf.unicode /\ wpc = "fatalClose"
Settling == {"fatalReap", "reap", "finished", "closed", "raised"}

EndsInv ==
  /\ dpc = "spawn" => wpc = "unborn"
  /\ wpc = "unborn" => dpc \in {"spawn", "raised"}
  /\ dpc \notin Settling => result = NoResult
  /\ dpc \in {"finished", "closed"} => wpc = "dead" \/ (conf.live /\ LastStep)
  /\ dpc = "raised" => wpc \in {"unborn", "dead"} \/ LastStep
  /\ inWait /\ dpc \in {"finished", "closed"} /\ result # NoResult =>
       surfaced = Len(file) /\ reaped /\ wpc = "dead"

(* Only a living worker steps, no step brings it back to before birth, and *)
(* the close of a fatal worker is followed by its end.                     *)
LEMMA WorkerLives ==
  ASSUME WorkerNext
  PROVE  /\ wpc \notin {"unborn", "dead"} /\ wpc' # "unborn"
         /\ wpc = "fatalClose" => wpc' \in {"fatalClose", "dead"}
<1> USE DEF Alive, Emitting
<1>1. CASE Dies \/ BootRejected \/ JournalRefused \/ SendTerminal \/ FatalClose
  BY <1>1 DEF Dies, BootRejected, JournalRefused, SendTerminal, FatalClose, Exits
<1>2. CASE \/ BootAccepted \/ CreateJournal \/ SendReady \/ BuildLaunch \/ MakeWorkDir
           \/ SourceEmits \/ SourceEnds \/ RemoveOwned \/ CloseJournal
           \/ FatalCleanup \/ FatalSend
  BY <1>2 DEF BootAccepted, CreateJournal, SendReady, BuildLaunch, MakeWorkDir, SourceEmits,
     SourceEnds, RemoveOwned, CloseJournal, FatalCleanup, FatalSend
<1>3. CASE EmitRecord
  BY <1>3 DEF EmitRecord, After
<1>4. CASE Gate
  BY <1>4 DEF Gate, CheckRaises, AfterCheck
<1>5. CASE Settle
  BY <1>5 DEF Settle
<1>6. CASE CancelReaderTakes \/ CancelReaderSignals \/ DeadlinePasses
  BY <1>6 DEF CancelReaderTakes, CancelReaderSignals, DeadlinePasses
<1> QED
  BY <1>1, <1>2, <1>3, <1>4, <1>5, <1>6 DEF WorkerNext, WorkerStep

LEMMA InitJournal == Init => JournalInv
  BY DEF Init, WorkerInit, JournalInv, FatalIsLast, Received

(* What a message that is not the fatal one, or that is taken from the     *)
(* front, does to the messages under way.                                  *)
LEMMA OtherMessage ==
  ASSUME stdout \in Seq(MessageType), NEW m \in MessageType, m.type # "fatal",
         stdout' = Append(stdout, m)
  PROVE  \A i \in DOMAIN stdout' : stdout'[i].type = "fatal" =>
           \E j \in DOMAIN stdout : stdout[j].type = "fatal"
<1> SUFFICES ASSUME NEW i \in DOMAIN stdout', stdout'[i].type = "fatal"
             PROVE  \E j \in DOMAIN stdout : stdout[j].type = "fatal"
  OBVIOUS
<1>1. i \in 1..(Len(stdout) + 1) /\ Len(stdout) \in Nat
  OBVIOUS
<1>2. i # Len(stdout) + 1
  OBVIOUS
<1>3. i \in DOMAIN stdout /\ stdout'[i] = stdout[i]
  BY <1>1, <1>2
<1> QED
  BY <1>3

(* No step but a fatal worker's own two comes between the fatal envelope   *)
(* and the end.                                                            *)
LEMMA WorkerKeepsFatalLast ==
  ASSUME TypeOK, FatalIsLast, WorkerNext, UNCHANGED supervisorVars
  PROVE  FatalIsLast'
<1> USE DEF readerVars, supervisorVars, pipeVars
<1>0. stdout \in Seq(MessageType) /\ received' = received
  BY DEF TypeOK, WorkerTypeOK, MessageType
<1>1. CASE BootRejected \/ JournalRefused \/ SendTerminal \/ FatalClose \/ Dies
  <2>1. wpc' = "dead"
    BY <1>1 DEF BootRejected, JournalRefused, SendTerminal, FatalClose, Dies, Exits
  <2> QED
    BY <2>1 DEF FatalIsLast
<1>2. CASE FatalSend
  <2>1. wpc' = "fatalClose"
    BY <1>2 DEF FatalSend
  <2> QED
    BY <2>1 DEF FatalIsLast
<1>3. CASE CancelReaderTakes \/ CancelReaderSignals \/ DeadlinePasses
  BY <1>0, <1>3 DEF CancelReaderTakes, CancelReaderSignals, DeadlinePasses, FatalIsLast, Received
<1>4. CASE /\ wpc \notin {"fatalClose", "dead"}
           /\ stdout' = stdout \/ \E m \in MessageType :
                m.type # "fatal" /\ stdout' = Append(stdout, m)
  <2>1. ~Received("fatal") /\ \A i \in DOMAIN stdout : stdout[i].type # "fatal"
    BY <1>4 DEF FatalIsLast
  <2>2. \A i \in DOMAIN stdout' : stdout'[i].type # "fatal"
    BY <1>0, <1>4, <2>1, OtherMessage
  <2> QED
    BY <1>0, <2>1, <2>2 DEF FatalIsLast, Received
<1>5. CASE \/ BootAccepted \/ CreateJournal \/ Gate \/ BuildLaunch \/ MakeWorkDir
           \/ SourceEnds \/ Settle \/ RemoveOwned \/ CloseJournal \/ FatalCleanup
  <2>1. stdout' = stdout /\ wpc \notin {"fatalClose", "dead"}
    BY <1>5 DEF BootAccepted, CreateJournal, Gate, BuildLaunch, MakeWorkDir, SourceEnds,
       Settle, RemoveOwned, CloseJournal, FatalCleanup
  <2> QED
    BY <1>4, <2>1
<1>6. CASE SendReady
  <2>1. Message("ready") \in MessageType /\ Message("ready").type # "fatal"
    BY MessageIsTyped DEF Message, MessageTypes
  <2> QED
    BY <1>4, <1>6, <2>1 DEF SendReady
<1>7. CASE EmitRecord \/ SourceEmits
  <2>1. Message("event") \in MessageType /\ Message("event").type # "fatal"
    BY MessageIsTyped DEF Message, MessageTypes
  <2>2. \E e : EmitOk(e) \/ EmitRaises(e)
    BY <1>7 DEF EmitRecord, SourceEmits
  <2>3. stdout' \in {stdout, Notified}
    BY <2>2 DEF EmitOk, AppendOk, EmitRaises, AppendFails
  <2>4. wpc \notin {"fatalClose", "dead"}
    BY <1>7 DEF EmitRecord, SourceEmits, Emitting
  <2> QED
    BY <1>4, <2>1, <2>3, <2>4 DEF Notified
<1> QED
  BY <1>1, <1>2, <1>3, <1>5, <1>6, <1>7 DEF WorkerNext, WorkerStep

(* Only a cut may split a character, and only where there is one to split. *)
LEMMA WorkerKeepsSplit ==
  ASSUME torn = "split" => conf.unicode, WorkerNext
  PROVE  (torn' = "split" => conf'.unicode) /\ conf' = conf
<1> USE DEF journalVars, fileVars
<1>1. conf' = conf
  BY DEF WorkerNext, WorkerStep, BootRejected, BootAccepted, CreateJournal, JournalRefused,
     SendReady, EmitRecord, Gate, BuildLaunch, MakeWorkDir, SourceEmits, SourceEnds, Settle,
     RemoveOwned, CloseJournal, SendTerminal, FatalCleanup, FatalSend, FatalClose,
     CancelReaderTakes, CancelReaderSignals, DeadlinePasses, Dies
<1>2. torn' \in {torn, "no"} \cup Cuts
  <2>1. CASE EmitRecord \/ SourceEmits
    BY <2>1 DEF EmitRecord, SourceEmits, EmitOk, EmitRaises, AppendOk, AppendFails, WriteFails,
       Durable
  <2>2. CASE FatalClose \/ Dies
    BY <2>2 DEF FatalClose, Dies
  <2>3. CASE ~(EmitRecord \/ SourceEmits \/ FatalClose \/ Dies)
    BY <2>3 DEF WorkerNext, WorkerStep, BootRejected, BootAccepted, CreateJournal,
       JournalRefused, SendReady, Gate, BuildLaunch, MakeWorkDir, SourceEnds, Settle,
       RemoveOwned, CloseJournal, SendTerminal, FatalCleanup, FatalSend,
       CancelReaderTakes, CancelReaderSignals, DeadlinePasses
  <2> QED
    BY <2>1, <2>2, <2>3
<1> QED
  BY <1>1, <1>2 DEF Cuts

LEMMA NextKeepsJournal == TypeOK /\ EndsInv /\ JournalInv /\ [Next]_vars => JournalInv'
<1> SUFFICES ASSUME TypeOK, EndsInv, JournalInv, [Next]_vars PROVE JournalInv'
  OBVIOUS
<1> USE DEF cancelVars, readerVars, waitVars, endVars, journalVars, fileVars, pipeVars
<1>1. CASE WorkerNext /\ UNCHANGED supervisorVars
  BY <1>1, WorkerKeepsFatalLast, WorkerKeepsSplit DEF JournalInv, supervisorVars
<1>2. CASE User \/ UserSends \/ Clocks \/ Interrupt
  <2>1. UNCHANGED <<conf, journalVars, wpc, received, stdout>>
    <3>1. CASE User \/ Clocks
      BY <3>1 DEF User, UserCloses, UserCancels, Clocks, GraceExpires, HardExpires, workerVars
    <3>2. CASE UserSends
      BY <3>2 DEF UserSends
    <3>3. CASE Interrupt
      BY <3>3 DEF Interrupt
    <3> QED
      BY <1>2, <3>1, <3>2, <3>3
  <2>2. (torn = "split" => conf.unicode)' /\ FatalIsLast'
    BY <2>1 DEF JournalInv, FatalIsLast, Received
  <2>3. stop' => conf.live
    BY <1>2 DEF User, UserCloses, UserCancels, UserSends, Clocks, GraceExpires, HardExpires,
       Interrupt, JournalInv
  <2> QED
    BY <2>1, <2>2, <2>3 DEF JournalInv
<1>3. CASE ReaderTakes
  <2>1. stdout \in Seq(MessageType) /\ stdout # <<>> /\ stdout' = Tail(stdout)
    BY <1>3 DEF ReaderTakes, TypeOK, WorkerTypeOK, MessageType
  <2>2. /\ 1 \in DOMAIN stdout /\ Head(stdout) = stdout[1]
        /\ \A i \in DOMAIN stdout' : i + 1 \in DOMAIN stdout /\ stdout'[i] = stdout[i + 1]
    BY <2>1
  <2>3. received' \subseteq received \cup {Head(stdout)} /\ wpc' = wpc
    BY <1>3 DEF ReaderTakes
  <2>4. FatalIsLast'
    BY <2>2, <2>3 DEF JournalInv, FatalIsLast, Received
  <2> QED
    BY <1>3, <2>4 DEF ReaderTakes, JournalInv
<1>4. CASE Driver
  <2>1. CASE Spawn \/ Contain \/ SendStart
    BY <2>1 DEF Spawn, Contain, SendStart, JournalInv, EndsInv, FatalIsLast, Received
  <2>2. CASE Kill
    <3>1. wpc' = "dead" /\ conf' = conf /\ stop' = stop
      BY <2>2 DEF Kill, Dies, Exits, supervisorVars
    <3>2. torn' = "split" => conf.unicode
      BY <2>2, WorkerKeepsSplit DEF Kill, WorkerNext, JournalInv
    <3> QED
      BY <3>1, <3>2 DEF JournalInv, FatalIsLast
  <2>3. CASE HandshakeReady \/ FollowStops
    BY <2>3 DEF HandshakeReady, FollowStops, EnterWait, JournalInv, FatalIsLast, Received
  <2>4. CASE \/ Unwound \/ HandshakeExit \/ HandshakeTimeout \/ FollowEnds
             \/ WaitTakesTerminal \/ TakesFatal \/ WaitSeesExit \/ WaitExpires
             \/ Escalated \/ ClassifyRaises \/ Reap
    BY <2>4 DEF Unwound, HandshakeExit, HandshakeTimeout, FollowEnds, EnterWait,
       WaitTakesTerminal, TakesFatal, WaitSeesExit, WaitExpires, Escalated, ClassifyRaises,
       Reap, JournalInv, FatalIsLast, Received, workerVars
  <2>5. CASE Classify \/ FatalReap \/ Register
    BY <2>5 DEF Classify, FatalReap, Register, JournalInv, FatalIsLast, Received
  <2> QED
    BY <1>4, <2>1, <2>2, <2>3, <2>4, <2>5 DEF Driver
<1>5. CASE UNCHANGED vars
  BY <1>5 DEF vars, workerVars, supervisorVars, JournalInv, FatalIsLast, Received
<1> QED
  BY <1>1, <1>2, <1>3, <1>4, <1>5 DEF Next, Rest

LEMMA InitEnds == Init => EndsInv
  BY DEF Init, WorkerInit, EndsInv, Settling

LEMMA NextKeepsEnds == EndsInv /\ JournalInv /\ [Next]_vars => EndsInv'
<1> SUFFICES ASSUME EndsInv, JournalInv, [Next]_vars PROVE EndsInv'
  OBVIOUS
<1> USE DEF cancelVars, readerVars, waitVars, endVars, supervisorVars, journalVars, fileVars,
        writerVars, Settling, LastStep
<1>1. CASE WorkerNext /\ UNCHANGED supervisorVars
  BY <1>1, WorkerLives, WorkerKeepsSplit DEF EndsInv, JournalInv
<1>2. CASE User
  BY <1>2 DEF User, UserCloses, UserCancels, EndsInv, workerVars
<1>3. CASE UserSends
  BY <1>3 DEF UserSends, SendCancelEffect, EndsInv
<1>4. CASE ReaderTakes
  BY <1>4 DEF ReaderTakes, EndsInv
<1>5. CASE Clocks
  BY <1>5 DEF Clocks, GraceExpires, HardExpires, EndsInv, workerVars
<1>6. CASE Interrupt
  BY <1>6 DEF Interrupt, EnterWait, EndsInv
<1>7. CASE Driver
  <2>1. CASE Spawn \/ Contain \/ SendStart \/ Unwound
    BY <2>1 DEF Spawn, Contain, SendStart, Unwound, WorkerGone, EndsInv, workerVars
  <2>2. CASE HandshakeReady \/ HandshakeExit \/ HandshakeTimeout
    BY <2>2 DEF HandshakeReady, HandshakeExit, HandshakeTimeout, EnterWait, EndsInv, workerVars
  <2>3. CASE FollowEnds \/ FollowStops
    BY <2>3 DEF FollowEnds, FollowStops, EnterWait, EndsInv, workerVars
  <2>4. CASE WaitTakesTerminal \/ WaitSeesExit \/ WaitExpires
    BY <2>4 DEF WaitTakesTerminal, WaitSeesExit, WaitExpires, EndsInv, workerVars
  <2>5. CASE TakesFatal
    <3>1. wpc \in {"fatalClose", "dead"} /\ result = NoResult /\ UNCHANGED workerVars
      BY <2>5 DEF TakesFatal, EndsInv, JournalInv, FatalIsLast
    <3>2. Read = "unreadable" => conf.unicode
      BY DEF Read, ReadState, JournalInv
    <3> QED
      BY <2>5, <3>1, <3>2 DEF TakesFatal, JournalRaises, EndsInv, JournalInv, workerVars
  <2>6. CASE Kill
    BY <2>6 DEF Kill, Dies, Exits, EndsInv
  <2>7. CASE Escalated
    BY <2>7 DEF Escalated, EndsInv, workerVars
  <2>8. CASE Classify
    BY <2>8 DEF Classify, EndsInv
  <2>9. CASE ClassifyRaises
    BY <2>9 DEF ClassifyRaises, JournalRaises, EndsInv, workerVars
  <2>10. CASE FatalReap
    BY <2>10 DEF FatalReap, WorkerGone, EndsInv
  <2>11. CASE Reap
    BY <2>11 DEF Reap, WorkerGone, JournalRaises, EndsInv, workerVars
  <2>12. CASE Register
    BY <2>12 DEF Register, EndsInv
  <2> QED
    BY <1>7, <2>1, <2>2, <2>3, <2>4, <2>5, <2>6, <2>7, <2>8, <2>9, <2>10, <2>11, <2>12
       DEF Driver
<1>8. CASE UNCHANGED vars
  BY <1>8 DEF vars, workerVars, EndsInv
<1> QED
  BY <1>1, <1>2, <1>3, <1>4, <1>5, <1>6, <1>7, <1>8 DEF Next, Rest

(* The inductive invariant.                                                *)
IInv == TypeOK /\ JournalInv /\ EndsInv

LEMMA InductiveInvariant == Spec => []IInv
<1>1. Init => IInv
  BY InitType, InitJournal, InitEnds DEF IInv
<1>2. IInv /\ [Next]_vars => IInv'
  BY NextKeepsType, NextKeepsJournal, NextKeepsEnds DEF IInv
<1> QED
  BY <1>1, <1>2, PTL DEF Spec

(* No driver ends, by a result or by an exception, while the worker it     *)
(* spawned lives: kill ladder and reap come first on every path of         *)
(* worker_process.py but the one on which the journal cannot be decoded,   *)
(* and there the worker has one step left.                                 *)
THEOREM NoWorkerIsLeft == Spec => []NoWorkerLeft
<1>1. IInv => NoWorkerLeft
  BY DEF IInv, EndsInv, LastStep, NoWorkerLeft, Over
<1> QED
  BY <1>1, InductiveInvariant, PTL

(* When wait() has returned a result, every record of the journal was      *)
(* surfaced and the worker reaped, whichever notifications and envelopes   *)
(* were lost.                                                              *)
THEOREM WaitShowsEverything == Spec => []WaitSurfacesJournal
<1>1. IInv => WaitSurfacesJournal
  BY DEF IInv, EndsInv, WaitSurfacesJournal
<1> QED
  BY <1>1, InductiveInvariant, PTL

(* The supervisor removes a directory of the session only once its worker  *)
(* is dead.                                                                *)
THEOREM NoPostMortemRace == Spec => PostMortemAfterDeath
<1>1. IInv /\ [Next]_vars
        => [dpc' # dpc /\ diskVars' # diskVars => wpc = "dead"]_vars
  <2> SUFFICES ASSUME IInv, [Next]_vars, dpc' # dpc, diskVars' # diskVars
               PROVE  wpc = "dead"
    OBVIOUS
  <2> USE DEF workerVars, diskVars
  <2>1. CASE WorkerNext /\ UNCHANGED supervisorVars
    BY <2>1 DEF supervisorVars
  <2>2. CASE User \/ UserSends \/ ReaderTakes \/ Clocks \/ Interrupt
    BY <2>2 DEF User, UserCloses, UserCancels, UserSends, ReaderTakes, Clocks, GraceExpires,
       HardExpires, Interrupt
  <2>3. CASE Driver
    <3>1. CASE \/ Spawn \/ Contain \/ SendStart \/ Unwound
               \/ HandshakeReady \/ HandshakeExit \/ HandshakeTimeout
               \/ FollowEnds \/ FollowStops
               \/ WaitTakesTerminal \/ TakesFatal \/ WaitSeesExit \/ WaitExpires
               \/ Escalated \/ ClassifyRaises \/ Reap
      BY <3>1 DEF Spawn, Contain, SendStart, Unwound, HandshakeReady, HandshakeExit,
         HandshakeTimeout, FollowEnds, FollowStops, WaitTakesTerminal, TakesFatal,
         WaitSeesExit, WaitExpires, Escalated, ClassifyRaises,
         Reap
    <3>2. CASE Kill
      BY <3>2 DEF Kill, supervisorVars
    <3>3. CASE Classify \/ FatalReap
      BY <3>3 DEF Classify, FatalReap, WorkerGone
    <3>4. CASE Register
      BY <3>4 DEF Register, IInv, EndsInv
    <3> QED
      BY <2>3, <3>1, <3>2, <3>3, <3>4 DEF Driver
  <2>4. CASE UNCHANGED vars
    BY <2>4 DEF vars, supervisorVars
  <2> QED
    BY <2>1, <2>2, <2>3, <2>4 DEF Next, Rest
<1> QED
  BY <1>1, InductiveInvariant, PTL DEF Spec, PostMortemAfterDeath

-----------------------------------------------------------------------------
(* The scan of a journal.                                                  *)

(* Induction over the numbers, as a statement about a set: the library's   *)
(* own theorem takes a predicate.  It comes from the well-founded order.   *)
LEMMA SetInduction ==
  ASSUME NEW T \in SUBSET Nat, 0 \in T, \A n \in T : n + 1 \in T
  PROVE  T = Nat
<1> DEFINE R == OpToRel(<, Nat)
<1>1. SUFFICES ASSUME Nat \ T # {} PROVE FALSE
  OBVIOUS
<1>2. IsWellFoundedOn(R, Nat)
  BY NatLessThanWellFounded
<1>3. \A x, y \in Nat : <<y, x>> \in R <=> y < x
  BY DEF OpToRel
<1> HIDE DEF R
<1>4. PICK x \in Nat \ T : \A y \in Nat \ T : ~(<<y, x>> \in R)
  BY <1>1, <1>2, WFMin
<1>5. x # 0 /\ x - 1 \in Nat
  OBVIOUS
<1>6. x - 1 \in T
  <2>1. x - 1 < x /\ x \in Nat
    BY <1>5
  <2> QED
    BY <1>3, <1>4, <1>5, <2>1
<1>7. x = (x - 1) + 1
  BY <1>5
<1> QED
  BY <1>6, <1>7

(* The largest number of a set that holds its upper bound.                 *)
LEMMA MaxOfTop ==
  ASSUME NEW n \in Nat, NEW s \in SUBSET (1..(n + 1)), n + 1 \in s
  PROVE  Max(s) = n + 1
<1>1. \A y \in s : n + 1 >= y /\ y \in Int
  OBVIOUS
<1>2. \A x \in s : (\A y \in s : x >= y) => x = n + 1
  BY <1>1
<1> HIDE DEF Max
<1>3. Max(s) \in s /\ \A y \in s : Max(s) >= y
  BY <1>1, Zenon DEF Max
<1> QED
  BY <1>2, <1>3

(* The left fold of the community modules is a recursive function over the *)
(* sets of positions; these are its equation and its value.                *)
Folded(f, s, records) ==
  IF s = {} THEN ScanStart ELSE ScanStep(f[s \ {Max(s)}], records[Max(s)])
IsScan(f, records, S) == f = [s \in SUBSET S |-> Folded(f, s, records)]
ScanFun(records, S) == CHOOSE f : IsScan(f, records, S)

(* The scan names its step through a CHOOSE over one value.                *)
Taken(sc, e) == CHOOSE next \in {ScanStep(s, e) : s \in {sc}} : TRUE
(* The choice among one value is that value.                               *)
LEMMA TakenIsStep == \A sc, e : Taken(sc, e) = ScanStep(sc, e)
<1> TAKE sc, e
<1>1. {ScanStep(s, e) : s \in {sc}} = {ScanStep(sc, e)}
  OBVIOUS
<1> QED
  BY <1>1, Zenon DEF Taken

(* The fold behind Scan, and the function it chooses.                      *)
LEMMA ScanIsTaken ==
  ASSUME NEW records
  PROVE  Scan(records) =
    (CHOOSE f : f = [s \in SUBSET DOMAIN records |->
        IF s = {} THEN ScanStart ELSE Taken(f[s \ {Max(s)}], records[Max(s)])])[DOMAIN records]
  BY Zenon DEF Scan, FoldLeft, MapThenFoldSet, Taken

(* The scan as the value of that function.                                 *)
LEMMA ScanIsFun ==
  ASSUME NEW records
  PROVE  Scan(records) = ScanFun(records, DOMAIN records)[DOMAIN records]
<1>1. Scan(records) =
    (CHOOSE f : f = [s \in SUBSET DOMAIN records |->
        IF s = {} THEN ScanStart ELSE ScanStep(f[s \ {Max(s)}], records[Max(s)])])[DOMAIN records]
  BY ScanIsTaken, TakenIsStep, Zenon
<1> QED
  BY <1>1, Zenon DEF ScanFun, IsScan, Folded

(* That function exists for every number of records, so that the choice    *)
(* satisfies its equation ...                                              *)
LEMMA ScanFunExists ==
  ASSUME NEW records, NEW n \in Nat
  PROVE  \E f : IsScan(f, records, 1..n)
<1> DEFINE T == {k \in Nat : \E f : IsScan(f, records, 1..k)}
<1>1. 0 \in T
  <2> DEFINE f == [s \in SUBSET (1..0) |-> ScanStart]
  <2>1. f = [s \in SUBSET (1..0) |-> Folded(f, s, records)]
    BY DEF Folded
  <2> QED
    BY <2>1 DEF IsScan
<1>2. ASSUME NEW k \in T PROVE k + 1 \in T
  <2>1. PICK f : IsScan(f, records, 1..k)
    OBVIOUS
  <2> DEFINE g == [s \in SUBSET (1..(k + 1)) |->
                     IF k + 1 \in s THEN ScanStep(f[s \ {k + 1}], records[k + 1]) ELSE f[s]]
  <2>2. k \in Nat /\ \A s \in SUBSET (1..(k + 1)) : k + 1 \notin s => s \in SUBSET (1..k)
    OBVIOUS
  <2>3. ASSUME NEW s \in SUBSET (1..(k + 1)) PROVE g[s] = Folded(g, s, records)
    <3>1. CASE k + 1 \in s
      <4>1. Max(s) = k + 1
        BY <2>2, <3>1, MaxOfTop
      <4>2. s \ {k + 1} \in SUBSET (1..(k + 1)) /\ k + 1 \notin s \ {k + 1}
        OBVIOUS
      <4>3. g[s \ {k + 1}] = f[s \ {k + 1}]
        BY <4>2
      <4>4. g[s] = ScanStep(f[s \ {k + 1}], records[k + 1])
        BY <3>1
      <4> HIDE DEF g
      <4> QED
        BY <3>1, <4>1, <4>3, <4>4 DEF Folded
    <3>2. CASE k + 1 \notin s
      <4>1. s \in SUBSET (1..k) /\ g[s] = f[s]
        BY <2>2, <3>2
      <4>2. f[s] = Folded(f, s, records)
        BY <2>1, <4>1, Zenon DEF IsScan
      <4>3. s \ {Max(s)} \in SUBSET (1..(k + 1)) /\ k + 1 \notin s \ {Max(s)}
        BY <3>2
      <4>4. g[s \ {Max(s)}] = f[s \ {Max(s)}]
        BY <4>3
      <4> HIDE DEF g
      <4> QED
        BY <4>1, <4>2, <4>4 DEF Folded
    <3> QED
      BY <3>1, <3>2
  <2>4. g = [s \in SUBSET (1..(k + 1)) |-> g[s]]
    OBVIOUS
  <2> HIDE DEF g
  <2>5. IsScan(g, records, 1..(k + 1))
    BY <2>3, <2>4, Zenon DEF IsScan
  <2> QED
    BY <2>2, <2>5
<1> HIDE DEF T
<1>3. T \in SUBSET Nat
  BY DEF T
<1>4. T = Nat
  BY <1>1, <1>2, <1>3, SetInduction
<1> QED
  BY <1>4 DEF T

LEMMA ScanFunIs ==
  ASSUME NEW records, NEW n \in Nat
  PROVE  IsScan(ScanFun(records, 1..n), records, 1..n)
  BY ScanFunExists, Zenon DEF ScanFun

(* ... and takes the records one by one.                                   *)
LEMMA ScanFunSteps ==
  ASSUME NEW records, NEW n \in Nat, NEW f, IsScan(f, records, 1..n)
  PROVE  /\ f[1..0] = ScanStart
         /\ \A k \in Nat : k < n => f[1..(k + 1)] = ScanStep(f[1..k], records[k + 1])
<1>1. \A s \in SUBSET (1..n) : f[s] = Folded(f, s, records)
  BY Zenon DEF IsScan
<1>2. f[1..0] = ScanStart
  <2>1. 1..0 = {} /\ 1..0 \in SUBSET (1..n)
    OBVIOUS
  <2>2. f[1..0] = Folded(f, 1..0, records)
    BY <1>1, <2>1, Zenon
  <2> QED
    BY <2>1, <2>2, Zenon DEF Folded
<1>3. ASSUME NEW k \in Nat, k < n
      PROVE  f[1..(k + 1)] = ScanStep(f[1..k], records[k + 1])
  <2>1. 1..(k + 1) \in SUBSET (1..n) /\ 1..(k + 1) # {} /\ k + 1 \in 1..(k + 1)
    BY <1>3
  <2>2. Max(1..(k + 1)) = k + 1
    BY <2>1, MaxOfTop
  <2>3. (1..(k + 1)) \ {k + 1} = 1..k
    OBVIOUS
  <2>4. f[1..(k + 1)] = Folded(f, 1..(k + 1), records)
    BY <1>1, <2>1, Zenon
  <2> QED
    BY <2>1, <2>2, <2>3, <2>4, Zenon DEF Folded
<1> QED
  BY <1>2, <1>3

(* The two equations of the scan every other lemma rests on: of no record, *)
(* and of one record more.                                                 *)
LEMMA ScanEmpty == Scan(<<>>) = ScanStart
<1>1. DOMAIN <<>> = 1..0
  OBVIOUS
<1>2. Scan(<<>>) = ScanFun(<<>>, 1..0)[1..0]
  BY <1>1, ScanIsFun, Zenon
<1> QED
  BY <1>2, ScanFunIs, ScanFunSteps

LEMMA ScanAppend ==
  ASSUME NEW S, NEW records \in Seq(S), NEW e \in S
  PROVE  Scan(Append(records, e)) = ScanStep(Scan(records), e)
<1> DEFINE n == Len(records)
           longer == Append(records, e)
           f == ScanFun(records, 1..n)
           g == ScanFun(longer, 1..(n + 1))
<1>1. /\ n \in Nat /\ n + 1 \in Nat /\ DOMAIN records = 1..n /\ DOMAIN longer = 1..(n + 1)
      /\ longer[n + 1] = e /\ \A k \in Nat : k < n => longer[k + 1] = records[k + 1]
  OBVIOUS
<1>2. Scan(records) = f[1..n] /\ Scan(longer) = g[1..(n + 1)]
  BY <1>1, ScanIsFun, Zenon
<1> HIDE DEF n, longer
<1>3. IsScan(f, records, 1..n) /\ IsScan(g, longer, 1..(n + 1))
  BY <1>1, ScanFunIs
<1> HIDE DEF f, g
<1>4. /\ f[1..0] = ScanStart
      /\ \A k \in Nat : k < n => f[1..(k + 1)] = ScanStep(f[1..k], records[k + 1])
  BY <1>1, <1>3, ScanFunSteps
<1>5. /\ g[1..0] = ScanStart
      /\ \A k \in Nat : k < n + 1 => g[1..(k + 1)] = ScanStep(g[1..k], longer[k + 1])
  BY <1>1, <1>3, ScanFunSteps
<1>6. f[1..n] = g[1..n]
  <2> DEFINE T == {k \in Nat : k <= n => f[1..k] = g[1..k]}
  <2>1. 0 \in T
    BY <1>4, <1>5
  <2>2. ASSUME NEW k \in T PROVE k + 1 \in T
    <3>1. k \in Nat /\ k + 1 \in Nat
      OBVIOUS
    <3>2. ASSUME k + 1 <= n PROVE f[1..(k + 1)] = g[1..(k + 1)]
      <4>1. k < n /\ k < n + 1 /\ f[1..k] = g[1..k]
        BY <1>1, <3>1, <3>2
      <4>2. longer[k + 1] = records[k + 1]
        BY <1>1, <3>1, <4>1
      <4>3. f[1..(k + 1)] = ScanStep(f[1..k], records[k + 1])
        BY <1>4, <3>1, <4>1
      <4>4. g[1..(k + 1)] = ScanStep(g[1..k], longer[k + 1])
        BY <1>5, <3>1, <4>1
      <4> QED
        BY <4>1, <4>2, <4>3, <4>4, Zenon
    <3> QED
      BY <3>1, <3>2
  <2>3. T \in SUBSET Nat
    OBVIOUS
  <2> HIDE DEF T
  <2>4. T = Nat
    BY <2>1, <2>2, <2>3, SetInduction
  <2> QED
    BY <1>1, <2>4 DEF T
<1>7. g[1..(n + 1)] = ScanStep(g[1..n], e)
  BY <1>1, <1>5
<1> QED
  BY <1>2, <1>6, <1>7 DEF longer

(* A sequence with one element more.                                       *)
LEMMA AppendFacts ==
  ASSUME NEW S, NEW f \in Seq(S), NEW e \in S
  PROVE  /\ Append(f, e) \in Seq(S) /\ Append(f, e) # <<>> /\ Len(f) \in Nat
         /\ Len(Append(f, e)) = Len(f) + 1 /\ DOMAIN f = 1..Len(f)
         /\ DOMAIN Append(f, e) = 1..(Len(f) + 1)
         /\ Append(f, e)[Len(f) + 1] = e /\ Last(Append(f, e)) = e
         /\ \A i \in 1..Len(f) : Append(f, e)[i] = f[i]
  BY DEF Last

(* Induction over the sequences, again as a statement about a set.         *)
LEMMA SeqInduction ==
  ASSUME NEW S, NEW T \in SUBSET Seq(S), <<>> \in T,
         \A f \in T, e \in S : Append(f, e) \in T
  PROVE  T = Seq(S)
<1> DEFINE N == {n \in Nat : \A f \in Seq(S) : Len(f) = n => f \in T}
<1>1. 0 \in N
  <2>1. ASSUME NEW f \in Seq(S), Len(f) = 0 PROVE f = <<>>
    BY <2>1
  <2> QED
    BY <2>1
<1>2. ASSUME NEW n \in N PROVE n + 1 \in N
  <2>1. n \in Nat
    OBVIOUS
  <2>2. ASSUME NEW f \in Seq(S), Len(f) = n + 1 PROVE f \in T
    <3> DEFINE g == [i \in 1..n |-> f[i]]
    <3>1. /\ \A i \in 1..(n + 1) : f[i] \in S
          /\ n + 1 \in 1..(n + 1) /\ \A i \in 1..n : i \in 1..(n + 1)
      BY <2>1, <2>2
    <3>2. g \in Seq(S) /\ Len(g) = n
      BY <2>1, <3>1
    <3>3. Append(g, f[n + 1]) = f
      <4> DEFINE h == Append(g, f[n + 1])
      <4>1. f[n + 1] \in S /\ \A i \in 1..n : g[i] = f[i]
        BY <3>1
      <4>2. /\ h \in Seq(S) /\ Len(h) = n + 1 /\ h[n + 1] = f[n + 1]
            /\ \A i \in 1..n : h[i] = g[i]
        BY <3>2, <4>1, AppendFacts
      <4> HIDE DEF g, h
      <4>3. \A i \in 1..(n + 1) : h[i] = f[i]
        <5>1. \A i \in 1..(n + 1) : i = n + 1 \/ i \in 1..n
          BY <2>1
        <5> QED
          BY <4>1, <4>2, <5>1
      <4>4. f \in Seq(S) /\ Len(h) = Len(f)
        BY <2>2, <4>2
      <4>5. h = f
        BY <2>2, <4>2, <4>3, <4>4, SeqEqual
      <4> QED
        BY <4>5 DEF h
    <3>4. g \in T /\ f[n + 1] \in S
      BY <3>1, <3>2
    <3> HIDE DEF g
    <3> QED
      BY <3>3, <3>4
  <2> QED
    BY <2>1, <2>2
<1> HIDE DEF N
<1>3. N = Nat
  <2>1. N \in SUBSET Nat
    BY DEF N
  <2> QED
    BY <1>1, <1>2, <2>1, SetInduction
<1>4. ASSUME NEW f \in Seq(S) PROVE f \in T
  <2>1. Len(f) \in N
    BY <1>3
  <2> QED
    BY <2>1 DEF N
<1> QED
  BY <1>4

-----------------------------------------------------------------------------

(* What the scan computes has its type.                                    *)
Flags(sc) ==
  /\ sc.ok \in BOOLEAN /\ sc.started \in BOOLEAN /\ sc.cancelled \in BOOLEAN
  /\ sc.active \in BOOLEAN /\ sc.attempted \in BOOLEAN /\ sc.last \in BOOLEAN
  /\ sc.ended \in BOOLEAN /\ sc.status \in Statuses

(* The cancellation requests of a stream.                                  *)
CancelRequests(f) == {i \in DOMAIN f : f[i].kind = "session.cancel_requested"}

(* What the flags say of the records.                                      *)
Counts(f) ==
  /\ Scan(f).next = Len(f)
  /\ Scan(f).started <=> HasStarted(f)
  /\ Scan(f).cancelled <=> CancelRequests(f) # {}
  /\ Scan(f).last <=> LastCleanupVerified(f)

(* What an accepted scan says of the records.                              *)
Numbered(f) == \A i \in DOMAIN f : f[i].seq = i - 1
StartsOnce(f) == \A i, j \in StartedAt(f) : i = j
Bound(f) == \A j \in DOMAIN f : f[j].bound <=> \E i \in StartedAt(f) : i <= j
Ended(f) == Scan(f).ended <=> f # <<>> /\ Last(f).kind \in TerminalKinds
EndsWell(f) ==
  Scan(f).ended =>
    /\ Scan(f).status = Last(f).status
    /\ Last(f).kind = "session.completed" => ~Scan(f).active /\ Scan(f).last
    /\ Last(f).kind = "session.cancelled" /\ Scan(f).started
         => ~Scan(f).active /\ Scan(f).last
    /\ Last(f).status = "cleanup_failed" => Scan(f).active \/ ~Scan(f).last

(* All of it.                                                              *)
Accepted(f) == Numbered(f) /\ StartsOnce(f) /\ Bound(f) /\ Ended(f) /\ EndsWell(f)

(* Exactly the terminal records carry the status of an end.                *)
LEMMA TerminalStatus ==
  ASSUME NEW e \in EventType
  PROVE  /\ e.kind \in TerminalKinds <=> e.status # "none"
         /\ e.kind \in TerminalKinds <=> e.status \in EndStatuses
         /\ e.kind \in TerminalKinds => e.reason \in CompatibleReasons[e.status]
         /\ e.status \in EndStatuses \cup {"none"}
         /\ e.bound \in BOOLEAN /\ e.verified \in BOOLEAN /\ e.seq \in Nat
  BY DEF EventType, StatusesOf, TerminalKinds, EndStatuses

(* The fields of a scan one record further.                                *)
LEMMA StepFields ==
  ASSUME NEW sc, NEW e, NEW r, r = ScanStep(sc, e)
  PROVE  /\ r.next = sc.next + 1
         /\ r.started <=> (sc.started \/ e.kind = "session.started")
         /\ r.cancelled <=> (sc.cancelled \/ e.kind = "session.cancel_requested")
         /\ r.active <=> (e.kind # "cleanup.completed" /\ (sc.active \/ e.kind = "cleanup.started"))
         /\ r.attempted <=> (sc.attempted \/ e.kind = "cleanup.started")
         /\ r.last = LastVerified(sc, e)
         /\ r.ended <=> (sc.ended \/ e.kind \in TerminalKinds)
         /\ r.ok <=> /\ sc.ok /\ ~sc.ended /\ e.seq = sc.next
                     /\ e.kind # "session.started" => e.bound = sc.started
                     /\ Admits(sc, e)
<1>1. /\ r.next = sc.next + 1
      /\ r.started = (sc.started \/ e.kind = "session.started")
      /\ r.cancelled = (sc.cancelled \/ e.kind = "session.cancel_requested")
      /\ r.active = (e.kind # "cleanup.completed" /\ (sc.active \/ e.kind = "cleanup.started"))
      /\ r.attempted = (sc.attempted \/ e.kind = "cleanup.started")
      /\ r.last = LastVerified(sc, e)
      /\ r.ended = (sc.ended \/ e.kind \in TerminalKinds)
      /\ r.ok = (/\ sc.ok /\ ~sc.ended /\ e.seq = sc.next
                 /\ e.kind # "session.started" => e.bound = sc.started
                 /\ Admits(sc, e))
  BY DEF ScanStep
<1>2. r.started <=> (sc.started \/ e.kind = "session.started")
  BY <1>1, Zenon
<1>3. r.cancelled <=> (sc.cancelled \/ e.kind = "session.cancel_requested")
  BY <1>1, Zenon
<1>4. r.active <=> (e.kind # "cleanup.completed" /\ (sc.active \/ e.kind = "cleanup.started"))
  BY <1>1, Zenon
<1>5. r.attempted <=> (sc.attempted \/ e.kind = "cleanup.started")
  BY <1>1, Zenon
<1>6. r.ended <=> (sc.ended \/ e.kind \in TerminalKinds)
  BY <1>1, Zenon
<1>7. r.ok <=> /\ sc.ok /\ ~sc.ended /\ e.seq = sc.next
               /\ e.kind # "session.started" => e.bound = sc.started
               /\ Admits(sc, e)
  BY <1>1, Zenon
<1> QED
  BY <1>1, <1>2, <1>3, <1>4, <1>5, <1>6, <1>7

(* The status of a scan one record further.                                *)
LEMMA StepStatus ==
  ASSUME NEW sc, NEW e
  PROVE  /\ e.kind = "session.started" => ScanStep(sc, e).status = "starting"
         /\ e.kind = "session.status_changed" => ScanStep(sc, e).status = "running"
         /\ e.kind \in TerminalKinds => ScanStep(sc, e).status = e.status
         /\ e.kind \notin TerminalKinds \cup {"session.started", "session.status_changed"}
              => ScanStep(sc, e).status = sc.status
  BY DEF ScanStep, TerminalKinds

(* What a record that was let through says of the scan before it.          *)
LEMMA AdmitsMeans ==
  ASSUME NEW sc, NEW e, Admits(sc, e)
  PROVE  /\ e.kind = "session.started" => ~sc.started /\ e.bound
         /\ e.kind \in TerminalKinds =>
              /\ e.kind = "session.completed" => ~sc.active /\ sc.last
              /\ e.kind = "session.cancelled" /\ sc.started => ~sc.active /\ sc.last
              /\ e.status = "cleanup_failed" => sc.attempted /\ ~(~sc.active /\ sc.last)
<1>1. CASE e.kind = "session.started"
  BY <1>1 DEF Admits, TerminalKinds
<1>2. CASE e.kind \in TerminalKinds
  BY <1>2 DEF Admits, TerminalKinds
<1> QED
  BY <1>1, <1>2

(* A step of the scan keeps the types of its fields.                       *)
LEMMA StepFlags ==
  ASSUME NEW sc, Flags(sc), NEW e \in EventType
  PROVE  Flags(ScanStep(sc, e))
<1>1. e.verified \in BOOLEAN /\ (e.kind \in TerminalKinds => e.status \in Statuses)
  BY TerminalStatus DEF Statuses
<1>2. ScanStep(sc, e).status \in Statuses
  BY <1>1 DEF ScanStep, Flags, Statuses
<1>3. ScanStep(sc, e).last \in BOOLEAN
  BY <1>1 DEF ScanStep, Flags, LastVerified
<1>4. ScanStep(sc, e).ok \in BOOLEAN
  BY DEF ScanStep
<1> QED
  BY <1>2, <1>3, <1>4 DEF ScanStep, Flags

(* Where the session starts, one record further.                           *)
LEMMA AppendStartedAt ==
  ASSUME NEW f \in Seq(EventType), NEW e \in EventType
  PROVE  StartedAt(Append(f, e)) =
           StartedAt(f) \cup IF e.kind = "session.started" THEN {Len(f) + 1} ELSE {}
<1> DEFINE g == Append(f, e)
<1>1. /\ Len(f) \in Nat /\ DOMAIN f = 1..Len(f) /\ DOMAIN g = 1..(Len(f) + 1)
      /\ g[Len(f) + 1] = e /\ \A i \in 1..Len(f) : g[i] = f[i]
  BY AppendFacts
<1> HIDE DEF g
<1>2. StartedAt(g) =
           StartedAt(f) \cup IF e.kind = "session.started" THEN {Len(f) + 1} ELSE {}
  BY <1>1 DEF StartedAt
<1> QED
  BY <1>2 DEF g

(* The flags keep saying what they say of the records.                     *)
LEMMA AppendCounts ==
  ASSUME NEW f \in Seq(EventType), NEW e \in EventType, Counts(f), Flags(Scan(f))
  PROVE  Counts(Append(f, e))
<1> DEFINE g == Append(f, e)
<1>1. /\ Len(f) \in Nat /\ DOMAIN f = 1..Len(f) /\ DOMAIN g = 1..(Len(f) + 1)
      /\ g[Len(f) + 1] = e /\ \A i \in 1..Len(f) : g[i] = f[i]
      /\ Len(g) = Len(f) + 1
  BY AppendFacts
<1>2. Scan(g) = ScanStep(Scan(f), e)
  BY ScanAppend
<1>f. Flags(Scan(f))
  OBVIOUS
<1>3. StartedAt(g) =
           StartedAt(f) \cup IF e.kind = "session.started" THEN {Len(f) + 1} ELSE {}
  BY AppendStartedAt
<1> HIDE DEF g
<1>4. Scan(g).next = Len(g)
  BY <1>1, <1>2, StepFields DEF Counts
<1>5. Scan(g).started <=> HasStarted(g)
  BY <1>2, <1>3, StepFields DEF Counts, HasStarted
<1>6. Scan(g).cancelled <=> CancelRequests(g) # {}
  <2>1. CancelRequests(g) = CancelRequests(f)
           \cup IF e.kind = "session.cancel_requested" THEN {Len(f) + 1} ELSE {}
    BY <1>1 DEF CancelRequests
  <2> QED
    BY <1>2, <2>1, StepFields DEF Counts
<1>7. Scan(g).last <=> LastCleanupVerified(g)
  <2>1. Scan(g).last = IF e.kind = "cleanup.completed" THEN e.verified ELSE Scan(f).last
    BY <1>2, StepFields DEF LastVerified
  <2>2. CASE e.kind = "cleanup.completed"
    <3>1. LastCleanupVerified(g) <=> e.verified
      BY <1>1, <2>2 DEF LastCleanupVerified
    <3> QED
      BY <2>1, <2>2, <3>1, TerminalStatus
  <2>3. CASE e.kind # "cleanup.completed"
    <3>1. LastCleanupVerified(g) <=> LastCleanupVerified(f)
      BY <1>1, <2>3 DEF LastCleanupVerified
    <3> QED
      BY <2>1, <2>3, <3>1 DEF Counts
  <2> QED
    BY <2>2, <2>3
<1> QED
  BY <1>4, <1>5, <1>6, <1>7 DEF Counts, g

(* So does the acceptance.                                                 *)
LEMMA AppendAccepted ==
  ASSUME NEW f \in Seq(EventType), NEW e \in EventType, Counts(f), Flags(Scan(f)),
         Accepted(f), Scan(Append(f, e)).ok
  PROVE  Accepted(Append(f, e))
<1> DEFINE g == Append(f, e)
           sc == Scan(f)
<1>1. /\ Len(f) \in Nat /\ DOMAIN f = 1..Len(f) /\ DOMAIN g = 1..(Len(f) + 1)
      /\ g[Len(f) + 1] = e /\ \A i \in 1..Len(f) : g[i] = f[i]
      /\ Len(g) = Len(f) + 1 /\ Last(g) = e /\ g # <<>>
  BY AppendFacts
<1>2. Scan(g) = ScanStep(sc, e)
  BY ScanAppend
<1>3. StartedAt(g) =
           StartedAt(f) \cup IF e.kind = "session.started" THEN {Len(f) + 1} ELSE {}
  BY AppendStartedAt
<1>4. /\ ~sc.ended /\ e.seq = sc.next
      /\ e.kind # "session.started" => e.bound = sc.started
      /\ Admits(sc, e)
  BY <1>2, StepFields
<1>a. /\ e.kind = "session.started" => ~sc.started /\ e.bound
      /\ e.kind \in TerminalKinds =>
           /\ e.kind = "session.completed" => ~sc.active /\ sc.last
           /\ e.kind = "session.cancelled" /\ sc.started => ~sc.active /\ sc.last
           /\ e.status = "cleanup_failed" => sc.attempted /\ ~(~sc.active /\ sc.last)
  BY <1>4, AdmitsMeans
<1>f. Flags(sc)
  OBVIOUS
<1> HIDE DEF g, sc
<1>5. Numbered(g)
  BY <1>1, <1>4 DEF Numbered, Accepted, Counts, sc
<1>6. StartsOnce(g)
  <2>1. e.kind = "session.started" => StartedAt(f) = {}
    BY <1>a DEF Counts, HasStarted, sc
  <2> QED
    BY <1>3, <2>1 DEF StartsOnce, Accepted
<1>7. Bound(g)
  <2>1. StartedAt(f) \subseteq 1..Len(f)
    BY <1>1 DEF StartedAt
  <2>2. e.bound <=> \E i \in StartedAt(g) : i <= Len(f) + 1
    <3>1. CASE e.kind = "session.started"
      <4>1. e.bound
        BY <1>a, <3>1
      <4>2. Len(f) + 1 \in StartedAt(g) /\ Len(f) + 1 <= Len(f) + 1
        BY <1>1, <1>3, <3>1
      <4> QED
        BY <4>1, <4>2, Zenon
    <3>2. CASE e.kind # "session.started"
      <4>1. e.bound <=> StartedAt(f) # {}
        BY <1>4, <3>2, TerminalStatus DEF Counts, HasStarted, sc, Flags
      <4> QED
        BY <1>1, <1>3, <2>1, <3>2, <4>1
    <3> QED
      BY <3>1, <3>2
  <2>3. ASSUME NEW j \in 1..Len(f)
        PROVE  g[j].bound <=> \E i \in StartedAt(g) : i <= j
    <3>1. f[j].bound <=> \E i \in StartedAt(f) : i <= j
      BY <1>1 DEF Bound, Accepted
    <3>2. Len(f) + 1 > j
      BY <1>1
    <3> QED
      BY <1>1, <1>3, <3>1, <3>2
  <2> QED
    BY <1>1, <2>2, <2>3 DEF Bound
<1>8. Ended(g)
  BY <1>1, <1>2, <1>4, StepFields DEF Ended
<1>9. EndsWell(g)
  <2> SUFFICES ASSUME Scan(g).ended PROVE EndsWell(g)
    BY DEF EndsWell
  <2>1. e.kind \in TerminalKinds
    BY <1>1, <1>8 DEF Ended
  <2>2. e.kind \notin {"session.started", "session.status_changed", "cleanup.started",
                       "cleanup.completed", "session.cancel_requested",
                       "cleanup.not_required"}
    BY <2>1 DEF TerminalKinds
  <2>3. /\ Scan(g).status = e.status /\ (Scan(g).active <=> sc.active)
        /\ Scan(g).last = sc.last /\ (Scan(g).started <=> sc.started)
    <3>1. Scan(g).status = e.status
      BY <1>2, <2>1, StepStatus
    <3>2. Scan(g).last = sc.last
      BY <1>2, <2>2, StepFields DEF LastVerified
    <3>3. (Scan(g).active <=> sc.active) /\ (Scan(g).started <=> sc.started)
      BY <1>2, <2>2, StepFields
    <3> QED
      BY <3>1, <3>2, <3>3
  <2>4. /\ e.kind = "session.completed" => ~sc.active /\ sc.last
        /\ e.kind = "session.cancelled" /\ sc.started => ~sc.active /\ sc.last
        /\ e.status = "cleanup_failed" => sc.attempted /\ ~(~sc.active /\ sc.last)
    BY <1>a, <2>1
  <2> QED
    BY <1>1, <2>3, <2>4 DEF EndsWell
<1> QED
  BY <1>5, <1>6, <1>7, <1>8, <1>9 DEF Accepted, g

(* What the scan of events.py computes, of every stream: its flags are the *)
(* facts of the records that the readers look for one by one.              *)
Means(f) == Flags(Scan(f)) /\ Counts(f) /\ (Scan(f).ok => Accepted(f))

(* It holds of every stream of records.                                    *)
THEOREM ScanMeans == \A f \in Seq(EventType) : Means(f)
<1> DEFINE T == {f \in Seq(EventType) : Means(f)}
<1>1. <<>> \in T
  <2>1. Scan(<<>>) = ScanStart
    BY ScanEmpty
  <2>2. Flags(ScanStart)
    BY DEF ScanStart, Flags, Statuses
  <2>3. Counts(<<>>)
    BY <2>1 DEF Counts, ScanStart, HasStarted, StartedAt, CancelRequests, LastCleanupVerified
  <2>4. Accepted(<<>>)
    BY <2>1 DEF Accepted, ScanStart, Numbered, StartsOnce, Bound, Ended, EndsWell, StartedAt
  <2>5. <<>> \in Seq(EventType)
    OBVIOUS
  <2> QED
    BY <2>1, <2>2, <2>3, <2>4, <2>5 DEF Means
<1>2. ASSUME NEW f \in T, NEW e \in EventType PROVE Append(f, e) \in T
  <2>1. f \in Seq(EventType) /\ Means(f)
    OBVIOUS
  <2>2. Append(f, e) \in Seq(EventType) /\ Scan(Append(f, e)) = ScanStep(Scan(f), e)
    BY <2>1, AppendFacts, ScanAppend
  <2>3. Flags(Scan(Append(f, e)))
    BY <2>1, <2>2, StepFlags DEF Means
  <2>4. Counts(Append(f, e))
    BY <2>1, AppendCounts DEF Means
  <2>5. ASSUME Scan(Append(f, e)).ok PROVE Accepted(Append(f, e))
    <3>1. Scan(f).ok
      BY <2>2, <2>5, StepFields
    <3> QED
      BY <2>1, <2>5, <3>1, AppendAccepted DEF Means
  <2> QED
    BY <2>2, <2>3, <2>4, <2>5 DEF Means
<1>3. T \in SUBSET Seq(EventType)
  OBVIOUS
<1> HIDE DEF T
<1>4. T = Seq(EventType)
  BY <1>1, <1>2, <1>3, SeqInduction
<1> QED
  BY <1>4 DEF T

-----------------------------------------------------------------------------
(* The streams: the scan against the documented contract.                  *)

(* At most one element, by counting and by comparing.                      *)
LEMMA AtMostOne ==
  ASSUME NEW n \in Nat, NEW s \in SUBSET (1..n)
  PROVE  Cardinality(s) <= 1 <=> \A x, y \in s : x = y
<1>0. IsFiniteSet(s)
  <2>1. IsFiniteSet(1..n)
    BY FS_Interval
  <2> QED
    BY <2>1, FS_Subset
<1>1. Cardinality(s) \in Nat
  BY <1>0, FS_CardinalityType
<1>2. (Cardinality(s) = 0 <=> s = {}) /\ (Cardinality(s) = 1 <=> \E x : s = {x})
  BY <1>0, FS_EmptySet, FS_Singleton
<1>3. Cardinality(s) <= 1 <=> Cardinality(s) = 0 \/ Cardinality(s) = 1
  BY <1>1
<1>4. (\A x, y \in s : x = y) <=> s = {} \/ \E x : s = {x}
  <2>1. ASSUME \A x, y \in s : x = y, s # {} PROVE \E x : s = {x}
    <3>1. PICK x : x \in s
      BY <2>1
    <3>2. s = {x}
      BY <2>1, <3>1
    <3> QED
      BY <3>2
  <2> QED
    BY <2>1
<1> QED
  BY <1>2, <1>3, <1>4

(* A set of positions has a last one.                                      *)
LEMMA Greatest ==
  ASSUME NEW n \in Nat, NEW s \in SUBSET (1..n), s # {}
  PROVE  \E m \in s : \A j \in s : j <= m
<1> DEFINE T == {k \in Nat : \A t \in SUBSET (1..k) : t # {} =>
                    \E m \in t : \A j \in t : j <= m}
<1>1. 0 \in T
  <2>1. 1..0 = {}
    OBVIOUS
  <2> QED
    BY <2>1
<1>2. ASSUME NEW k \in T PROVE k + 1 \in T
  <2>1. k \in Nat
    OBVIOUS
  <2>2. ASSUME NEW t \in SUBSET (1..(k + 1)), t # {}
        PROVE  \E m \in t : \A j \in t : j <= m
    <3>1. CASE k + 1 \in t
      <4>1. \A j \in t : j <= k + 1
        BY <2>1
      <4> QED
        BY <3>1, <4>1
    <3>2. CASE k + 1 \notin t
      <4>1. t \in SUBSET (1..k)
        BY <2>1, <3>2
      <4> QED
        BY <2>2, <4>1
    <3> QED
      BY <3>1, <3>2
  <2> QED
    BY <2>1, <2>2
<1>3. T \in SUBSET Nat
  OBVIOUS
<1> HIDE DEF T
<1>4. T = Nat
  BY <1>1, <1>2, <1>3, SetInduction
<1> QED
  BY <1>4 DEF T

(* The positions before a record do not change when one is added ...       *)
LEMMA BeforeEarlier ==
  ASSUME NEW f \in Seq(EventType), NEW e \in EventType, NEW K,
         NEW i \in 1..(Len(f) + 1)
  PROVE  Before(Append(f, e), i, K) = Before(f, i, K)
<1> DEFINE g == Append(f, e)
<1>1. /\ Len(f) \in Nat /\ DOMAIN f = 1..Len(f) /\ DOMAIN g = 1..(Len(f) + 1)
      /\ \A j \in 1..Len(f) : g[j] = f[j]
  BY AppendFacts
<1> HIDE DEF g
<1>2. Before(g, i, K) = Before(f, i, K)
  BY <1>1 DEF Before, Pos
<1> QED
  BY <1>2 DEF g

(* ... and the added one is the last of those before the next.             *)
LEMMA BeforeNext ==
  ASSUME NEW f \in Seq(EventType), NEW e \in EventType, NEW K
  PROVE  Before(Append(f, e), Len(f) + 2, K) =
           Before(f, Len(f) + 1, K) \cup IF e.kind \in K THEN {Len(f) + 1} ELSE {}
<1> DEFINE g == Append(f, e)
<1>1. /\ Len(f) \in Nat /\ DOMAIN f = 1..Len(f) /\ DOMAIN g = 1..(Len(f) + 1)
      /\ g[Len(f) + 1] = e /\ \A i \in 1..Len(f) : g[i] = f[i]
  BY AppendFacts
<1> HIDE DEF g
<1>2. Before(g, Len(f) + 2, K) =
        Before(f, Len(f) + 1, K) \cup IF e.kind \in K THEN {Len(f) + 1} ELSE {}
  BY <1>1 DEF Before, Pos
<1> QED
  BY <1>2 DEF g

(* Such positions are positions.                                           *)
LEMMA BeforeIsIn ==
  ASSUME NEW f \in Seq(EventType), NEW i \in Nat, NEW K
  PROVE  /\ Before(f, i, K) \in SUBSET (1..Len(f)) /\ Len(f) \in Nat
         /\ \A j \in Before(f, i, K) : j < i /\ j \in 1..Len(f) /\ f[j].kind \in K
         /\ i = Len(f) + 1 => Before(f, i, K) = Pos(f, K)
  BY DEF Before, Pos

(* The verdict of the last cleanup.completed before i.                     *)
VerifiedLast(f, i) ==
  \E j \in Before(f, i, {"cleanup.completed"}) :
    /\ f[j].verified
    /\ \A k \in Before(f, i, {"cleanup.completed"}) : k <= j

(* What the scan's flags say of the positions of the stream.               *)
Reads(f) ==
  LET n == Len(f) + 1
  IN  /\ Scan(f).started <=> Before(f, n, {"session.started"}) # {}
      /\ Scan(f).cancelled <=> Before(f, n, {"session.cancel_requested"}) # {}
      /\ Scan(f).active <=> CycleOpen(f, n)
      /\ Scan(f).attempted <=> Before(f, n, {"cleanup.started"}) # {}
      /\ Scan(f).last <=> VerifiedLast(f, n)
      /\ Scan(f).ended <=> Before(f, n, TerminalKinds) # {}
      /\ Scan(f).status = StatusBefore(f, n)

(* The status in force is the target of the last mark.                     *)
LEMMA StatusBeforeIs ==
  ASSUME NEW f \in Seq(EventType), NEW i \in Nat, NEW m \in Before(f, i, StatusMarks),
         \A j \in Before(f, i, StatusMarks) : j <= m
  PROVE  StatusBefore(f, i) = TargetStatus(f[m])
<1> DEFINE marks == Before(f, i, StatusMarks)
           Top(k) == \A j \in marks : j <= k
           c == CHOOSE k \in marks : Top(k)
<1>1. \A j \in marks : j \in Nat
  BY BeforeIsIn
<1>2. \A k \in marks : Top(k) => k = m
  BY <1>1
<1>3. c \in marks /\ Top(c)
  BY Zenon
<1>4. c = m
  BY <1>2, <1>3, Zenon
<1>5. marks # {}
  OBVIOUS
<1>6. StatusBefore(f, i) = IF marks = {} THEN "created" ELSE TargetStatus(f[c])
  BY Zenon DEF StatusBefore
<1> QED
  BY <1>4, <1>5, <1>6

(* The status in force, in a stream longer by one record.                  *)
LEMMA StatusBeforeAppend ==
  ASSUME NEW f \in Seq(EventType), NEW e \in EventType
  PROVE  /\ \A i \in 1..(Len(f) + 1) : StatusBefore(Append(f, e), i) = StatusBefore(f, i)
         /\ e.kind \in StatusMarks =>
              StatusBefore(Append(f, e), Len(f) + 2) = TargetStatus(e)
         /\ e.kind \notin StatusMarks =>
              StatusBefore(Append(f, e), Len(f) + 2) = StatusBefore(f, Len(f) + 1)
<1> DEFINE g == Append(f, e)
           n == Len(f) + 1
<1>1. /\ g \in Seq(EventType) /\ Len(f) \in Nat /\ Len(g) = n
      /\ g[n] = e /\ \A i \in 1..Len(f) : g[i] = f[i]
  BY AppendFacts
<1>2. /\ \A i \in 1..n : Before(g, i, StatusMarks) = Before(f, i, StatusMarks)
      /\ Before(g, Len(f) + 2, StatusMarks) = Before(f, n, StatusMarks)
           \cup IF e.kind \in StatusMarks THEN {n} ELSE {}
  <2>1. \A i \in 1..(Len(f) + 1) :
          Before(Append(f, e), i, StatusMarks) = Before(f, i, StatusMarks)
    BY BeforeEarlier, Zenon
  <2>2. Before(Append(f, e), Len(f) + 2, StatusMarks) = Before(f, Len(f) + 1, StatusMarks)
          \cup IF e.kind \in StatusMarks THEN {Len(f) + 1} ELSE {}
    BY BeforeNext, Zenon
  <2> QED
    BY <2>1, <2>2, Zenon
<1>3. n \in Nat /\ Len(f) + 2 \in Nat /\ \A i \in 1..n : i \in Nat
  BY <1>1
<1> HIDE DEF g
<1>4. ASSUME NEW i \in Nat, NEW k \in Nat, k <= n,
             Before(g, i, StatusMarks) = Before(f, k, StatusMarks)
      PROVE  StatusBefore(g, i) = StatusBefore(f, k)
  <2>1. CASE Before(f, k, StatusMarks) = {}
    BY <1>4, <2>1 DEF StatusBefore
  <2>2. CASE Before(f, k, StatusMarks) # {}
    <3>1. Before(f, k, StatusMarks) \in SUBSET (1..Len(f))
      BY BeforeIsIn
    <3>2. PICK m \in Before(f, k, StatusMarks) : \A j \in Before(f, k, StatusMarks) : j <= m
      BY <1>1, <2>2, <3>1, Greatest
    <3>3. StatusBefore(f, k) = TargetStatus(f[m])
      BY <3>2, StatusBeforeIs
    <3>4. StatusBefore(g, i) = TargetStatus(g[m])
      BY <1>1, <1>4, <3>2, StatusBeforeIs
    <3>5. f[m] = g[m]
      BY <1>1, <3>1
    <3> QED
      BY <3>3, <3>4, <3>5
  <2> QED
    BY <2>1, <2>2
<1>5. \A i \in 1..n : StatusBefore(g, i) = StatusBefore(f, i)
  <2> TAKE i \in 1..n
  <2>1. i \in Nat /\ i <= n
    BY <1>3
  <2> QED
    BY <1>2, <1>4, <2>1
<1>6. ASSUME e.kind \in StatusMarks
      PROVE  StatusBefore(g, Len(f) + 2) = TargetStatus(e)
  <2>1. n \in Before(g, Len(f) + 2, StatusMarks)
    BY <1>2, <1>6
  <2>2. \A j \in Before(g, Len(f) + 2, StatusMarks) : j <= n
    <3>1. \A j \in Before(g, Len(f) + 2, StatusMarks) : j \in 1..Len(g)
      BY <1>1, <1>3, BeforeIsIn
    <3> QED
      BY <1>1, <3>1
  <2> HIDE DEF n
  <2>3. StatusBefore(g, Len(f) + 2) = TargetStatus(g[n])
    BY <1>1, <1>3, <2>1, <2>2, StatusBeforeIs
  <2> QED
    BY <1>1, <2>3
<1>7. ASSUME e.kind \notin StatusMarks
      PROVE  StatusBefore(g, Len(f) + 2) = StatusBefore(f, n)
  <2>1. Before(g, Len(f) + 2, StatusMarks) = Before(f, n, StatusMarks)
    BY <1>2, <1>7
  <2>2. n <= n
    BY <1>3
  <2> QED
    BY <1>3, <1>4, <2>1, <2>2
<1> QED
  <2> DEFINE s == Append(f, e)
  <2>1. g = s
    BY DEF g
  <2> HIDE DEF s
  <2>2. /\ \A i \in 1..n : StatusBefore(s, i) = StatusBefore(f, i)
        /\ e.kind \in StatusMarks => StatusBefore(s, Len(f) + 2) = TargetStatus(e)
        /\ e.kind \notin StatusMarks =>
             StatusBefore(s, Len(f) + 2) = StatusBefore(f, n)
    BY <1>5, <1>6, <1>7, <2>1, Zenon
  <2> QED
    BY <2>2, Zenon DEF s

(* The cleanup cycles, in a stream longer by one record.                   *)
LEMMA CycleAppend ==
  ASSUME NEW f \in Seq(EventType), NEW e \in EventType
  PROVE  /\ \A i \in 1..(Len(f) + 1) : CycleOpen(Append(f, e), i) <=> CycleOpen(f, i)
         /\ \A i \in 1..(Len(f) + 1) : VerifiedLast(Append(f, e), i) <=> VerifiedLast(f, i)
         /\ CycleOpen(Append(f, e), Len(f) + 2) <=>
              /\ e.kind # "cleanup.completed"
              /\ CycleOpen(f, Len(f) + 1) \/ e.kind = "cleanup.started"
         /\ VerifiedLast(Append(f, e), Len(f) + 2) <=>
              IF e.kind = "cleanup.completed" THEN e.verified
              ELSE VerifiedLast(f, Len(f) + 1)
<1> DEFINE g == Append(f, e)
           S(h, i) == Before(h, i, {"cleanup.started"})
           C(h, i) == Before(h, i, {"cleanup.completed"})
<1>1. /\ g \in Seq(EventType) /\ Len(f) \in Nat
      /\ g[Len(f) + 1] = e /\ \A i \in 1..Len(f) : g[i] = f[i]
  BY AppendFacts
<1>2. /\ \A i \in 1..(Len(f) + 1) : S(g, i) = S(f, i) /\ C(g, i) = C(f, i)
      /\ S(g, Len(f) + 2) = S(f, Len(f) + 1)
           \cup IF e.kind = "cleanup.started" THEN {Len(f) + 1} ELSE {}
      /\ C(g, Len(f) + 2) = C(f, Len(f) + 1)
           \cup IF e.kind = "cleanup.completed" THEN {Len(f) + 1} ELSE {}
  <2>1. \A i \in 1..(Len(f) + 1) :
          Before(Append(f, e), i, {"cleanup.started"}) = Before(f, i, {"cleanup.started"})
    BY BeforeEarlier, Zenon
  <2>2. \A i \in 1..(Len(f) + 1) :
          Before(Append(f, e), i, {"cleanup.completed"})
            = Before(f, i, {"cleanup.completed"})
    BY BeforeEarlier, Zenon
  <2>3. Before(Append(f, e), Len(f) + 2, {"cleanup.started"})
          = Before(f, Len(f) + 1, {"cleanup.started"})
              \cup IF e.kind \in {"cleanup.started"} THEN {Len(f) + 1} ELSE {}
    BY BeforeNext, Zenon
  <2>4. Before(Append(f, e), Len(f) + 2, {"cleanup.completed"})
          = Before(f, Len(f) + 1, {"cleanup.completed"})
              \cup IF e.kind \in {"cleanup.completed"} THEN {Len(f) + 1} ELSE {}
    BY BeforeNext, Zenon
  <2> QED
    BY <2>1, <2>2, <2>3, <2>4
<1>3. \A i \in Nat : S(f, i) \in SUBSET (1..Len(f)) /\ C(f, i) \in SUBSET (1..Len(f))
  BY BeforeIsIn
<1>4. /\ \A h, i : CycleOpen(h, i) <=> \E j \in S(h, i) : \A k \in C(h, i) : k < j
      /\ \A h, i : VerifiedLast(h, i) <=>
           \E j \in C(h, i) : h[j].verified /\ \A k \in C(h, i) : k <= j
  BY DEF CycleOpen, VerifiedLast
<1> HIDE DEF g, S, C
<1>5. ASSUME NEW i \in 1..(Len(f) + 1)
      PROVE  /\ CycleOpen(g, i) <=> CycleOpen(f, i)
             /\ VerifiedLast(g, i) <=> VerifiedLast(f, i)
  <2>1. S(g, i) = S(f, i) /\ C(g, i) = C(f, i) /\ C(f, i) \in SUBSET (1..Len(f))
    BY <1>1, <1>2, <1>3
  <2>2. \A j \in C(f, i) : g[j] = f[j]
    BY <1>1, <2>1
  <2> QED
    BY <1>4, <2>1, <2>2
<1>6. /\ S(f, Len(f) + 1) \in SUBSET (1..Len(f)) /\ C(f, Len(f) + 1) \in SUBSET (1..Len(f))
      /\ Len(f) + 2 \in Nat
  BY <1>1, <1>3
<1>7. CycleOpen(g, Len(f) + 2) <=>
        /\ e.kind # "cleanup.completed"
        /\ CycleOpen(f, Len(f) + 1) \/ e.kind = "cleanup.started"
  BY <1>1, <1>2, <1>4, <1>6
<1>8. VerifiedLast(g, Len(f) + 2) <=>
        IF e.kind = "cleanup.completed" THEN e.verified ELSE VerifiedLast(f, Len(f) + 1)
  <2>1. CASE e.kind = "cleanup.completed"
    <3>1. VerifiedLast(g, Len(f) + 2) <=> e.verified
      BY <1>1, <1>2, <1>4, <1>6, <2>1
    <3> QED
      BY <2>1, <3>1
  <2>2. CASE e.kind # "cleanup.completed"
    <3>1. C(g, Len(f) + 2) = C(f, Len(f) + 1)
      BY <1>2, <2>2
    <3>2. \A j \in C(f, Len(f) + 1) : g[j] = f[j]
      BY <1>1, <1>6
    <3>3. VerifiedLast(g, Len(f) + 2) <=> VerifiedLast(f, Len(f) + 1)
      BY <1>4, <3>1, <3>2
    <3> QED
      BY <2>2, <3>3
  <2> QED
    BY <2>1, <2>2
<1> QED
  <2> DEFINE s == Append(f, e)
  <2>1. g = s
    BY DEF g
  <2> HIDE DEF s
  <2>2. /\ \A i \in 1..(Len(f) + 1) : CycleOpen(s, i) <=> CycleOpen(f, i)
        /\ \A i \in 1..(Len(f) + 1) : VerifiedLast(s, i) <=> VerifiedLast(f, i)
        /\ CycleOpen(s, Len(f) + 2) <=>
             /\ e.kind # "cleanup.completed"
             /\ CycleOpen(f, Len(f) + 1) \/ e.kind = "cleanup.started"
        /\ VerifiedLast(s, Len(f) + 2) <=>
             IF e.kind = "cleanup.completed" THEN e.verified
             ELSE VerifiedLast(f, Len(f) + 1)
    BY <1>5, <1>7, <1>8, <2>1, Zenon
  <2> QED
    BY <2>2, Zenon DEF s

(* The flags keep saying what they say of the positions.                   *)
LEMMA ReadsAppend ==
  ASSUME NEW f \in Seq(EventType), NEW e \in EventType, Reads(f), Flags(Scan(f))
  PROVE  Reads(Append(f, e))
<1> DEFINE g == Append(f, e)
           sc == Scan(f)
           r == Scan(g)
           n == Len(f) + 1
<1>1. g \in Seq(EventType) /\ Len(f) \in Nat /\ Len(g) = n /\ r = ScanStep(sc, e)
  BY AppendFacts, ScanAppend
<1>2. /\ r.started <=> (sc.started \/ e.kind = "session.started")
      /\ r.cancelled <=> (sc.cancelled \/ e.kind = "session.cancel_requested")
      /\ r.active <=> (e.kind # "cleanup.completed" /\ (sc.active \/ e.kind = "cleanup.started"))
      /\ r.attempted <=> (sc.attempted \/ e.kind = "cleanup.started")
      /\ r.last = IF e.kind = "cleanup.completed" THEN e.verified ELSE sc.last
      /\ r.ended <=> (sc.ended \/ e.kind \in TerminalKinds)
  BY <1>1, StepFields DEF LastVerified
<1>3. /\ sc.started <=> Before(f, n, {"session.started"}) # {}
      /\ sc.cancelled <=> Before(f, n, {"session.cancel_requested"}) # {}
      /\ sc.active <=> CycleOpen(f, n)
      /\ sc.attempted <=> Before(f, n, {"cleanup.started"}) # {}
      /\ sc.last <=> VerifiedLast(f, n)
      /\ sc.ended <=> Before(f, n, TerminalKinds) # {}
      /\ sc.status = StatusBefore(f, n)
  BY Zenon DEF Reads
<1>4. ASSUME NEW K PROVE Before(g, n + 1, K) # {} <=> Before(f, n, K) # {} \/ e.kind \in K
  <2>1. Before(Append(f, e), Len(f) + 2, K) =
          Before(f, Len(f) + 1, K) \cup IF e.kind \in K THEN {Len(f) + 1} ELSE {}
    BY BeforeNext, Zenon
  <2>2. n + 1 = Len(f) + 2
    BY <1>1
  <2> QED
    BY <2>1, <2>2
<1>5. /\ CycleOpen(g, n + 1) <=>
           (e.kind # "cleanup.completed" /\ (CycleOpen(f, n) \/ e.kind = "cleanup.started"))
      /\ VerifiedLast(g, n + 1) <=>
           IF e.kind = "cleanup.completed" THEN e.verified ELSE VerifiedLast(f, n)
  <2>1. n + 1 = Len(f) + 2
    BY <1>1
  <2> QED
    BY <2>1, CycleAppend
<1>6. r.status = StatusBefore(g, n + 1)
  <2>1. n + 1 = Len(f) + 2
    BY <1>1
  <2>2. CASE e.kind \in StatusMarks
    <3>1. StatusBefore(g, n + 1) = TargetStatus(e)
      BY <2>1, <2>2, StatusBeforeAppend
    <3>2. r.status = TargetStatus(e)
      BY <1>1, <2>2, StepStatus DEF StatusMarks, TargetStatus, TerminalKinds
    <3> QED
      BY <3>1, <3>2
  <2>3. CASE e.kind \notin StatusMarks
    <3>1. StatusBefore(g, n + 1) = StatusBefore(f, n)
      BY <2>1, <2>3, StatusBeforeAppend
    <3>2. r.status = sc.status
      BY <1>1, <2>3, StepStatus DEF StatusMarks
    <3> QED
      BY <1>3, <3>1, <3>2
  <2> QED
    BY <2>2, <2>3
<1>7. e.verified \in BOOLEAN /\ sc.last \in BOOLEAN
  BY TerminalStatus DEF Flags
<1>8. \A K : Before(g, n + 1, K) # {} <=> Before(f, n, K) # {} \/ e.kind \in K
  BY <1>4
<1> HIDE DEF g, sc, r, n
<1>9. /\ r.started <=> Before(g, n + 1, {"session.started"}) # {}
      /\ r.cancelled <=> Before(g, n + 1, {"session.cancel_requested"}) # {}
      /\ r.attempted <=> Before(g, n + 1, {"cleanup.started"}) # {}
      /\ r.ended <=> Before(g, n + 1, TerminalKinds) # {}
  BY <1>2, <1>3, <1>8
<1>10. (r.active <=> CycleOpen(g, n + 1)) /\ (r.last <=> VerifiedLast(g, n + 1))
  BY <1>2, <1>3, <1>5, <1>7
<1>11. Len(g) + 1 = n + 1
  BY <1>1
<1>12. Reads(g)
  BY <1>6, <1>9, <1>10, <1>11, Zenon DEF Reads, r
<1> QED
  BY <1>12 DEF g

(* So they say it of every stream.                                         *)
LEMMA ScanReads == \A f \in Seq(EventType) : Reads(f)
<1> DEFINE T == {f \in Seq(EventType) : Reads(f)}
<1>1. <<>> \in T
  <2>1. Scan(<<>>) = ScanStart /\ <<>> \in Seq(EventType) /\ Len(<<>>) + 1 = 1
    BY ScanEmpty
  <2>2. \A K : Before(<<>>, 1, K) = {}
    BY DEF Before, Pos
  <2>3. StatusBefore(<<>>, 1) = "created" /\ ~CycleOpen(<<>>, 1) /\ ~VerifiedLast(<<>>, 1)
    BY <2>2 DEF StatusBefore, CycleOpen, VerifiedLast
  <2> QED
    BY <2>1, <2>2, <2>3 DEF Reads, ScanStart
<1>2. ASSUME NEW f \in T, NEW e \in EventType PROVE Append(f, e) \in T
  <2>1. f \in Seq(EventType) /\ Flags(Scan(f)) /\ Append(f, e) \in Seq(EventType)
    BY ScanMeans, AppendFacts DEF Means
  <2> QED
    BY <2>1, ReadsAppend
<1>3. T \in SUBSET Seq(EventType)
  OBVIOUS
<1> HIDE DEF T
<1>4. T = Seq(EventType)
  BY <1>1, <1>2, <1>3, SeqInduction
<1> QED
  BY <1>4 DEF T

(* The contract of one record: what its position must satisfy.             *)
KindRule(f, i) ==
  /\ f[i].kind = "session.started" =>
       f[i].bound /\ Before(f, i, {"session.started"}) = {}
  /\ f[i].kind \in StatusMarks => TargetStatus(f[i]) \in NextStatuses[StatusBefore(f, i)]
  /\ f[i].kind = "session.cancel_requested" =>
       Before(f, i, {"session.cancel_requested"}) = {}
  /\ f[i].kind \in {"cleanup.started", "cleanup.not_required"} => ~CycleOpen(f, i)
  /\ f[i].kind = "cleanup.completed" => CycleOpen(f, i)
  /\ f[i].kind \in TerminalKinds =>
       /\ f[i].kind = "session.completed" => CycleVerified(f, i)
       /\ f[i].kind = "session.cancelled" /\ Before(f, i, {"session.started"}) # {}
            => CycleVerified(f, i)
       /\ f[i].status = "cleanup_failed" =>
            Before(f, i, {"cleanup.started"}) # {} /\ ~CycleVerified(f, i)

(* The rule of any record.                                                 *)
Rule(f, i) ==
  /\ f[i].seq = i - 1
  /\ Before(f, i, TerminalKinds) = {}
  /\ f[i].kind # "session.started" =>
       (f[i].bound <=> Before(f, i, {"session.started"}) # {})
  /\ KindRule(f, i)

(* The terminal cleanup cycle is verified when it is over and last said so.*)
LEMMA CycleVerifiedIs ==
  \A f, i : CycleVerified(f, i) <=> ~CycleOpen(f, i) /\ VerifiedLast(f, i)
  BY DEF CycleVerified, VerifiedLast

(* The rules of the records there are do not depend on a later one.        *)
LEMMA RuleAppend ==
  ASSUME NEW f \in Seq(EventType), NEW e \in EventType
  PROVE  \A i \in 1..Len(f) : Rule(Append(f, e), i) <=> Rule(f, i)
<1> SUFFICES ASSUME NEW i \in 1..Len(f) PROVE Rule(Append(f, e), i) <=> Rule(f, i)
  OBVIOUS
<1> DEFINE g == Append(f, e)
<1>1. g[i] = f[i] /\ i \in 1..(Len(f) + 1)
  BY AppendFacts
<1>2. \A K : Before(g, i, K) = Before(f, i, K)
  BY <1>1, BeforeEarlier, Zenon
<1>3. /\ CycleOpen(g, i) <=> CycleOpen(f, i)
      /\ VerifiedLast(g, i) <=> VerifiedLast(f, i)
  BY <1>1, CycleAppend
<1>4. CycleVerified(g, i) <=> CycleVerified(f, i)
  BY <1>3, CycleVerifiedIs
<1>5. StatusBefore(g, i) = StatusBefore(f, i)
  BY <1>1, StatusBeforeAppend
<1> HIDE DEF g
<1>6. Rule(g, i) <=> Rule(f, i)
  BY <1>1, <1>2, <1>3, <1>4, <1>5, Zenon DEF Rule, KindRule
<1> QED
  BY <1>6 DEF g

(* What the scan refuses, kind by kind.                                    *)
LEMMA AdmitsKinds ==
  ASSUME NEW sc, NEW e
  PROVE  Admits(sc, e) <=>
    /\ e.kind = "session.started" =>
         ~sc.started /\ e.bound /\ "starting" \in NextStatuses[sc.status]
    /\ e.kind = "session.status_changed" => "running" \in NextStatuses[sc.status]
    /\ e.kind = "session.cancel_requested" => ~sc.cancelled
    /\ e.kind \in {"cleanup.started", "cleanup.not_required"} => ~sc.active
    /\ e.kind = "cleanup.completed" => sc.active
    /\ e.kind \in TerminalKinds =>
         /\ e.status \in NextStatuses[sc.status]
         /\ e.kind = "session.completed" => ~sc.active /\ sc.last
         /\ e.kind = "session.cancelled" /\ sc.started => ~sc.active /\ sc.last
         /\ e.status = "cleanup_failed" => sc.attempted /\ ~(~sc.active /\ sc.last)
<1>1. CASE e.kind = "session.started"
  BY <1>1 DEF Admits, TerminalKinds
<1>2. CASE e.kind = "session.status_changed"
  BY <1>2 DEF Admits, TerminalKinds
<1>3. CASE e.kind = "session.cancel_requested"
  BY <1>3 DEF Admits, TerminalKinds
<1>4. CASE e.kind \in {"cleanup.started", "cleanup.not_required"}
  BY <1>4 DEF Admits, TerminalKinds
<1>5. CASE e.kind = "cleanup.completed"
  BY <1>5 DEF Admits, TerminalKinds
<1>6. CASE e.kind \in TerminalKinds
  BY <1>6 DEF Admits, TerminalKinds
<1>7. CASE e.kind \notin TerminalKinds \cup {"session.started", "session.status_changed",
             "session.cancel_requested", "cleanup.started", "cleanup.not_required",
             "cleanup.completed"}
  BY <1>7 DEF Admits
<1> QED
  BY <1>1, <1>2, <1>3, <1>4, <1>5, <1>6, <1>7

(* One step of the scan accepts a record exactly when its rule holds.      *)
LEMMA StepAccepts ==
  ASSUME NEW f \in Seq(EventType), NEW e \in EventType
  PROVE  Scan(Append(f, e)).ok <=> Scan(f).ok /\ Rule(Append(f, e), Len(f) + 1)
<1> DEFINE g == Append(f, e)
           sc == Scan(f)
           n == Len(f) + 1
<1>1. /\ g[n] = e /\ Scan(g) = ScanStep(sc, e) /\ Len(f) \in Nat /\ n \in 1..(Len(f) + 1)
      /\ n - 1 = Len(f)
  BY AppendFacts, ScanAppend
<1>2. Scan(g).ok <=> /\ sc.ok /\ ~sc.ended /\ e.seq = sc.next
                     /\ e.kind # "session.started" => e.bound = sc.started
                     /\ Admits(sc, e)
  BY <1>1, StepFields
<1>3. sc.next = Len(f) /\ sc.started \in BOOLEAN
  BY ScanMeans, Zenon DEF Means, Counts, Flags
<1>4. /\ sc.started <=> Before(f, n, {"session.started"}) # {}
      /\ sc.cancelled <=> Before(f, n, {"session.cancel_requested"}) # {}
      /\ sc.active <=> CycleOpen(f, n)
      /\ sc.attempted <=> Before(f, n, {"cleanup.started"}) # {}
      /\ sc.last <=> VerifiedLast(f, n)
      /\ sc.ended <=> Before(f, n, TerminalKinds) # {}
      /\ sc.status = StatusBefore(f, n)
  BY ScanReads, Zenon DEF Reads
<1>5. \A K : Before(g, n, K) = Before(f, n, K)
  BY <1>1, BeforeEarlier, Zenon
<1>6. /\ CycleOpen(g, n) <=> CycleOpen(f, n)
      /\ VerifiedLast(g, n) <=> VerifiedLast(f, n)
      /\ StatusBefore(g, n) = StatusBefore(f, n)
  BY <1>1, CycleAppend, StatusBeforeAppend
<1>7. CycleVerified(g, n) <=> ~sc.active /\ sc.last
  BY <1>4, <1>6, CycleVerifiedIs
<1>8. e.bound \in BOOLEAN
  BY TerminalStatus
<1> HIDE DEF g, sc, n
<1>9. e.kind \in StatusMarks => (TargetStatus(e) \in NextStatuses[sc.status] <=>
        /\ e.kind = "session.started" => "starting" \in NextStatuses[sc.status]
        /\ e.kind = "session.status_changed" => "running" \in NextStatuses[sc.status]
        /\ e.kind \in TerminalKinds => e.status \in NextStatuses[sc.status])
  BY DEF StatusMarks, TargetStatus, TerminalKinds
<1>10. (e.kind = "session.started" \/ e.kind = "session.status_changed"
        \/ e.kind \in TerminalKinds) <=> e.kind \in StatusMarks
  BY DEF StatusMarks
<1>11. Admits(sc, e) <=> KindRule(g, n)
  <2>1. sc.active <=> CycleOpen(g, n)
    BY <1>4, <1>6
  <2>2. sc.started <=> Before(g, n, {"session.started"}) # {}
    BY <1>4, <1>5
  <2>3. sc.cancelled <=> Before(g, n, {"session.cancel_requested"}) # {}
    BY <1>4, <1>5
  <2>4. sc.attempted <=> Before(g, n, {"cleanup.started"}) # {}
    BY <1>4, <1>5
  <2>5. sc.status = StatusBefore(g, n)
    BY <1>4, <1>6
  <2>6. KindRule(g, n) <=>
    /\ e.kind = "session.started" => e.bound /\ ~sc.started
    /\ e.kind \in StatusMarks => TargetStatus(e) \in NextStatuses[sc.status]
    /\ e.kind = "session.cancel_requested" => ~sc.cancelled
    /\ e.kind \in {"cleanup.started", "cleanup.not_required"} => ~sc.active
    /\ e.kind = "cleanup.completed" => sc.active
    /\ e.kind \in TerminalKinds =>
         /\ e.kind = "session.completed" => ~sc.active /\ sc.last
         /\ e.kind = "session.cancelled" /\ sc.started => ~sc.active /\ sc.last
         /\ e.status = "cleanup_failed" => sc.attempted /\ ~(~sc.active /\ sc.last)
    BY <1>1, <1>7, <2>1, <2>2, <2>3, <2>4, <2>5, Zenon DEF KindRule
  <2> QED
    BY <1>9, <1>10, <2>6, AdmitsKinds
<1>12. Rule(g, n) <=>
         /\ e.seq = Len(f) /\ ~sc.ended
         /\ e.kind # "session.started" => (e.bound <=> sc.started)
         /\ KindRule(g, n)
  BY <1>1, <1>4, <1>5 DEF Rule
<1>13. Scan(g).ok <=> sc.ok /\ Rule(g, n)
  BY <1>2, <1>3, <1>8, <1>11, <1>12
<1> QED
  BY <1>13 DEF g, sc, n

(* The scan accepts a stream exactly when every record keeps its rule.     *)
LEMMA ScanIsRules ==
  \A f \in Seq(EventType) : Scan(f).ok <=> \A i \in 1..Len(f) : Rule(f, i)
<1> DEFINE P(f) == Scan(f).ok <=> \A i \in 1..Len(f) : Rule(f, i)
           T == {f \in Seq(EventType) : P(f)}
<1>1. <<>> \in T
  <2>1. Scan(<<>>).ok /\ <<>> \in Seq(EventType) /\ 1..Len(<<>>) = {}
    BY ScanEmpty DEF ScanStart
  <2> QED
    BY <2>1
<1>2. ASSUME NEW f \in T, NEW e \in EventType PROVE Append(f, e) \in T
  <2> DEFINE g == Append(f, e)
  <2>1. f \in Seq(EventType) /\ P(f)
    OBVIOUS
  <2>2. g \in Seq(EventType) /\ Len(g) = Len(f) + 1 /\ Len(f) \in Nat
    BY <2>1, AppendFacts
  <2>3. Scan(g).ok <=> Scan(f).ok /\ Rule(g, Len(f) + 1)
    BY <2>1, StepAccepts
  <2>4. \A i \in 1..Len(f) : Rule(g, i) <=> Rule(f, i)
    BY <2>1, RuleAppend
  <2> HIDE DEF g
  <2>5. \A i \in 1..(Len(f) + 1) : i \in 1..Len(f) \/ i = Len(f) + 1
    BY <2>2
  <2>6. P(g)
    BY <2>1, <2>2, <2>3, <2>4, <2>5
  <2>7. g \in T
    BY <2>2, <2>6
  <2> QED
    BY <2>7 DEF g
<1>3. T \in SUBSET Seq(EventType)
  OBVIOUS
<1> HIDE DEF T
<1>4. T = Seq(EventType)
  BY <1>1, <1>2, <1>3, SeqInduction
<1> QED
  BY <1>4 DEF T

(* A kind occurs once when none of its records follows another.            *)
LEMMA OnceBefore ==
  ASSUME NEW f \in Seq(EventType), NEW k
  PROVE  Cardinality(Pos(f, {k})) <= 1
           <=> \A i \in 1..Len(f) : f[i].kind = k => Before(f, i, {k}) = {}
<1>1. Len(f) \in Nat /\ DOMAIN f = 1..Len(f)
  OBVIOUS
<1>2. Pos(f, {k}) \in SUBSET (1..Len(f))
  BY <1>1 DEF Pos
<1>3. Cardinality(Pos(f, {k})) <= 1 <=> \A x, y \in Pos(f, {k}) : x = y
  BY <1>1, <1>2, AtMostOne
<1>4. ASSUME \A x, y \in Pos(f, {k}) : x = y, NEW i \in 1..Len(f), f[i].kind = k
      PROVE  Before(f, i, {k}) = {}
  <2>1. i \in Pos(f, {k}) /\ i \in Nat
    BY <1>1, <1>4 DEF Pos
  <2>2. \A j \in Pos(f, {k}) : j = i
    BY <1>4, <2>1
  <2>3. ~(i < i)
    BY <2>1
  <2> QED
    BY <2>2, <2>3, Zenon DEF Before
<1>5. ASSUME \A i \in 1..Len(f) : f[i].kind = k => Before(f, i, {k}) = {},
             NEW x \in Pos(f, {k}), NEW y \in Pos(f, {k})
      PROVE  x = y
  <2>1. /\ x \in 1..Len(f) /\ y \in 1..Len(f) /\ f[x].kind = k /\ f[y].kind = k
        /\ Before(f, x, {k}) = {} /\ Before(f, y, {k}) = {}
    BY <1>1, <1>5 DEF Pos
  <2>2. ~(x < y) /\ ~(y < x)
    BY <2>1 DEF Before
  <2> QED
    BY <1>1, <2>1, <2>2
<1> QED
  BY <1>3, <1>4, <1>5

(* The documented contract, with its conditions on whole streams, is the   *)
(* rule of every record, a first record and a terminal one.                *)
LEMMA ContractIsRules ==
  ASSUME NEW f \in Seq(EventType)
  PROVE  Contract(f) <=> /\ CreatedFirst(f) /\ \A i \in 1..Len(f) : Rule(f, i)
                         /\ Pos(f, TerminalKinds) # {}
<1>1. Len(f) \in Nat /\ DOMAIN f = 1..Len(f)
  OBVIOUS
<1>2. \A i \in 1..Len(f) : f[i].bound \in BOOLEAN
  <2>1. \A i \in 1..Len(f) : f[i] \in EventType
    BY ElementOfSeq
  <2> QED
    BY <2>1, TerminalStatus
<1>3. \A i, K : i \in Pos(f, K) <=> i \in 1..Len(f) /\ f[i].kind \in K
  BY <1>1 DEF Pos
<1>4. \A i, j, K : j \in Before(f, i, K) <=> j \in Pos(f, K) /\ j < i
  BY DEF Before
<1>5. ASSUME Contract(f), NEW i \in 1..Len(f) PROVE Rule(f, i)
  <2>1. f[i].seq = i - 1
    BY <1>1, <1>5 DEF Contract, ContiguousFromZero
  <2>2. Before(f, i, TerminalKinds) = {}
    <3>1. \A j \in Pos(f, TerminalKinds) : j = Len(f)
      BY <1>5 DEF Contract, TerminalLast
    <3> QED
      BY <1>1, <1>4, <3>1
  <2>3. f[i].bound <=> \E j \in Pos(f, {"session.started"}) : j <= i
    BY <1>1, <1>5 DEF Contract, StartBindsRun
  <2>4. f[i].kind = "session.started" => Before(f, i, {"session.started"}) = {}
    BY <1>5, OnceBefore DEF Contract, StartBindsRun
  <2>5. f[i].kind = "session.cancel_requested" =>
          Before(f, i, {"session.cancel_requested"}) = {}
    BY <1>5, OnceBefore DEF Contract, OneCancelRequest
  <2>6. f[i].kind # "session.started" =>
          (f[i].bound <=> Before(f, i, {"session.started"}) # {})
    <3> SUFFICES ASSUME f[i].kind # "session.started"
                 PROVE  f[i].bound <=> Before(f, i, {"session.started"}) # {}
      OBVIOUS
    <3>1. \A j \in Pos(f, {"session.started"}) : j \in 1..Len(f) /\ j # i
      BY <1>3
    <3>2. \A j \in Pos(f, {"session.started"}) : j <= i <=> j < i
      BY <1>1, <3>1
    <3> QED
      BY <1>4, <2>3, <3>2
  <2>7. f[i].kind = "session.started" => f[i].bound
    <3>1. i <= i
      BY <1>1
    <3> QED
      BY <1>3, <2>3, <3>1
  <2>8. f[i].kind \in StatusMarks => TargetStatus(f[i]) \in NextStatuses[StatusBefore(f, i)]
    BY <1>3, <1>5, Zenon DEF Contract, LegalTransitions
  <2>9. /\ f[i].kind \in {"cleanup.started", "cleanup.not_required"} => ~CycleOpen(f, i)
        /\ f[i].kind = "cleanup.completed" => CycleOpen(f, i)
    <3>1. /\ \A j \in Pos(f, {"cleanup.started", "cleanup.not_required"}) : ~CycleOpen(f, j)
          /\ \A j \in Pos(f, {"cleanup.completed"}) : CycleOpen(f, j)
      BY <1>5, Zenon DEF Contract, CleanupCycles
    <3>2. f[i].kind \in {"cleanup.started", "cleanup.not_required"} =>
            i \in Pos(f, {"cleanup.started", "cleanup.not_required"})
      BY <1>3
    <3>3. f[i].kind = "cleanup.completed" => i \in Pos(f, {"cleanup.completed"})
      BY <1>3
    <3> QED
      BY <3>1, <3>2, <3>3
  <2>10. f[i].kind \in TerminalKinds =>
           /\ f[i].kind = "session.completed" => CycleVerified(f, i)
           /\ f[i].kind = "session.cancelled" /\ Before(f, i, {"session.started"}) # {}
                => CycleVerified(f, i)
           /\ f[i].status = "cleanup_failed" =>
                Before(f, i, {"cleanup.started"}) # {} /\ ~CycleVerified(f, i)
    BY <1>3, <1>5, Zenon DEF Contract, TerminalCleanup
  <2> QED
    BY <2>1, <2>2, <2>4, <2>5, <2>6, <2>7, <2>8, <2>9, <2>10, Zenon DEF Rule, KindRule
<1>6. ASSUME Contract(f) PROVE CreatedFirst(f) /\ Pos(f, TerminalKinds) # {}
  <2>1. CreatedFirst(f) /\ Pos(f, TerminalKinds) = {Len(f)}
    BY <1>6, Zenon DEF Contract, TerminalLast
  <2> QED
    BY <2>1
<1>7. ASSUME CreatedFirst(f), \A i \in 1..Len(f) : Rule(f, i), Pos(f, TerminalKinds) # {}
      PROVE  Contract(f)
  <2>1. ContiguousFromZero(f)
    BY <1>1, <1>7 DEF ContiguousFromZero, Rule
  <2>2. StartBindsRun(f)
    <3>1. Cardinality(Pos(f, {"session.started"})) <= 1
      <4>1. \A i \in 1..Len(f) : f[i].kind = "session.started" =>
              Before(f, i, {"session.started"}) = {}
        BY <1>7, Zenon DEF Rule, KindRule
      <4> QED
        BY <4>1, OnceBefore
    <3>2. ASSUME NEW i \in 1..Len(f)
          PROVE  f[i].bound <=> \E j \in Pos(f, {"session.started"}) : j <= i
      <4>1. CASE f[i].kind = "session.started"
        <5>1. f[i].bound
          BY <1>7, <4>1, Zenon DEF Rule, KindRule
        <5>2. i \in Pos(f, {"session.started"}) /\ i <= i
          BY <1>1, <1>3, <4>1
        <5> QED
          BY <5>1, <5>2
      <4>2. CASE f[i].kind # "session.started"
        <5>1. f[i].bound <=> Before(f, i, {"session.started"}) # {}
          BY <1>7, <4>2, Zenon DEF Rule
        <5>2. \A j \in Pos(f, {"session.started"}) : j \in 1..Len(f) /\ j # i
          BY <1>3, <4>2
        <5>3. \A j \in Pos(f, {"session.started"}) : j <= i <=> j < i
          BY <1>1, <5>2
        <5> QED
          BY <1>4, <5>1, <5>3
      <4> QED
        BY <4>1, <4>2
    <3> QED
      BY <1>1, <3>1, <3>2 DEF StartBindsRun
  <2>3. LegalTransitions(f)
    BY <1>3, <1>7, Zenon DEF LegalTransitions, Rule, KindRule
  <2>4. OneCancelRequest(f)
    <3>1. \A i \in 1..Len(f) : f[i].kind = "session.cancel_requested" =>
            Before(f, i, {"session.cancel_requested"}) = {}
      BY <1>7, Zenon DEF Rule, KindRule
    <3> QED
      BY <3>1, OnceBefore DEF OneCancelRequest
  <2>5. CleanupCycles(f)
    <3>1. \A i \in 1..Len(f) :
            /\ f[i].kind \in {"cleanup.started", "cleanup.not_required"} => ~CycleOpen(f, i)
            /\ f[i].kind = "cleanup.completed" => CycleOpen(f, i)
      BY <1>7, Zenon DEF Rule, KindRule
    <3>2. \A i \in Pos(f, {"cleanup.completed"}) :
            i \in 1..Len(f) /\ f[i].kind = "cleanup.completed"
      BY <1>3
    <3> QED
      BY <1>3, <3>1, <3>2, Zenon DEF CleanupCycles
  <2>6. TerminalLast(f)
    <3>1. \A i \in 1..Len(f) : Before(f, i, TerminalKinds) = {}
      BY <1>7, Zenon DEF Rule
    <3>2. PICK t : t \in Pos(f, TerminalKinds)
      BY <1>7
    <3>3. t \in 1..Len(f) /\ f[t].kind \in TerminalKinds
      BY <1>3, <3>2
    <3>4. \A s \in Pos(f, TerminalKinds) : s \in 1..Len(f) /\ ~(s < t) /\ ~(t < s)
      BY <1>3, <1>4, <3>1, <3>2, <3>3
    <3>5. \A s \in Pos(f, TerminalKinds) : s = t
      BY <1>1, <3>3, <3>4
    <3>6. t = Len(f)
      <4>1. Len(f) \in 1..Len(f)
        BY <1>1, <3>3
      <4>2. ~(t < Len(f))
        BY <1>4, <3>1, <3>2, <4>1
      <4>3. \A n \in Nat : \A m \in 1..n : ~(m < n) => m = n
        OBVIOUS
      <4>4. Len(f) \in Nat /\ t \in 1..Len(f)
        BY <1>1, <3>3
      <4> QED
        BY <4>2, <4>3, <4>4, Zenon
    <3> QED
      BY <3>2, <3>5, <3>6 DEF TerminalLast
  <2>7. TerminalCleanup(f)
    BY <1>3, <1>7, Zenon DEF TerminalCleanup, Rule, KindRule
  <2> QED
    BY <1>7, <2>1, <2>2, <2>3, <2>4, <2>5, <2>6, <2>7 DEF Contract
<1> QED
  BY <1>5, <1>6, <1>7

(* Streams grow by records that construction lets through.                 *)
LEMMA CandidatesAreEvents == \A n \in Nat : Candidates(n) \subseteq EventType
<1> SUFFICES ASSUME NEW n \in Nat, NEW e \in Candidates(n) PROVE e \in EventType
  OBVIOUS
<1>1. PICK b \in Bodies, q \in {n, n + 1}, u \in BOOLEAN :
        e = [kind |-> b.kind, status |-> b.status, reason |-> b.reason,
             verified |-> b.verified, seq |-> q, bound |-> u]
  BY DEF Candidates
<1>2. q \in Nat
  OBVIOUS
<1>3. /\ b.kind \in Kinds /\ b.status \in EndStatuses \cup {"none"}
      /\ b.reason \in Reasons \cup {"none"} /\ b.verified \in BOOLEAN
      /\ b.status \in StatusesOf(b.kind)
      /\ b.kind \in TerminalKinds => b.reason \in CompatibleReasons[b.status]
  <2>1. CASE \E k \in Kinds \ TerminalKinds, v \in BOOLEAN :
               b = [status |-> "none", reason |-> "none", verified |-> v, kind |-> k]
    <3>1. PICK k \in Kinds \ TerminalKinds, v \in BOOLEAN :
            b = [status |-> "none", reason |-> "none", verified |-> v, kind |-> k]
      BY <2>1
    <3>2. "none" \in StatusesOf(k)
      BY DEF StatusesOf, TerminalKinds
    <3> QED
      BY <3>1, <3>2
  <2>2. CASE \E k \in TerminalKinds : \E s \in StatusesOf(k) :
               b = [status |-> s, reason |-> CHOOSE r \in CompatibleReasons[s] : TRUE,
                    verified |-> FALSE, kind |-> k]
    <3>1. PICK k \in TerminalKinds : \E s \in StatusesOf(k) :
            b = [status |-> s, reason |-> CHOOSE r \in CompatibleReasons[s] : TRUE,
                 verified |-> FALSE, kind |-> k]
      BY <2>2
    <3>2. PICK s \in StatusesOf(k) :
            b = [status |-> s, reason |-> CHOOSE r \in CompatibleReasons[s] : TRUE,
                 verified |-> FALSE, kind |-> k]
      BY <3>1
    <3>3. s \in EndStatuses /\ k \in Kinds
      BY DEF StatusesOf, TerminalKinds, EndStatuses, Kinds
    <3>4. CompatibleReasons[s] # {} /\ CompatibleReasons[s] \subseteq Reasons
      BY <3>3 DEF CompatibleReasons, EndStatuses, Reasons
    <3>5. (CHOOSE r \in CompatibleReasons[s] : TRUE) \in CompatibleReasons[s]
      BY <3>4, Zenon
    <3> DEFINE c == CHOOSE r \in CompatibleReasons[s] : TRUE
    <3>6. b = [status |-> s, reason |-> c, verified |-> FALSE, kind |-> k]
      BY <3>2
    <3> HIDE DEF c
    <3>7. c \in CompatibleReasons[s]
      BY <3>5 DEF c
    <3> QED
      BY <3>3, <3>4, <3>6, <3>7
  <2> DEFINE Plain == {[status |-> "none", reason |-> "none", verified |-> v, kind |-> k] :
                         k \in Kinds \ TerminalKinds, v \in BOOLEAN}
             Closing(k) == {[status |-> s, reason |-> CHOOSE r \in CompatibleReasons[s] : TRUE,
                             verified |-> FALSE, kind |-> k] : s \in StatusesOf(k)}
  <2>3. b \in Plain \cup UNION {Closing(k) : k \in TerminalKinds}
    BY DEF Bodies
  <2>4. b \in Plain => \E k \in Kinds \ TerminalKinds, v \in BOOLEAN :
               b = [status |-> "none", reason |-> "none", verified |-> v, kind |-> k]
    OBVIOUS
  <2>5. \A k : b \in Closing(k) => \E s \in StatusesOf(k) :
               b = [status |-> s, reason |-> CHOOSE r \in CompatibleReasons[s] : TRUE,
                    verified |-> FALSE, kind |-> k]
    BY Zenon
  <2> HIDE DEF Plain, Closing
  <2>6. b \in Plain \/ \E k \in TerminalKinds : b \in Closing(k)
    BY <2>3
  <2> QED
    BY <2>1, <2>2, <2>4, <2>5, <2>6, Zenon
<1>4. /\ e.kind = b.kind /\ e.status = b.status /\ e.reason = b.reason
      /\ e.verified = b.verified /\ e.seq = q /\ e.bound = u
  BY <1>1
<1>5. e \in [seq : Nat, kind : Kinds, bound : BOOLEAN,
             status : EndStatuses \cup {"none"},
             reason : Reasons \cup {"none"}, verified : BOOLEAN]
  BY <1>1, <1>2, <1>3
<1> QED
  BY <1>3, <1>4, <1>5 DEF EventType

(* The type of the streams.                                                *)
StreamType == stream \in Seq(EventType)

(* Every stream that grows has this type.                                  *)
LEMMA StreamsOfEvents == StreamSpec => []StreamType
<1>1. StreamInit => StreamType
  BY DEF StreamInit, StreamType
<1>2. StreamType /\ [StreamNext]_stream => StreamType'
  <2>1. CASE UNCHANGED stream
    BY <2>1 DEF StreamType
  <2>2. CASE StreamNext
    <3> SUFFICES ASSUME StreamType PROVE StreamType'
      OBVIOUS
    <3>1. PICK e \in Candidates(Len(stream)) : stream' = Append(stream, e)
      BY <2>2, Zenon DEF StreamNext
    <3>2. stream \in Seq(EventType) /\ e \in EventType
      BY <3>1, CandidatesAreEvents DEF StreamType
    <3> QED
      BY <3>1, <3>2, AppendFacts DEF StreamType
  <2> QED
    BY <2>1, <2>2
<1> QED
  BY <1>1, <1>2, PTL DEF StreamSpec

(* The validator of the code against the documented contract.              *)
LEMMA ContractHolds ==
  ASSUME NEW f \in Seq(EventType)
  PROVE  ValidStream(f) <=> Contract(f)
<1>1. Len(f) \in Nat
  OBVIOUS
<1>2. Scan(f).ended <=> Pos(f, TerminalKinds) # {}
  <2>1. Before(f, Len(f) + 1, TerminalKinds) = Pos(f, TerminalKinds)
    BY <1>1, BeforeIsIn
  <2> QED
    BY <2>1, ScanReads, Zenon DEF Reads
<1>3. Scan(f).ok <=> \A i \in 1..Len(f) : Rule(f, i)
  BY ScanIsRules
<1> QED
  BY <1>2, <1>3, ContractIsRules, Zenon DEF ValidStream, CreatedFirst

(* Every proper prefix of an accepted stream is accepted and unfinished.   *)
LEMMA PrefixAccepted ==
  \A f \in Seq(EventType) : Scan(f).ok =>
    \A n \in 0..(Len(f) - 1) :
      Scan(SubSeq(f, 1, n)).ok /\ ~Scan(SubSeq(f, 1, n)).ended
<1> DEFINE P(f) == Scan(f).ok =>
             \A n \in 0..(Len(f) - 1) :
               Scan(SubSeq(f, 1, n)).ok /\ ~Scan(SubSeq(f, 1, n)).ended
           T == {f \in Seq(EventType) : P(f)}
<1>1. <<>> \in T
  <2>1. <<>> \in Seq(EventType) /\ 0..(Len(<<>>) - 1) = {}
    OBVIOUS
  <2> QED
    BY <2>1
<1>2. ASSUME NEW f \in T, NEW e \in EventType PROVE Append(f, e) \in T
  <2> DEFINE g == Append(f, e)
  <2>1. f \in Seq(EventType) /\ P(f)
    OBVIOUS
  <2>2. g \in Seq(EventType) /\ Len(g) = Len(f) + 1 /\ Len(f) \in Nat
    BY <2>1, AppendFacts
  <2>3. Scan(g) = ScanStep(Scan(f), e)
    BY <2>1, ScanAppend
  <2>4. \A n \in 0..Len(f) : SubSeq(g, 1, n) = SubSeq(f, 1, n)
    <3> SUFFICES ASSUME NEW n \in 0..Len(f) PROVE SubSeq(g, 1, n) = SubSeq(f, 1, n)
      OBVIOUS
    <3>1. \A i \in 1..n : g[i] = f[i]
      BY <2>1, <2>2, AppendFacts
    <3> QED
      BY <3>1, <2>1, <2>2
  <2>5. SubSeq(f, 1, Len(f)) = f
    BY <2>1
  <2> HIDE DEF g, P
  <2>6. ASSUME Scan(g).ok, NEW n \in 0..(Len(g) - 1)
        PROVE  Scan(SubSeq(g, 1, n)).ok /\ ~Scan(SubSeq(g, 1, n)).ended
    <3>1. Scan(f).ok /\ ~Scan(f).ended
      BY <2>3, <2>6, StepFields
    <3>2. n \in 0..Len(f) /\ (n = Len(f) \/ n \in 0..(Len(f) - 1))
      BY <2>2
    <3>3. SubSeq(g, 1, n) = SubSeq(f, 1, n)
      BY <2>4, <3>2
    <3> QED
      BY <2>1, <2>5, <3>1, <3>2, <3>3 DEF P
  <2>7. P(g)
    BY <2>6 DEF P
  <2>8. g \in T
    BY <2>2, <2>7
  <2> QED
    BY <2>8 DEF g
<1>3. T \in SUBSET Seq(EventType)
  OBVIOUS
<1> HIDE DEF T
<1>4. T = Seq(EventType)
  BY <1>1, <1>2, <1>3, SeqInduction
<1> QED
  BY <1>4 DEF T

(* An accepted stream without a terminal is a valid prefix: the weaker     *)
(* rules of _validate_prefix never call it malformed.                      *)
LEMMA AcceptedPrefixIsValid ==
  ASSUME NEW f \in Seq(EventType), Scan(f).ok, f # <<>>, f[1].kind = "session.created"
  PROVE  ValidPrefix(f)
<1>1. Accepted(f)
  BY ScanMeans DEF Means
<1>2. Len(f) \in Nat /\ DOMAIN f = 1..Len(f)
  OBVIOUS
<1>3. Cardinality(StartedAt(f)) <= 1
  <2>1. StartedAt(f) \in SUBSET (1..Len(f))
    BY <1>2 DEF StartedAt
  <2>2. \A x, y \in StartedAt(f) : x = y
    BY <1>1 DEF Accepted, StartsOnce
  <2> QED
    BY <1>2, <2>1, <2>2, AtMostOne
<1>4. ASSUME NEW i \in StartedAt(f), NEW j \in i..Len(f) PROVE f[j].bound
  <2>1. i \in 1..Len(f)
    BY <1>2 DEF StartedAt
  <2>2. j \in DOMAIN f /\ i <= j
    BY <1>2, <2>1
  <2> QED
    BY <1>1, <2>2 DEF Accepted, Bound
<1>5. \A i \in DOMAIN f : f[i].seq = i - 1
  BY <1>1 DEF Accepted, Numbered
<1> QED
  BY <1>3, <1>4, <1>5 DEF ValidPrefix

(* A reader of a cut journal reports it interrupted.                       *)
LEMMA CutIsInterrupted ==
  ASSUME NEW f \in Seq(EventType), ValidStream(f), NEW n \in 0..(Len(f) - 1),
         NEW tail \in {"no", "tail"}
  PROVE  ReadState(TRUE, SubSeq(f, 1, n), tail) = "interrupted"
<1> DEFINE p == SubSeq(f, 1, n)
<1>1. /\ Len(f) \in Nat /\ n \in Nat /\ p \in Seq(EventType) /\ Len(p) = n
      /\ \A i \in 1..n : p[i] = f[i]
  OBVIOUS
<1>2. Scan(f).ok /\ f[1].kind = "session.created"
  BY DEF ValidStream
<1>3. Scan(p).ok /\ ~Scan(p).ended
  BY <1>2, PrefixAccepted
<1> HIDE DEF p
<1>4. CASE tail = "tail" \/ p = <<>>
  <2>1. tail # "split"
    OBVIOUS
  <2> QED
    BY <1>4, <2>1, Zenon DEF ReadState, p
<1>5. CASE tail = "no" /\ p # <<>>
  <2>1. n >= 1
    BY <1>1, <1>5
  <2>2. p[1] = f[1]
    BY <1>1, <2>1
  <2>3. ValidPrefix(p)
    BY <1>1, <1>2, <1>3, <1>5, <2>2, AcceptedPrefixIsValid
  <2>4. Last(p).kind \notin TerminalKinds
    <3>1. Accepted(p)
      BY <1>1, <1>3, ScanMeans DEF Means
    <3> QED
      BY <1>3, <1>5, <3>1 DEF Accepted, Ended
  <2>5. ReadState(TRUE, p, tail) = "interrupted"
    BY <1>5, <2>3, <2>4 DEF ReadState
  <2> QED
    BY <2>5 DEF p
<1> QED
  BY <1>4, <1>5

(* A verified cleanup that is the only one belongs to a started session    *)
(* and is over.                                                            *)
LEMMA OneCycle ==
  ASSUME NEW f \in Seq(EventType), Scan(f).ok, Scan(f).last,
         Cardinality(Pos(f, {"cleanup.started"})) <= 1,
         \A i \in Pos(f, {"cleanup.started"}) : Before(f, i, {"session.started"}) # {}
  PROVE  Scan(f).started /\ ~Scan(f).active
<1> DEFINE n == Len(f) + 1
<1>1. Len(f) \in Nat /\ DOMAIN f = 1..Len(f) /\ n \in Nat
  OBVIOUS
<1>2. /\ Scan(f).started <=> Before(f, n, {"session.started"}) # {}
      /\ Scan(f).active <=> CycleOpen(f, n)
      /\ VerifiedLast(f, n)
  BY ScanReads, Zenon DEF Reads
<1>3. PICK j \in Before(f, n, {"cleanup.completed"}) : TRUE
  BY <1>2 DEF VerifiedLast
<1>4. j \in 1..Len(f) /\ f[j].kind = "cleanup.completed"
  BY <1>1, <1>3, BeforeIsIn
<1>5. CycleOpen(f, j)
  BY <1>4, ScanIsRules DEF Rule, KindRule
<1>6. PICK i \in Before(f, j, {"cleanup.started"}) : TRUE
  BY <1>5 DEF CycleOpen
<1>7. i \in Pos(f, {"cleanup.started"}) /\ i < j
  BY <1>6 DEF Before
<1>8. Scan(f).started
  <2>1. PICK k \in Before(f, i, {"session.started"}) : TRUE
    BY <1>7
  <2>2. k \in Pos(f, {"session.started"}) /\ k \in 1..Len(f)
    BY <1>1, <2>1 DEF Before, Pos
  <2>3. k < n
    BY <1>1, <2>2
  <2>4. k \in Before(f, n, {"session.started"})
    BY <2>2, <2>3, Zenon DEF Before
  <2> QED
    BY <1>2, <2>4
<1>9. ~CycleOpen(f, n)
  <2> SUFFICES ASSUME NEW k \in Before(f, n, {"cleanup.started"}),
                      \A c \in Before(f, n, {"cleanup.completed"}) : c < k
               PROVE  FALSE
    BY DEF CycleOpen
  <2>1. j < k
    BY <1>3
  <2>2. k \in Pos(f, {"cleanup.started"})
    BY DEF Before
  <2>3. k = i
    <3>1. Pos(f, {"cleanup.started"}) \in SUBSET (1..Len(f))
      BY <1>1 DEF Pos
    <3> QED
      BY <1>1, <1>7, <2>2, <3>1, AtMostOne
  <2>4. i \in Nat /\ j \in Nat
    BY <1>1, <1>4, <1>7 DEF Pos
  <2> QED
    BY <1>7, <2>1, <2>3, <2>4
<1> QED
  BY <1>2, <1>8, <1>9

(* A complete journal whose verified cleanup closes a started session      *)
(* yields a result that construction accepts.                              *)
LEMMA CompleteHasResult ==
  ASSUME NEW f \in Seq(EventType), ValidStream(f),
         Scan(f).last => Scan(f).started /\ ~Scan(f).active
  PROVE  ValidResult(ResultOf(f))
<1> DEFINE e == Last(f)
           sc == Scan(f)
           r == ResultOf(f)
<1>1. sc.ok /\ sc.ended /\ f # <<>>
  BY DEF ValidStream
<1>2. Counts(f) /\ Accepted(f)
  BY <1>1, ScanMeans DEF Means
<1>3. e \in EventType
  <2>1. Len(f) \in 1..Len(f)
    BY <1>1
  <2> QED
    BY <2>1, ElementOfSeq DEF Last
<1>4. /\ e.reason \in CompatibleReasons[e.status] /\ e.kind \in TerminalKinds
      /\ e.status \in StatusesOf(e.kind)
  <2>1. e.kind \in TerminalKinds
    BY <1>1, <1>2 DEF Accepted, Ended
  <2> QED
    BY <1>3, <2>1 DEF EventType
<1>5. /\ e.status \in {"succeeded", "unresolved"} => e.kind = "session.completed"
      /\ e.status = "cancelled" => e.kind = "session.cancelled"
  BY <1>4 DEF StatusesOf, TerminalKinds
<1>6. /\ r.status = e.status /\ r.reason = e.reason
      /\ r.run = HasStarted(f) /\ r.verified = LastCleanupVerified(f)
  BY DEF ResultOf
<1>7. (r.run <=> sc.started) /\ (r.verified <=> sc.last)
  BY <1>2, <1>6, Zenon DEF Counts
<1>8. /\ e.kind = "session.completed" => ~sc.active /\ sc.last
      /\ e.kind = "session.cancelled" /\ sc.started => ~sc.active /\ sc.last
      /\ e.status = "cleanup_failed" => sc.active \/ ~sc.last
  BY <1>1, <1>2 DEF Accepted, EndsWell
<1>9. r.run \in BOOLEAN /\ r.verified \in BOOLEAN
  BY <1>6 DEF HasStarted, LastCleanupVerified
<1>10. sc.last => sc.started /\ ~sc.active
  OBVIOUS
<1> HIDE DEF e, sc, r
<1>11. r.status \in {"succeeded", "unresolved"} => r.run /\ r.verified
  BY <1>5, <1>6, <1>7, <1>8, <1>10
<1>12. r.status = "cancelled" => r.verified = r.run
  BY <1>5, <1>6, <1>7, <1>8, <1>9, <1>10
<1>13. r.status = "cleanup_failed" => ~r.verified
  BY <1>6, <1>7, <1>8, <1>10
<1>14. ValidResult(r)
  BY <1>4, <1>6, <1>11, <1>12, <1>13 DEF ValidResult
<1> QED
  BY <1>14 DEF r

(* The scan of validate_session_event_stream accepts exactly the streams   *)
(* the documented contract allows, of any length.                          *)
THEOREM ScanMeetsContract == StreamSpec => []ValidatorMeetsContract
<1>1. StreamType => ValidatorMeetsContract
  BY ContractHolds, Zenon DEF StreamType, ValidatorMeetsContract
<1> QED
  BY <1>1, StreamsOfEvents, PTL

(* However a crash cuts a complete journal of any length, its reader       *)
(* reports it interrupted, never malformed and never complete.             *)
THEOREM EveryCutIsInterrupted == StreamSpec => []CutJournalIsInterrupted
<1>1. StreamType => CutJournalIsInterrupted
  BY CutIsInterrupted, Zenon DEF StreamType, CutJournalIsInterrupted
<1> QED
  BY <1>1, StreamsOfEvents, PTL

(* A complete journal with at most one cleanup cycle, begun after the      *)
(* start, always yields a result that SessionResult accepts.               *)
THEOREM CompleteAlwaysHasResult == StreamSpec => []CompleteJournalHasResult
<1>1. StreamType => CompleteJournalHasResult
  <2> SUFFICES ASSUME StreamType, ValidStream(stream),
                      Cardinality(Pos(stream, {"cleanup.started"})) <= 1,
                      \A i \in Pos(stream, {"cleanup.started"}) :
                        Before(stream, i, {"session.started"}) # {}
               PROVE  ValidResult(ResultOf(stream))
    BY Zenon DEF CompleteJournalHasResult
  <2>1. stream \in Seq(EventType) /\ Scan(stream).ok
    BY DEF StreamType, ValidStream
  <2>2. Scan(stream).last => Scan(stream).started /\ ~Scan(stream).active
    BY <2>1, OneCycle
  <2> QED
    BY <2>1, <2>2, CompleteHasResult
<1> QED
  BY <1>1, StreamsOfEvents, PTL

(* What a worker's journal keeps beyond its acceptance by the scan: it     *)
(* begins with session.created, a verified cleanup follows the start and is*)
(* not reopened, and a cancelled end was requested.                        *)
Opened(f) == f # <<>> => f[1].kind = "session.created"

Legal(f) ==
  /\ Scan(f).ok
  /\ Opened(f)
  /\ Scan(f).last => Scan(f).started /\ ~Scan(f).active
  /\ Scan(f).ended /\ Scan(f).status = "cancelled" => Scan(f).cancelled

(* The last record of a journal is a record.                               *)
LEMMA LastEvent ==
  ASSUME NEW f \in Seq(EventType), f # <<>>
  PROVE  Last(f) \in EventType
  BY DEF Last

(* A legal journal is a valid stream or a valid prefix, and if it is       *)
(* complete it yields a result SessionResult accepts.                      *)
LEMMA LegalIsValid ==
  ASSUME NEW f \in Seq(EventType), Legal(f)
  PROVE  /\ f # <<>> /\ Last(f).kind \in TerminalKinds => ValidStream(f)
         /\ f # <<>> /\ Last(f).kind \in TerminalKinds => ValidResult(ResultOf(f))
         /\ f # <<>> => ValidPrefix(f)
<1>0. Accepted(f)
  BY ScanMeans DEF Means, Legal
<1>1. ASSUME f # <<>>, Last(f).kind \in TerminalKinds PROVE ValidStream(f)
  BY <1>0, <1>1 DEF ValidStream, Legal, Opened, Accepted, Ended
<1>2. ASSUME f # <<>>, Last(f).kind \in TerminalKinds PROVE ValidResult(ResultOf(f))
  BY <1>1, <1>2, CompleteHasResult DEF Legal
<1>3. ASSUME f # <<>> PROVE ValidPrefix(f)
  BY <1>3, AcceptedPrefixIsValid DEF Legal, Opened
<1> QED
  BY <1>1, <1>2, <1>3

(* What a reader makes of a legal journal, however it is cut.              *)
LEMMA LegalReads ==
  ASSUME NEW f \in Seq(EventType), Legal(f), NEW there \in BOOLEAN, NEW tail \in Tails
  PROVE  /\ ReadState(there, f, tail) # "malformed"
         /\ ReadState(there, f, tail) = "unreadable" => tail = "split"
         /\ ReadState(there, f, tail) = "complete" <=>
              there /\ tail = "no" /\ f # <<>> /\ Last(f).kind \in TerminalKinds
         /\ ReadState(there, f, tail) = "complete" => ValidResult(ResultOf(f))
<1> DEFINE r == ReadState(there, f, tail)
           done == f # <<>> /\ Last(f).kind \in TerminalKinds
<1>1. done => ValidStream(f) /\ ValidResult(ResultOf(f))
  BY LegalIsValid
<1>2. f # <<>> => ValidPrefix(f)
  BY LegalIsValid
<1>3. CASE ~there
  BY <1>3 DEF ReadState
<1>4. CASE there /\ tail = "split"
  BY <1>4 DEF ReadState
<1>5. CASE there /\ tail # "split" /\ (tail = "tail" \/ f = <<>>)
  BY <1>5 DEF ReadState
<1>6. CASE there /\ tail = "no" /\ f # <<>>
  <2>1. CASE done
    <3>1. r = "complete"
      BY <1>1, <1>6, <2>1 DEF ReadState
    <3> QED
      BY <1>1, <1>6, <2>1, <3>1
  <2>2. CASE ~done
    <3>1. r = "interrupted"
      BY <1>2, <1>6, <2>2 DEF ReadState
    <3> QED
      BY <1>6, <2>2, <3>1
  <2> QED
    BY <2>1, <2>2
<1> QED
  BY <1>3, <1>4, <1>5, <1>6 DEF Tails

(***************************************************************************)
(* Which records a legal journal may be extended by.                       *)
(***************************************************************************)

LEMMA LegalAppend ==
  ASSUME NEW f \in Seq(EventType), NEW e \in EventType, Legal(f), ~Scan(f).ended,
         e.seq = Len(f),
         e.kind # "session.started" => e.bound = Scan(f).started,
         Admits(Scan(f), e),
         f = <<>> => e.kind = "session.created",
         e.kind = "cleanup.completed" => Scan(f).started,
         e.kind = "cleanup.started" => ~Scan(f).last,
         e.status = "cancelled" => Scan(f).cancelled
  PROVE  Legal(Append(f, e))
<1> DEFINE sc == Scan(f)
           g == Append(f, e)
<1>0. Flags(sc) /\ Counts(f)
  BY ScanMeans DEF Means
<1>1. /\ Scan(g) = ScanStep(sc, e) /\ g # <<>>
      /\ \A i \in 1..Len(f) : g[i] = f[i]
      /\ g[Len(f) + 1] = e /\ Len(f) \in Nat
  BY ScanAppend, AppendFacts
<1>2. sc.ok /\ ~sc.ended /\ e.seq = sc.next
  BY <1>0 DEF Legal, Counts
<1>3. /\ sc.last => sc.started /\ ~sc.active
      /\ Opened(f)
  BY DEF Legal
<1>4. Scan(g).ok
  BY <1>1, <1>2, StepFields
<1>5. Opened(g)
  <2>1. CASE f = <<>>
    BY <1>1, <2>1 DEF Opened
  <2>2. CASE f # <<>>
    <3>1. 1 \in 1..Len(f)
      BY <2>2
    <3> QED
      BY <1>1, <1>3, <2>2, <3>1 DEF Opened
  <2> QED
    BY <2>1, <2>2
<1> HIDE DEF sc, g
<1>6. /\ Scan(g).started <=> (sc.started \/ e.kind = "session.started")
      /\ Scan(g).cancelled <=> (sc.cancelled \/ e.kind = "session.cancel_requested")
      /\ Scan(g).active <=> (e.kind # "cleanup.completed"
                              /\ (sc.active \/ e.kind = "cleanup.started"))
      /\ Scan(g).last = LastVerified(sc, e)
      /\ Scan(g).ended <=> (sc.ended \/ e.kind \in TerminalKinds)
  BY <1>1, StepFields
<1>7. Scan(g).last => Scan(g).started /\ ~Scan(g).active
  <2>1. CASE e.kind = "cleanup.completed"
    BY <1>6, <2>1 DEF sc
  <2>2. CASE e.kind # "cleanup.completed"
    <3>1. Scan(g).last = sc.last
      BY <1>6, <2>2 DEF LastVerified
    <3> QED
      BY <1>3, <1>6, <2>2, <3>1 DEF sc
  <2> QED
    BY <2>1, <2>2
<1>8. Scan(g).ended /\ Scan(g).status = "cancelled" => Scan(g).cancelled
  <2> SUFFICES ASSUME Scan(g).ended, Scan(g).status = "cancelled" PROVE Scan(g).cancelled
    OBVIOUS
  <2>1. e.kind \in TerminalKinds
    BY <1>2, <1>6
  <2>2. Scan(g).status = e.status
    BY <1>1, <2>1, StepStatus
  <2> QED
    BY <1>6, <2>2 DEF sc
<1> QED
  BY <1>4, <1>5, <1>7, <1>8 DEF Legal, g

-----------------------------------------------------------------------------

(* Program points of the worker: before its journal exists, before         *)
(* session.started, from there to the end of the cleanup, on the fatal     *)
(* exit, before a cancellation can have been recorded, before the cleanup  *)
(* is recorded, and from the settled outcome to the terminal record.       *)
Emptyhanded == {"unborn", "suspended", "boot", "journal"}
Unstarted == {"created", "ready", "gate", "launch", "start"}
Started == {"mkdir", "running", "gate2", "source", "cleaning", "cleanupStart",
            "remove", "cleanupDone"}
Fatal == {"fatalCleanup", "fatalSend", "fatalClose"}
Uncancelled == Unstarted \cup {"mkdir", "running", "gate2", "source", "cancelreq"}
Uncleaned == Unstarted \cup {"mkdir", "running", "gate2", "source", "cancelreq", "settle",
                             "cleaning", "cleanupStart"}
Settled == {"settle", "cleaning", "cleanupStart", "remove", "cleanupDone", "terminal"}

(* Where the worker's own variables stand.                                 *)
ControlInv ==
  /\ wpc \in Emptyhanded => /\ ~exists /\ file = <<>> /\ torn = "no"
                            /\ buffered = <<>> /\ seq = 0 /\ ~sticky
  /\ wpc \in Emptyhanded \cup Unstarted => ~started
  /\ wpc \in Started => started
  /\ wpc \in Emptyhanded \cup Uncleaned => ~cleanupOk
  /\ ~started => ~cleanupOk
  /\ wpc = "cancelreq" => outcome = "cancelled"
  /\ wpc \in Emptyhanded \cup (Uncancelled \ {"cancelreq"}) => outcome = "completed"
  /\ sticky => wpc \in Fatal \cup {"source", "cancelreq", "settle", "cleaning", "terminal"}

(* What a worker that can still write knows of its journal.                *)
Writing == wpc \in Alive \ Fatal /\ ~sticky

WriterInv ==
  Writing =>
    LET sc == Scan(file)
    IN  /\ torn = "no" /\ buffered = <<>> /\ seq = Len(file)
        /\ sc.started <=> started
        /\ (file = <<>>) <=> wpc \in Emptyhanded \cup {"created"}
        /\ sc.ended <=> wpc \in {"close", "send"}
        /\ sc.ended \/ sc.status \in IF started THEN {"starting", "running"} ELSE {"created"}
        /\ wpc \in Emptyhanded \cup Uncancelled => ~sc.cancelled
        /\ wpc \in Settled /\ outcome = "completed" => ~sc.cancelled
        /\ wpc \in Settled /\ outcome = "cancelled" => sc.cancelled
        /\ wpc \in Emptyhanded \cup Uncleaned => ~sc.active /\ ~sc.attempted /\ ~sc.last
        /\ wpc \in {"cleanupStart", "remove", "cleanupDone"} => sc.status = "running"
        /\ wpc \in {"remove", "cleanupDone"} => sc.active /\ sc.attempted /\ ~sc.last
        /\ wpc = "terminal" => /\ started => sc.status = "running" /\ sc.attempted
                               /\ ~sc.active /\ (sc.last <=> cleanupOk)
        /\ wpc \in {"close", "send"} => BuiltResult = ResultOf(file)

(* The journal is legal, and still is if a close writes what was kept back.*)
JournalLegal ==
  /\ Legal(file)
  /\ buffered # <<>> =>
       sticky /\ \E e \in EventType : buffered = <<e>> /\ Legal(Append(file, e))
  /\ ~exists => file = <<>>
  /\ wpc \in Alive \ {"boot", "journal"} => exists

(* The record emitted at each point.                                       *)
LEMMA RecordKind ==
  ASSUME NEW pc \in Emitting, WorkerTypeOK
  PROVE  LET r == RecordAt(pc)
         IN  /\ r.seq = seq /\ r.bound = (started \/ pc = "start")
             /\ pc = "created" => r.kind = "session.created"
             /\ pc = "start" => r.kind = "session.started"
             /\ pc \in {"running", "cleaning"} => r.kind = "session.status_changed"
             /\ pc = "source" => r.kind = "progress"
             /\ pc = "cancelreq" => r.kind = "session.cancel_requested"
             /\ pc = "cleanupStart" => r.kind = "cleanup.started"
             /\ pc = "cleanupDone" => r.kind = "cleanup.completed" /\ r.verified = cleanupOk
             /\ pc = "terminal" => /\ r.kind = TerminalKind(TerminalFor.status)
                                   /\ r.status = TerminalFor.status
                                   /\ r.reason = TerminalFor.reason
             /\ pc # "terminal" => r.status = "none"
  BY DEF RecordAt, Event, Emitting

(* The scan admits the terminal record the worker chooses.                 *)
LEMMA TerminalAdmitted ==
  ASSUME NEW sc, Flags(sc), NEW e \in EventType, WorkerTypeOK,
         e.kind = TerminalKind(TerminalFor.status), e.status = TerminalFor.status,
         sc.status \in IF started THEN {"running"} ELSE {"created"},
         sc.started <=> started, started => sc.attempted, ~sc.active,
         sc.last <=> cleanupOk, ~started => ~cleanupOk
  PROVE  Admits(sc, e)
<1>1. e.kind \in TerminalKinds /\ e.status \in StatusesOf(e.kind)
  BY TerminalForType, TerminalKindType
<1>2. e.status \in NextStatuses[sc.status]
  <2>1. CASE started
    <3>1. e.status \in EndStatuses /\ sc.status = "running"
      BY <2>1, TerminalForType
    <3> QED
      BY <3>1 DEF NextStatuses, Statuses
  <2>2. CASE ~started
    <3>1. e.status \in {"cancelled", "timed_out", "failed"} /\ sc.status = "created"
      BY <2>2 DEF TerminalFor
    <3> QED
      BY <3>1 DEF NextStatuses, Statuses
  <2> QED
    BY <2>1, <2>2
<1>3. e.kind = "session.completed" => ~sc.active /\ sc.last
  <2>1. e.kind = "session.completed" => e.status \in {"succeeded", "unresolved"}
    BY <1>1 DEF StatusesOf
  <2>2. e.status \in {"succeeded", "unresolved"} => cleanupOk
    BY DEF TerminalFor, WorkerTypeOK
  <2> QED
    BY <2>1, <2>2
<1>4. e.kind = "session.cancelled" /\ sc.started => ~sc.active /\ sc.last
  <2>1. e.kind = "session.cancelled" => e.status = "cancelled"
    BY <1>1 DEF StatusesOf
  <2>2. started /\ e.status = "cancelled" => cleanupOk
    BY DEF TerminalFor, WorkerTypeOK
  <2> QED
    BY <2>1, <2>2
<1>5. e.status = "cleanup_failed" => sc.attempted /\ ~(~sc.active /\ sc.last)
  <2>1. e.status = "cleanup_failed" => started /\ ~cleanupOk
    BY DEF TerminalFor, WorkerTypeOK
  <2> QED
    BY <2>1
<1> QED
  BY <1>1, <1>2, <1>3, <1>4, <1>5 DEF Admits, TerminalKinds

(* Whatever record a worker emits next, the journal is legal with it. This *)
(* is the step that needs WriterInv, and so all the control flow.          *)
LEMMA EmitLegal ==
  ASSUME WorkerTypeOK, ControlInv, WriterInv, JournalLegal, ~sticky, wpc \in Emitting
  PROVE  Legal(Append(file, RecordAt(wpc)))
<1> DEFINE sc == Scan(file)
           e == RecordAt(wpc)
<1>1. e \in EventType /\ file \in Seq(EventType)
  BY RecordType DEF WorkerTypeOK
<1>2. /\ e.seq = seq /\ e.bound = (started \/ wpc = "start")
      /\ wpc = "created" => e.kind = "session.created"
      /\ wpc = "start" => e.kind = "session.started"
      /\ wpc \in {"running", "cleaning"} => e.kind = "session.status_changed"
      /\ wpc = "source" => e.kind = "progress"
      /\ wpc = "cancelreq" => e.kind = "session.cancel_requested"
      /\ wpc = "cleanupStart" => e.kind = "cleanup.started"
      /\ wpc = "cleanupDone" => e.kind = "cleanup.completed" /\ e.verified = cleanupOk
      /\ wpc = "terminal" => /\ e.kind = TerminalKind(TerminalFor.status)
                             /\ e.status = TerminalFor.status
      /\ wpc # "terminal" => e.status = "none"
  BY RecordKind
<1>3. Flags(sc) /\ Counts(file) /\ Legal(file)
  BY <1>1, ScanMeans DEF Means, JournalLegal
<1>4. /\ seq = Len(file)
      /\ sc.started <=> started
      /\ (file = <<>>) <=> wpc = "created"
      /\ ~sc.ended
      /\ sc.status \in IF started THEN {"starting", "running"} ELSE {"created"}
      /\ wpc \in Uncancelled => ~sc.cancelled
      /\ wpc \in Settled /\ outcome = "cancelled" => sc.cancelled
      /\ wpc \in Uncleaned => ~sc.active /\ ~sc.last
      /\ wpc = "cleanupDone" => sc.active /\ ~sc.last
      /\ wpc = "terminal" => /\ started => sc.status = "running" /\ sc.attempted
                             /\ ~sc.active /\ (sc.last <=> cleanupOk)
  BY DEF WriterInv, Writing, Emitting, Alive, Fatal, Emptyhanded
<1>5. /\ wpc \in {"created", "start"} => ~started
      /\ wpc \in {"running", "source", "cleaning", "cleanupStart", "cleanupDone"} => started
      /\ ~started => ~cleanupOk
      /\ started \in BOOLEAN /\ cleanupOk \in BOOLEAN
  BY DEF ControlInv, Unstarted, Started, WorkerTypeOK
<1> HIDE DEF sc, e
<1>6. Admits(sc, e)
  <2>1. CASE wpc \in {"created", "source"}
    BY <1>2, <2>1 DEF Admits, TerminalKinds
  <2>2. CASE wpc = "start"
    <3>1. e.kind = "session.started" /\ ~sc.started /\ e.bound /\ sc.status = "created"
      BY <1>2, <1>4, <1>5, <2>2
    <3>2. "starting" \in NextStatuses["created"]
      BY DEF NextStatuses, Statuses
    <3> QED
      BY <3>1, <3>2 DEF Admits, TerminalKinds
  <2>3. CASE wpc \in {"running", "cleaning"}
    <3>1. e.kind = "session.status_changed" /\ sc.status \in {"starting", "running"}
      BY <1>2, <1>4, <1>5, <2>3
    <3>2. "running" \in NextStatuses[sc.status]
      BY <3>1 DEF NextStatuses, Statuses
    <3> QED
      BY <3>1, <3>2 DEF Admits, TerminalKinds
  <2>4. CASE wpc = "cancelreq"
    BY <1>2, <1>4, <2>4 DEF Admits, Uncancelled, TerminalKinds
  <2>5. CASE wpc = "cleanupStart"
    BY <1>2, <1>4, <2>5 DEF Admits, Uncleaned, TerminalKinds
  <2>6. CASE wpc = "cleanupDone"
    BY <1>2, <1>4, <2>6 DEF Admits, TerminalKinds
  <2>7. CASE wpc = "terminal"
    <3>1. sc.status \in IF started THEN {"running"} ELSE {"created"}
      BY <1>4, <2>7
    <3> QED
      BY <1>1, <1>2, <1>3, <1>4, <1>5, <2>7, <3>1, TerminalAdmitted
  <2> QED
    BY <2>1, <2>2, <2>3, <2>4, <2>5, <2>6, <2>7 DEF Emitting
<1>7. e.kind # "session.started" => e.bound = sc.started
  <2>1. wpc # "start" => e.bound = started
    BY <1>2, <1>5
  <2> QED
    BY <1>2, <1>3, <1>4, <1>5, <2>1 DEF Flags
<1>8. wpc = "terminal" => e.kind \in TerminalKinds
  BY <1>2, TerminalForType, TerminalKindType
<1>9. /\ file = <<>> => e.kind = "session.created"
      /\ e.kind = "cleanup.completed" => sc.started
      /\ e.kind = "cleanup.started" => ~sc.last
  BY <1>2, <1>4, <1>5, <1>8 DEF Emitting, TerminalKinds, Uncleaned
<1>10. e.status = "cancelled" => sc.cancelled
  <2>1. CASE wpc = "terminal"
    <3>1. e.status = "cancelled" => outcome = "cancelled"
      BY <1>2, <2>1 DEF TerminalFor
    <3> QED
      BY <1>4, <2>1, <3>1 DEF Settled
  <2> QED
    BY <1>2, <2>1
<1> QED
  BY <1>1, <1>2, <1>3, <1>4, <1>6, <1>7, <1>9, <1>10, LegalAppend DEF sc, e

(* Every step of the worker keeps its program points in line.              *)
LEMMA WorkerKeepsControl ==
  ASSUME WorkerTypeOK, ControlInv, WorkerNext
  PROVE  ControlInv'
<1> USE DEF fileVars, writerVars, journalVars, controlVars, tokenVars, diskVars, pipeVars,
        Alive, Emitting, Emptyhanded, Unstarted, Started, Fatal, Uncancelled, Uncleaned
<1>0. /\ ~started => ~cleanupOk
      /\ started \in BOOLEAN /\ cleanupOk \in BOOLEAN
  BY DEF ControlInv, WorkerTypeOK
<1>1. CASE BootRejected \/ JournalRefused \/ SendTerminal \/ FatalClose \/ Dies
  <2>1. wpc' = "dead" /\ ~sticky' /\ ~started' /\ ~cleanupOk'
    BY <1>1 DEF BootRejected, JournalRefused, SendTerminal, FatalClose, Dies, Exits
  <2> QED
    BY <2>1 DEF ControlInv
<1>2. CASE BootAccepted \/ CreateJournal \/ SendReady
  <2>1. CASE BootAccepted
    BY <2>1 DEF BootAccepted, ControlInv
  <2>2. CASE CreateJournal
    BY <2>2 DEF CreateJournal, ControlInv
  <2>3. CASE SendReady
    BY <2>3 DEF SendReady, ControlInv
  <2> QED
    BY <1>2, <2>1, <2>2, <2>3
<1>3. CASE EmitRecord
  <2>1. sticky' => wpc' = "fatalCleanup"
    BY <1>3 DEF EmitRecord, EmitOk, EmitRaises, AppendOk
  <2>2. wpc' \in {After(wpc), "fatalCleanup"} /\ wpc \in Emitting \ {"source"}
        /\ started' = (started \/ wpc = "start") /\ UNCHANGED <<outcome, cleanupOk>>
    BY <1>3 DEF EmitRecord
  <2>3. started' <=> (started \/ wpc = "start")
    BY <2>2, Zenon
  <2>4. wpc' \notin Emptyhanded
    BY <2>2 DEF After
  <2> QED
    BY <2>1, <2>2, <2>3, <2>4, <1>0 DEF After, ControlInv
<1>4. CASE Gate
  <2>1. CASE CheckRaises
    <3>1. wpc' \in {"cancelreq", "settle"} /\ (wpc' = "cancelreq" => outcome' = "cancelled")
      BY <2>1 DEF CheckRaises, AfterCheck
    <3> QED
      BY <1>4, <3>1 DEF Gate, ControlInv
  <2>2. CASE ~CheckRaises
    BY <1>4, <2>2 DEF Gate, ControlInv
  <2> QED
    BY <2>1, <2>2
<1>5. CASE BuildLaunch
  BY <1>5 DEF BuildLaunch, ControlInv
<1>6. CASE MakeWorkDir
  BY <1>6 DEF MakeWorkDir, ControlInv
<1>7. CASE SourceEmits
  BY <1>7 DEF SourceEmits, ControlInv
<1>8. CASE SourceEnds
  BY <1>8 DEF SourceEnds, ControlInv
<1>9. CASE Settle
  <2>1. wpc' \in {"cancelreq", "cleaning", "terminal"}
        /\ (wpc' = "cancelreq" => outcome' = "cancelled")
        /\ (wpc' = "cleaning" => started)
    BY <1>9 DEF Settle
  <2> QED
    BY <1>9, <2>1 DEF Settle, ControlInv
<1>10. CASE RemoveOwned
  BY <1>10 DEF RemoveOwned, ControlInv
<1>11. CASE CloseJournal \/ FatalCleanup \/ FatalSend
  <2>1. CASE CloseJournal
    BY <2>1 DEF CloseJournal, ControlInv
  <2>2. CASE FatalCleanup
    BY <2>2 DEF FatalCleanup, ControlInv
  <2>3. CASE FatalSend
    BY <2>3 DEF FatalSend, ControlInv
  <2> QED
    BY <1>11, <2>1, <2>2, <2>3
<1>12. CASE CancelReaderTakes \/ CancelReaderSignals \/ DeadlinePasses
  BY <1>12 DEF CancelReaderTakes, CancelReaderSignals, DeadlinePasses, ControlInv
<1> QED
  BY <1>1, <1>2, <1>3, <1>4, <1>5, <1>6, <1>7, <1>8, <1>9, <1>10, <1>11, <1>12
     DEF WorkerNext, WorkerStep

(* How the journal and its buffer may change.                              *)
Rests  == UNCHANGED <<file, torn, buffered, sticky, seq>>
Writes(e) == file' = Append(file, e) /\ torn' = "no" /\ buffered' = <<>>
Keeps(e) == file' = file /\ buffered' = <<e>> /\ sticky'
Ends == /\ wpc' = "dead" /\ buffered' = <<>> /\ ~sticky'
        /\ file' = file \/ \E e \in EventType : buffered = <<e>> /\ file' = Append(file, e)

(* An emission writes its record, or leaves it in the buffer of a journal  *)
(* that is fatal from then on.                                             *)
LEMMA EmissionWrites ==
  ASSUME WorkerTypeOK, WriterInv, Writing, NEW e, EmitOk(e) \/ EmitRaises(e)
  PROVE  /\ Writes(e) \/ Keeps(e)
         /\ EmitOk(e) => Writes(e) /\ seq' = seq + 1 /\ ~sticky'
         /\ ~EmitOk(e) => sticky'
         /\ exists' = exists
<1>1. buffered = <<>> /\ ~sticky /\ file \in Seq(EventType)
  BY DEF WriterInv, Writing, WorkerTypeOK
<1>2. ASSUME Durable(e) PROVE Writes(e)
  <2>1. file \o buffered = file /\ file \o <<e>> = Append(file, e)
    BY <1>1
  <2>2. file' = (file \o buffered) \o <<e>> /\ torn' = "no" /\ buffered' = <<>>
    BY <1>2 DEF Durable
  <2> QED
    BY <2>1, <2>2 DEF Writes
<1>3. CASE EmitOk(e)
  BY <1>1, <1>2, <1>3 DEF EmitOk, AppendOk
<1>4. CASE EmitRaises(e) /\ ~EmitOk(e)
  <2>1. WriteFails(e) /\ sticky' /\ exists' = exists
    BY <1>1, <1>4 DEF EmitRaises, AppendFails
  <2>2. ASSUME buffered' = Append(buffered, e), UNCHANGED file PROVE Keeps(e)
    <3>1. Append(<<>>, e) = <<e>>
      OBVIOUS
    <3> QED
      BY <1>1, <2>1, <2>2, <3>1 DEF Keeps
  <2> QED
    BY <1>2, <1>4, <2>1, <2>2 DEF WriteFails
<1> QED
  BY <1>3, <1>4

(* All a step of the worker can do to its journal.  An end may flush the   *)
(* kept record; a death in the middle of a write may leave it whole.       *)
LEMMA WorkerWrites ==
  ASSUME WorkerTypeOK, ControlInv, WriterInv, JournalLegal, WorkerNext
  PROVE  /\ exists => exists'
         /\ \/ Rests
            \/ wpc \in Emitting /\ ~sticky /\ (Writes(RecordAt(wpc)) \/ Keeps(RecordAt(wpc)))
            \/ Ends
            \/ wpc' = "dead" /\ wpc \in Emitting /\ ~sticky /\ buffered' = <<>> /\ ~sticky'
                 /\ file' = Append(file, RecordAt(wpc))
<1> USE DEF fileVars, writerVars, journalVars, controlVars, tokenVars, diskVars, pipeVars
<1>1. CASE BootRejected \/ JournalRefused \/ SendTerminal
  BY <1>1 DEF BootRejected, JournalRefused, SendTerminal, Exits, Ends
<1>2. CASE BootAccepted \/ CreateJournal \/ SendReady \/ Gate \/ BuildLaunch \/ MakeWorkDir
  BY <1>2 DEF BootAccepted, CreateJournal, SendReady, Gate, BuildLaunch, MakeWorkDir, Rests
<1>6. CASE \/ SourceEnds \/ Settle \/ RemoveOwned \/ CloseJournal \/ FatalCleanup \/ FatalSend
           \/ CancelReaderTakes \/ CancelReaderSignals \/ DeadlinePasses
  <2>1. CASE SourceEnds \/ Settle \/ CloseJournal \/ FatalSend
    BY <2>1 DEF SourceEnds, Settle, CloseJournal, FatalSend, Rests
  <2>2. CASE RemoveOwned \/ FatalCleanup
    <3>1. UNCHANGED journalVars
      BY <2>2, Zenon DEF RemoveOwned, FatalCleanup
    <3> QED
      BY <3>1 DEF Rests
  <2>3. CASE CancelReaderTakes \/ CancelReaderSignals \/ DeadlinePasses
    BY <2>3 DEF CancelReaderTakes, CancelReaderSignals, DeadlinePasses, Rests
  <2> QED
    BY <1>6, <2>1, <2>2, <2>3
<1>3. CASE EmitRecord \/ SourceEmits
  <2> DEFINE e == RecordAt(wpc)
  <2>1. wpc \in Emitting /\ (EmitOk(e) \/ EmitRaises(e))
    BY <1>3 DEF EmitRecord, SourceEmits, Emitting
  <2> HIDE DEF e
  <2>2. CASE sticky
    BY <2>1, <2>2 DEF EmitOk, EmitRaises, Rests
  <2>3. CASE ~sticky
    <3>1. Writing
      BY <2>1, <2>3 DEF Writing, Emitting, Alive, Fatal
    <3> QED
      BY <2>1, <2>3, <3>1, EmissionWrites DEF e
  <2> QED
    BY <2>2, <2>3
<1>4. CASE FatalClose
  <2>1. file' = file \o buffered \/ file' = file
    BY <1>4 DEF FatalClose
  <2>2. file \in Seq(EventType) /\ file \o <<>> = file
    BY DEF WorkerTypeOK
  <2>3. buffered = <<>> \/ \E e \in EventType : buffered = <<e>>
    BY DEF JournalLegal
  <2>4. ASSUME NEW e \in EventType, buffered = <<e>> PROVE file \o buffered = Append(file, e)
    BY <2>2, <2>4
  <2>5. file' = file \/ \E e \in EventType : buffered = <<e>> /\ file' = Append(file, e)
    BY <2>1, <2>2, <2>3, <2>4
  <2> QED
    BY <1>4, <2>5 DEF FatalClose, Exits, Ends
<1>5. CASE Dies
  BY <1>5 DEF Dies, Exits, Ends
<1> QED
  BY <1>1, <1>2, <1>3, <1>4, <1>5, <1>6 DEF WorkerNext, WorkerStep

(* Every step of the worker keeps the journal legal.                       *)
LEMMA WorkerKeepsLegal ==
  ASSUME WorkerTypeOK, ControlInv, WriterInv, JournalLegal, WorkerNext
  PROVE  JournalLegal'
<1> DEFINE e == RecordAt(wpc)
<1>1. file \in Seq(EventType) /\ buffered \in Seq(EventType)
  BY DEF WorkerTypeOK
<1>2. Legal(file) /\ (\A x : buffered = <<x>> => Legal(Append(file, x)))
  <2>1. ASSUME NEW x, buffered = <<x>> PROVE Legal(Append(file, x))
    <3>1. buffered # <<>>
      BY <2>1
    <3>2. PICK y \in EventType : buffered = <<y>> /\ Legal(Append(file, y))
      BY <3>1 DEF JournalLegal
    <3>3. x = y
      BY <2>1, <3>2
    <3> QED
      BY <3>2, <3>3
  <2> QED
    BY <2>1 DEF JournalLegal
<1>3. ASSUME wpc \in Emitting, ~sticky PROVE Legal(Append(file, e)) /\ e \in EventType
  BY <1>3, EmitLegal, RecordType
<1>4. /\ exists => exists'
      /\ \/ Rests
         \/ wpc \in Emitting /\ ~sticky /\ (Writes(e) \/ Keeps(e))
         \/ Ends
         \/ wpc' = "dead" /\ wpc \in Emitting /\ ~sticky /\ buffered' = <<>> /\ ~sticky'
              /\ file' = Append(file, e)
  BY WorkerWrites
<1>5. wpc' \in Alive \ {"boot", "journal"} => exists'
  <2>1. CASE wpc \in Alive \ {"boot", "journal"}
    BY <1>4, <2>1 DEF JournalLegal
  <2>2. CASE wpc \in {"boot", "journal", "suspended"}
    BY <2>2 DEF WorkerNext, WorkerStep, BootRejected, BootAccepted, CreateJournal,
       JournalRefused, SendReady, EmitRecord, Gate, BuildLaunch, MakeWorkDir, SourceEmits,
       SourceEnds, Settle, RemoveOwned, CloseJournal, SendTerminal, FatalCleanup, FatalSend,
       FatalClose, CancelReaderTakes, CancelReaderSignals, DeadlinePasses, Dies, Exits,
       Emitting, Alive
  <2>3. wpc \in Alive \cup {"suspended"}
    BY WorkerLives DEF WorkerTypeOK, WorkerPcs
  <2> QED
    BY <2>1, <2>2, <2>3
<1>6. ~exists' => file' = <<>>
  <2> SUFFICES ASSUME ~exists' PROVE file' = <<>>
    OBVIOUS
  <2>1. ~exists /\ file = <<>> /\ wpc \notin Emitting
    BY <1>4 DEF JournalLegal, Emitting, Alive
  <2>2. buffered = <<>> \/ sticky
    BY DEF JournalLegal
  <2>3. ~sticky
    BY <2>1 DEF ControlInv, JournalLegal, Fatal, Alive, Emitting
  <2>4. \A x : buffered # <<x>>
    BY <2>2, <2>3
  <2> QED
    BY <1>4, <2>1, <2>4 DEF Rests, Ends
<1> HIDE DEF e
<1>7. CASE Rests
  BY <1>2, <1>5, <1>6, <1>7 DEF Rests, JournalLegal
<1>8. CASE wpc \in Emitting /\ ~sticky /\ Writes(e)
  BY <1>3, <1>5, <1>6, <1>8 DEF Writes, JournalLegal
<1>9. CASE wpc \in Emitting /\ ~sticky /\ Keeps(e)
  BY <1>2, <1>3, <1>5, <1>6, <1>9 DEF Keeps, JournalLegal
<1>10. CASE Ends
  BY <1>2, <1>5, <1>6, <1>10 DEF Ends, JournalLegal
<1>11. CASE /\ wpc' = "dead" /\ wpc \in Emitting /\ ~sticky /\ buffered' = <<>> /\ ~sticky'
            /\ file' = Append(file, e)
  BY <1>3, <1>5, <1>6, <1>11 DEF JournalLegal
<1> QED
  BY <1>4, <1>7, <1>8, <1>9, <1>10, <1>11

(* The scan of the journal with the record of this point.                  *)
LEMMA RecordScan ==
  ASSUME WorkerTypeOK, wpc \in Emitting, NEW g, g = Append(file, RecordAt(wpc))
  PROVE  /\ Scan(g).started <=> (Scan(file).started \/ wpc = "start")
         /\ Scan(g).cancelled <=> (Scan(file).cancelled \/ wpc = "cancelreq")
         /\ Scan(g).active <=> (wpc # "cleanupDone"
                                     /\ (Scan(file).active \/ wpc = "cleanupStart"))
         /\ Scan(g).attempted <=> (Scan(file).attempted \/ wpc = "cleanupStart")
         /\ wpc = "cleanupDone" => (Scan(g).last <=> cleanupOk)
         /\ wpc # "cleanupDone" => (Scan(g).last <=> Scan(file).last)
         /\ Scan(g).ended <=> (Scan(file).ended \/ wpc = "terminal")
         /\ wpc = "start" => Scan(g).status = "starting"
         /\ wpc \in {"running", "cleaning"} => Scan(g).status = "running"
         /\ wpc \in {"created", "source", "cancelreq", "cleanupStart", "cleanupDone"}
              => Scan(g).status = Scan(file).status
<1> DEFINE e == RecordAt(wpc)
           sc == Scan(file)
           sn == Scan(g)
<1>1. e \in EventType /\ file \in Seq(EventType)
  BY RecordType DEF WorkerTypeOK
<1>2. sn = ScanStep(sc, e)
  BY <1>1, ScanAppend
<1>3. /\ wpc = "created" => e.kind = "session.created"
      /\ wpc = "start" => e.kind = "session.started"
      /\ wpc \in {"running", "cleaning"} => e.kind = "session.status_changed"
      /\ wpc = "source" => e.kind = "progress"
      /\ wpc = "cancelreq" => e.kind = "session.cancel_requested"
      /\ wpc = "cleanupStart" => e.kind = "cleanup.started"
      /\ wpc = "cleanupDone" => e.kind = "cleanup.completed" /\ e.verified = cleanupOk
      /\ wpc = "terminal" => e.kind \in TerminalKinds
  BY RecordKind, TerminalForType, TerminalKindType
<1>4. /\ sn.started <=> (sc.started \/ e.kind = "session.started")
      /\ sn.cancelled <=> (sc.cancelled \/ e.kind = "session.cancel_requested")
      /\ sn.active <=> (e.kind # "cleanup.completed" /\ (sc.active \/ e.kind = "cleanup.started"))
      /\ sn.attempted <=> (sc.attempted \/ e.kind = "cleanup.started")
      /\ sn.last = LastVerified(sc, e)
      /\ sn.ended <=> (sc.ended \/ e.kind \in TerminalKinds)
  BY <1>2, StepFields
<1>5. /\ e.kind = "session.started" => sn.status = "starting"
      /\ e.kind = "session.status_changed" => sn.status = "running"
      /\ e.kind \notin TerminalKinds \cup {"session.started", "session.status_changed"}
              => sn.status = sc.status
  BY <1>2, StepStatus
<1> HIDE DEF e, sc, sn
<1>6. /\ wpc = "start" <=> e.kind = "session.started"
      /\ wpc = "cancelreq" <=> e.kind = "session.cancel_requested"
      /\ wpc = "cleanupStart" <=> e.kind = "cleanup.started"
      /\ wpc = "cleanupDone" <=> e.kind = "cleanup.completed"
      /\ wpc = "terminal" <=> e.kind \in TerminalKinds
      /\ wpc \in {"running", "cleaning"} <=> e.kind = "session.status_changed"
  BY <1>3 DEF Emitting, TerminalKinds
<1>7. wpc = "cleanupDone" => (sn.last <=> cleanupOk)
  <2> SUFFICES ASSUME wpc = "cleanupDone" PROVE sn.last <=> cleanupOk
    OBVIOUS
  <2>1. sn.last = cleanupOk
    BY <1>3, <1>4 DEF LastVerified
  <2> QED
    BY <2>1
<1>8. wpc # "cleanupDone" => (sn.last <=> sc.last)
  <2> SUFFICES ASSUME wpc # "cleanupDone" PROVE sn.last <=> sc.last
    OBVIOUS
  <2>1. sn.last = sc.last
    BY <1>6, <1>4 DEF LastVerified
  <2> QED
    BY <2>1
<1>9. /\ wpc = "start" => sn.status = "starting"
      /\ wpc \in {"running", "cleaning"} => sn.status = "running"
      /\ wpc \in {"created", "source", "cancelreq", "cleanupStart", "cleanupDone"}
              => sn.status = sc.status
  BY <1>5, <1>6
<1>10. /\ sn.started <=> (sc.started \/ wpc = "start")
       /\ sn.cancelled <=> (sc.cancelled \/ wpc = "cancelreq")
       /\ sn.active <=> (wpc # "cleanupDone" /\ (sc.active \/ wpc = "cleanupStart"))
       /\ sn.attempted <=> (sc.attempted \/ wpc = "cleanupStart")
       /\ sn.ended <=> (sc.ended \/ wpc = "terminal")
  BY <1>4, <1>6
<1> QED
  BY <1>7, <1>8, <1>9, <1>10 DEF sc, sn

(* The same, when the step wrote it.                                       *)
LEMMA NextScan ==
  ASSUME WorkerTypeOK, wpc \in Emitting, file' = Append(file, RecordAt(wpc))
  PROVE  /\ Scan(file').started <=> (Scan(file).started \/ wpc = "start")
         /\ Scan(file').cancelled <=> (Scan(file).cancelled \/ wpc = "cancelreq")
         /\ Scan(file').active <=> (wpc # "cleanupDone"
                                     /\ (Scan(file).active \/ wpc = "cleanupStart"))
         /\ Scan(file').attempted <=> (Scan(file).attempted \/ wpc = "cleanupStart")
         /\ wpc = "cleanupDone" => (Scan(file').last <=> cleanupOk)
         /\ wpc # "cleanupDone" => (Scan(file').last <=> Scan(file).last)
         /\ Scan(file').ended <=> (Scan(file).ended \/ wpc = "terminal")
         /\ wpc = "start" => Scan(file').status = "starting"
         /\ wpc \in {"running", "cleaning"} => Scan(file').status = "running"
         /\ wpc \in {"created", "source", "cancelreq", "cleanupStart", "cleanupDone"}
              => Scan(file').status = Scan(file).status
  BY RecordScan

(* The result is built from the control variables alone.                   *)
LEMMA BuiltUnchanged ==
  ASSUME UNCHANGED controlVars
  PROVE  BuiltResult' = BuiltResult
  BY DEF controlVars, BuiltResult, TerminalFor

(* What the terminal record says is what the worker reports.               *)
LEMMA TerminalSays ==
  ASSUME WorkerTypeOK, WriterInv, ControlInv, JournalLegal, Writing, wpc = "terminal",
         file' = Append(file, RecordAt(wpc))
  PROVE  ResultOf(file') = BuiltResult
<1> DEFINE e == RecordAt(wpc)
           sn == Scan(file')
<1>0. wpc \in Emitting
  BY DEF Emitting
<1>1. e \in EventType /\ file \in Seq(EventType)
  BY <1>0, RecordType DEF WorkerTypeOK
<1>2. Last(file') = e /\ file' \in Seq(EventType)
  BY <1>1, AppendFacts
<1>3. e.status = TerminalFor.status /\ e.reason = TerminalFor.reason
  BY <1>0, RecordKind
<1>4. Counts(file')
  BY <1>2, ScanMeans DEF Means
<1>5. /\ sn.started <=> Scan(file).started
      /\ sn.last <=> Scan(file).last
  BY <1>0, NextScan
<1>6. /\ Scan(file).started <=> started
      /\ Scan(file).last <=> cleanupOk
  BY DEF WriterInv
<1>7. (HasStarted(file') <=> started) /\ (LastCleanupVerified(file') <=> cleanupOk)
  BY <1>4, <1>5, <1>6 DEF Counts
<1>8. HasStarted(file') = started /\ LastCleanupVerified(file') = cleanupOk
  <2>1. /\ HasStarted(file') \in BOOLEAN /\ LastCleanupVerified(file') \in BOOLEAN
        /\ started \in BOOLEAN /\ cleanupOk \in BOOLEAN
    BY DEF HasStarted, LastCleanupVerified, WorkerTypeOK
  <2> QED
    BY <1>7, <2>1
<1> HIDE DEF e
<1> QED
  BY <1>2, <1>3, <1>8, Zenon DEF ResultOf, BuiltResult

(* Every step of the worker keeps what it knows of its journal.            *)
LEMMA WorkerKeepsWriter ==
  ASSUME WorkerTypeOK, ControlInv, WriterInv, JournalLegal, WorkerNext
  PROVE  WriterInv'
<1> SUFFICES ASSUME Writing' PROVE WriterInv'
  BY DEF WriterInv
<1> USE DEF fileVars, writerVars, journalVars, controlVars, tokenVars, diskVars, pipeVars,
        Alive, Emitting, Emptyhanded, Unstarted, Started, Fatal, Uncancelled, Uncleaned, Settled
<1>0. /\ started \in BOOLEAN /\ cleanupOk \in BOOLEAN
      /\ wpc \in WorkerPcs /\ wpc' # "dead" /\ ~sticky'
  BY DEF WorkerTypeOK, Writing
<1> DEFINE sc == Scan(file)
<1>1. CASE BootRejected \/ JournalRefused \/ SendTerminal \/ FatalClose \/ Dies
  <2>1. wpc' = "dead"
    BY <1>1 DEF BootRejected, JournalRefused, SendTerminal, FatalClose, Dies, Exits
  <2> QED
    BY <1>0, <2>1
<1>2. CASE EmitRecord \/ SourceEmits
  <2> DEFINE e == RecordAt(wpc)
             sn == Scan(file')
  <2>1. /\ wpc \in Emitting /\ (EmitOk(e) \/ EmitRaises(e))
        /\ UNCHANGED <<outcome, cleanupOk>>
    BY <1>2 DEF EmitRecord, SourceEmits
  <2>2. Writing
    <3>1. ~sticky
      BY <1>0, <2>1 DEF EmitOk, EmitRaises
    <3> QED
      BY <2>1, <3>1 DEF Writing
  <2>3. EmitOk(e) /\ Writes(e) /\ seq' = seq + 1
    BY <1>0, <2>1, <2>2, EmissionWrites
  <2>4. wpc' = IF wpc = "source" THEN "source" ELSE After(wpc)
    <3>1. CASE EmitRecord
      <4>1. wpc' \in {After(wpc), "fatalCleanup"} /\ wpc # "source"
        BY <3>1 DEF EmitRecord
      <4> QED
        BY <4>1 DEF Writing
    <3>2. CASE SourceEmits
      <4>1. wpc' \in {"source", "fatalCleanup"} /\ wpc = "source"
        BY <3>2 DEF SourceEmits
      <4> QED
        BY <4>1 DEF Writing
    <3> QED
      BY <1>2, <3>1, <3>2
  <2>5. started' <=> (started \/ wpc = "start")
    <3>1. CASE EmitRecord
      <4>1. started' = (started \/ wpc = "start")
        BY <3>1 DEF EmitRecord
      <4> QED
        BY <4>1, Zenon
    <3>2. CASE SourceEmits
      BY <3>2 DEF SourceEmits
    <3> QED
      BY <1>2, <3>1, <3>2
  <2> HIDE DEF e, sc, sn
  <2>6. /\ file' = Append(file, e) /\ torn' = "no" /\ buffered' = <<>>
        /\ seq = Len(file) /\ file \in Seq(EventType) /\ e \in EventType
        /\ seq' = Len(file') /\ file' # <<>>
    <3>1. file' = Append(file, e) /\ torn' = "no" /\ buffered' = <<>>
      BY <2>3 DEF Writes
    <3>2. seq = Len(file) /\ file \in Seq(EventType) /\ e \in EventType
      BY <2>1, <2>2, RecordType DEF WriterInv, WorkerTypeOK, e
    <3> QED
      BY <2>3, <3>1, <3>2, AppendFacts
  <2>7. /\ sn.started <=> (sc.started \/ wpc = "start")
        /\ sn.cancelled <=> (sc.cancelled \/ wpc = "cancelreq")
        /\ sn.active <=> (wpc # "cleanupDone" /\ (sc.active \/ wpc = "cleanupStart"))
        /\ sn.attempted <=> (sc.attempted \/ wpc = "cleanupStart")
        /\ wpc = "cleanupDone" => (sn.last <=> cleanupOk)
        /\ wpc # "cleanupDone" => (sn.last <=> sc.last)
        /\ sn.ended <=> (sc.ended \/ wpc = "terminal")
        /\ wpc = "start" => sn.status = "starting"
        /\ wpc \in {"running", "cleaning"} => sn.status = "running"
        /\ wpc \in {"created", "source", "cancelreq", "cleanupStart", "cleanupDone"}
              => sn.status = sc.status
    BY <2>1, <2>6, NextScan DEF sn, sc, e
  <2>8. wpc = "terminal" => ResultOf(file') = BuiltResult'
    <3> SUFFICES ASSUME wpc = "terminal" PROVE ResultOf(file') = BuiltResult'
      OBVIOUS
    <3>1. started' = started
      BY <1>2 DEF EmitRecord, SourceEmits, WorkerTypeOK
    <3>2. BuiltResult' = BuiltResult
      BY <2>1, <3>1, BuiltUnchanged
    <3>3. ResultOf(file') = BuiltResult
      BY <2>2, <2>6, TerminalSays DEF e
    <3> QED
      BY <3>2, <3>3
  <2>9. /\ (file = <<>>) <=> wpc = "created"
        /\ sc.started <=> started
        /\ ~sc.ended
        /\ sc.status \in IF started THEN {"starting", "running"} ELSE {"created"}
        /\ wpc \in Uncancelled => ~sc.cancelled
        /\ wpc \in Settled /\ outcome = "completed" => ~sc.cancelled
        /\ wpc \in Settled /\ outcome = "cancelled" => sc.cancelled
        /\ wpc \in Uncleaned => ~sc.active /\ ~sc.attempted /\ ~sc.last
        /\ wpc \in {"cleanupStart", "remove", "cleanupDone"} => sc.status = "running"
        /\ wpc \in {"remove", "cleanupDone"} => sc.active /\ sc.attempted /\ ~sc.last
    BY <2>1, <2>2 DEF WriterInv, sc
  <2>10. /\ wpc \in {"created", "start"} => ~started
         /\ wpc \in {"running", "source", "cleaning", "cleanupStart", "cleanupDone"} => started
         /\ ~started => ~cleanupOk
         /\ wpc = "cancelreq" => outcome = "cancelled"
         /\ wpc \in {"created", "start", "running", "source"} => outcome = "completed"
    BY DEF ControlInv
  <2>11. /\ wpc = "created" => wpc' = "ready"
         /\ wpc = "start" => wpc' = "mkdir"
         /\ wpc = "running" => wpc' = "gate2"
         /\ wpc = "source" => wpc' = "source"
         /\ wpc = "cancelreq" => wpc' = "settle"
         /\ wpc = "cleaning" => wpc' = "cleanupStart"
         /\ wpc = "cleanupStart" => wpc' = "remove"
         /\ wpc = "cleanupDone" => wpc' = "terminal"
         /\ wpc = "terminal" => wpc' = "close"
    BY <2>4 DEF After
  <2> HIDE DEF fileVars, writerVars, journalVars, controlVars, tokenVars, diskVars, pipeVars, Alive
  <2> USE <2>1, <2>5, <2>6, <2>7, <2>8, <2>9, <2>10, <2>11 DEF WriterInv, Writing, sn
  <2>12. CASE wpc \in {"created", "start"}
    BY <2>12
  <2>13. CASE wpc \in {"running", "source"}
    BY <2>13
  <2>14. CASE wpc = "cancelreq"
    BY <2>14
  <2>15. CASE wpc = "cleaning"
    BY <2>15
  <2>16. CASE wpc = "cleanupStart"
    BY <2>16
  <2>17. CASE wpc = "cleanupDone"
    BY <2>17
  <2>18. CASE wpc = "terminal"
    BY <2>18
  <2> QED
    BY <2>1, <2>12, <2>13, <2>14, <2>15, <2>16, <2>17, <2>18
<1>3. CASE UNCHANGED <<journalVars, wpc, controlVars>>
  <2>1. BuiltResult' = BuiltResult
    BY <1>3, BuiltUnchanged
  <2> QED
    BY <1>3, <2>1 DEF WriterInv, Writing
<1>4. CASE CancelReaderTakes \/ CancelReaderSignals \/ DeadlinePasses
  <2>1. UNCHANGED <<journalVars, wpc, controlVars>>
    BY <1>4 DEF CancelReaderTakes, CancelReaderSignals, DeadlinePasses
  <2> QED
    BY <1>3, <2>1
<1>5. CASE BootAccepted
  BY <1>5 DEF BootAccepted, WriterInv, Writing
<1>6. CASE CreateJournal
  <2>1. /\ UNCHANGED <<file, torn, buffered, sticky, seq, started, outcome, cleanupOk>>
        /\ wpc = "journal" /\ wpc' = "created"
    BY <1>6, Zenon DEF CreateJournal
  <2>2. Writing
    BY <1>0, <2>1 DEF Writing
  <2> QED
    BY <2>1, <2>2 DEF WriterInv
<1>7. CASE SendReady
  BY <1>7 DEF SendReady, WriterInv, Writing
<1>8. CASE Gate
  <2>1. UNCHANGED <<journalVars, started, cleanupOk>> /\ wpc \in {"gate", "gate2", "source"}
    BY <1>8 DEF Gate
  <2>2. CASE CheckRaises
    <3>1. wpc' = IF outcome' = "cancelled" THEN "cancelreq" ELSE "settle"
      BY <2>2 DEF CheckRaises, AfterCheck
    <3>2. outcome' \in {"cancelled", "timed_out"}
      BY <2>2 DEF CheckRaises, WorkerTypeOK
    <3> QED
      BY <2>1, <3>1, <3>2 DEF WriterInv, Writing
  <2>3. CASE ~CheckRaises
    <3>1. outcome' = outcome /\ wpc' \in {"launch", "start", "source"}
          /\ (wpc = "gate" <=> wpc' # "source")
      BY <1>8, <2>3 DEF Gate
    <3> QED
      BY <2>1, <3>1 DEF WriterInv, Writing
  <2> QED
    BY <2>2, <2>3
<1>9. CASE BuildLaunch
  BY <1>9 DEF BuildLaunch, WriterInv, Writing
<1>10. CASE MakeWorkDir
  BY <1>10 DEF MakeWorkDir, WriterInv, Writing
<1>11. CASE SourceEnds
  BY <1>11 DEF SourceEnds, WriterInv, Writing
<1>12. CASE Settle
  <2>1. UNCHANGED <<journalVars, started, cleanupOk>> /\ wpc = "settle"
    BY <1>12 DEF Settle
  <2>2. \/ outcome' = "cancelled" /\ outcome = "completed" /\ wpc' = "cancelreq"
        \/ outcome' \in {outcome, "timed_out"} /\ wpc' = IF started THEN "cleaning" ELSE "terminal"
    BY <1>12 DEF Settle, WorkerTypeOK
  <2> QED
    BY <1>0, <2>1, <2>2 DEF WriterInv, Writing, ControlInv
<1>13. CASE RemoveOwned
  <2>1. UNCHANGED <<journalVars, started, outcome>> /\ wpc = "remove" /\ wpc' = "cleanupDone"
    BY <1>13, Zenon DEF RemoveOwned
  <2> QED
    BY <2>1 DEF WriterInv, Writing
<1>14. CASE CloseJournal
  <2>1. BuiltResult' = BuiltResult
    BY <1>14, BuiltUnchanged DEF CloseJournal
  <2> QED
    BY <1>14, <2>1 DEF CloseJournal, WriterInv, Writing
<1>15. CASE FatalCleanup \/ FatalSend
  <2>1. wpc' \in Fatal
    BY <1>15 DEF FatalCleanup, FatalSend
  <2> QED
    BY <2>1 DEF Writing
<1> QED
  BY <1>1, <1>2, <1>4, <1>5, <1>6, <1>7, <1>8, <1>9, <1>10, <1>11, <1>12, <1>13,
     <1>14, <1>15 DEF WorkerNext, WorkerStep

(* Three sorts of steps, told apart by what they do to the worker.         *)
Works == WorkerNext /\ UNCHANGED supervisorVars
Births == /\ wpc \in {"unborn", "suspended"} /\ wpc' \in {"suspended", "boot"}
          /\ UNCHANGED <<conf, journalVars, controlVars, tokenVars, diskVars, pipeVars>>
          /\ UNCHANGED <<cancelVars, readerVars, waitVars, reaped, endVars>>
          /\ dpc \in {"spawn", "contain"} /\ dpc' \in {"contain", "sendStart"}
Supervises == UNCHANGED <<conf, journalVars, wpc, controlVars, tokenVars>>

(* A step is one of the worker (being killed included), the birth of one,  *)
(* or leaves the worker's own state alone.                                 *)
LEMMA Steps ==
  ASSUME EndsInv, [Next]_vars
  PROVE  Works \/ Births \/ Supervises
<1> USE DEF workerVars
<1>1. CASE WorkerNext /\ UNCHANGED supervisorVars
  BY <1>1 DEF Works
<1>2. CASE User \/ UserSends \/ Interrupt \/ ReaderTakes \/ Clocks
  BY <1>2 DEF User, UserCloses, UserCancels, UserSends, Interrupt, ReaderTakes, Clocks,
     GraceExpires, HardExpires, Supervises
<1>3. CASE Driver
  <2>1. CASE Spawn
    BY <2>1 DEF Spawn, EndsInv, Births, Supervises
  <2>2. CASE Contain
    BY <2>2 DEF Contain, Births, Supervises
  <2>3. CASE Kill
    BY <2>3 DEF Kill, WorkerNext, Works
  <2>4. CASE SendStart \/ Unwound \/ HandshakeReady \/ HandshakeExit \/ HandshakeTimeout
    BY <2>4 DEF SendStart, Unwound, HandshakeReady, HandshakeExit, HandshakeTimeout, Supervises
  <2>5. CASE \/ FollowEnds \/ FollowStops \/ WaitTakesTerminal \/ TakesFatal \/ WaitSeesExit
             \/ WaitExpires \/ Escalated
    BY <2>5 DEF FollowEnds, FollowStops, WaitTakesTerminal, TakesFatal, WaitSeesExit,
       WaitExpires, Escalated, Supervises
  <2>6. CASE ClassifyRaises \/ Reap
    BY <2>6 DEF ClassifyRaises, Reap, Supervises
  <2>7. CASE Classify
    BY <2>7, Zenon DEF Classify, Supervises
  <2>8. CASE FatalReap
    BY <2>8, Zenon DEF FatalReap, Supervises
  <2>9. CASE Register
    BY <2>9, Zenon DEF Register, Supervises
  <2> QED
    BY <1>3, <2>1, <2>2, <2>3, <2>4, <2>5, <2>6, <2>7, <2>8, <2>9 DEF Driver
<1>4. CASE UNCHANGED vars
  BY <1>4 DEF vars, Supervises
<1> QED
  BY <1>1, <1>2, <1>3, <1>4 DEF Next, Rest

(* The invariant of the writing side.                                      *)
WriteInv == ControlInv /\ WriterInv /\ JournalLegal

(* No record at all is legal; so the invariant holds at first ...          *)
LEMMA LegalEmpty == Legal(<<>>)
  BY ScanEmpty DEF Legal, ScanStart, Opened

LEMMA InitWrite == Init => WriteInv
<1> SUFFICES ASSUME Init PROVE WriteInv
  OBVIOUS
<1>1. /\ wpc = "unborn" /\ ~exists /\ file = <<>> /\ torn = "no" /\ buffered = <<>> /\ seq = 0
      /\ ~sticky /\ ~started /\ ~cleanupOk /\ outcome = "completed"
  BY DEF Init, WorkerInit
<1>2. ControlInv
  BY <1>1 DEF ControlInv, Emptyhanded, Unstarted, Started, Fatal, Uncancelled, Uncleaned
<1>3. WriterInv
  BY <1>1 DEF WriterInv, Writing, Alive, Emitting
<1>4. JournalLegal
  BY <1>1, LegalEmpty DEF JournalLegal, Alive, Emitting
<1> QED
  BY <1>2, <1>3, <1>4 DEF WriteInv

(* ... every step keeps it ...                                             *)
LEMMA NextKeepsWrite == TypeOK /\ EndsInv /\ WriteInv /\ [Next]_vars => WriteInv'
<1> SUFFICES ASSUME TypeOK, EndsInv, WriteInv, [Next]_vars PROVE WriteInv'
  OBVIOUS
<1>0. WorkerTypeOK /\ ControlInv /\ WriterInv /\ JournalLegal
  BY DEF TypeOK, WriteInv
<1> USE DEF fileVars, writerVars, journalVars, controlVars
<1>1. CASE Works
  BY <1>0, <1>1, WorkerKeepsControl, WorkerKeepsWriter, WorkerKeepsLegal DEF Works, WriteInv
<1>2. CASE Births
  <2>1. /\ ~exists /\ file = <<>> /\ torn = "no" /\ buffered = <<>> /\ seq = 0 /\ ~sticky
        /\ ~started /\ ~cleanupOk /\ outcome = "completed"
        /\ UNCHANGED <<exists, file, torn, buffered, seq, sticky, started, cleanupOk, outcome>>
        /\ wpc' \in {"suspended", "boot"}
    BY <1>0, <1>2 DEF Births, ControlInv, Emptyhanded, Unstarted
  <2>2. ControlInv'
    BY <2>1 DEF ControlInv, Emptyhanded, Unstarted, Started, Fatal, Uncancelled, Uncleaned
  <2>3. WriterInv'
    <3>1. Scan(file') = ScanStart /\ Len(file') = 0
      BY <2>1, ScanEmpty
    <3> QED
      BY <2>1, <3>1 DEF WriterInv, Writing, Alive, Emitting, Emptyhanded, Fatal, Uncancelled,
         Uncleaned, Unstarted, Settled, ScanStart
  <2>4. JournalLegal'
    BY <2>1, LegalEmpty DEF JournalLegal, Alive, Emitting
  <2> QED
    BY <2>2, <2>3, <2>4 DEF WriteInv
<1>3. CASE Supervises
  <2>1. BuiltResult' = BuiltResult
    BY <1>3, BuiltUnchanged DEF Supervises
  <2>2. UNCHANGED <<wpc, exists, file, torn, buffered, seq, sticky, started, cleanupOk, outcome>>
    BY <1>3 DEF Supervises
  <2>3. ControlInv'
    BY <1>0, <2>2 DEF ControlInv
  <2>4. WriterInv'
    BY <1>0, <2>1, <2>2 DEF WriterInv, Writing
  <2>5. JournalLegal'
    BY <1>0, <2>2 DEF JournalLegal
  <2> QED
    BY <2>3, <2>4, <2>5 DEF WriteInv
<1> QED
  BY <1>1, <1>2, <1>3, Steps

(* ... and it holds for ever: at every moment the worker's journal, with or*)
(* without the record that waits in its buffer, is one the validator       *)
(* accepts so far.                                                         *)
THEOREM WriteInvariant == Spec => []WriteInv
<1>1. TypeOK /\ EndsInv /\ WriteInv /\ [Next]_vars => WriteInv'
  BY NextKeepsWrite
<1>2. IInv => TypeOK /\ EndsInv
  BY DEF IInv
<1> QED
  BY <1>1, <1>2, InductiveInvariant, InitWrite, PTL DEF Spec

(* However the worker fails, is killed or crashes, in the middle of a      *)
(* record or between two, the reader of journal.py never takes its journal *)
(* for malformed, takes it for undecodable only when records hold          *)
(* characters of several bytes, and derives an acceptable result from a    *)
(* complete one.                                                           *)
THEOREM JournalStaysWellFormed == Spec => []JournalNeverMalformed
<1>1. IInv /\ WriteInv => JournalNeverMalformed
  <2> SUFFICES ASSUME IInv, WriteInv PROVE JournalNeverMalformed
    OBVIOUS
  <2>1. file \in Seq(EventType) /\ exists \in BOOLEAN /\ torn \in Tails /\ Legal(file)
    BY DEF IInv, TypeOK, WorkerTypeOK, WriteInv, JournalLegal
  <2>2. torn = "split" => conf.unicode
    BY DEF IInv, JournalInv
  <2>3. /\ Read # "malformed" /\ (Read = "unreadable" => torn = "split")
        /\ Read = "complete" => ValidResult(ResultOf(file))
    BY <2>1, LegalReads DEF Read
  <2> QED
    BY <2>2, <2>3 DEF JournalNeverMalformed
<1> QED
  BY <1>1, InductiveInvariant, WriteInvariant, PTL

(* Messages do not lie: a terminal envelope is sent over a complete journal*)
(* that says the same, an error envelope by a worker without journal, and  *)
(* both are the worker's last step.                                        *)
Honest(m) ==
  /\ m.type = "terminal" => wpc = "dead" /\ Read = "complete" /\ m.result = ResultOf(file)
  /\ m.type \in ErrorKinds => wpc = "dead" /\ ~exists

(* The messages under way, and those received.                             *)
MessageInv ==
  /\ \A m \in received : Honest(m)
  /\ \A i \in DOMAIN stdout : Honest(stdout[i])

(* The sources of a message                                                *)
LEMMA WorkerSays ==
  ASSUME WorkerTypeOK, WorkerNext
  PROVE  \/ stdout' = stdout
         \/ \E m \in MessageType : /\ stdout' = Append(stdout, m)
                                   /\ m.type \notin ErrorKinds \cup {"terminal"}
         \/ \E m \in MessageType : /\ stdout' = Append(stdout, m) /\ m.type \in ErrorKinds
                                   /\ wpc \in {"boot", "journal"} /\ wpc' = "dead"
                                   /\ exists' = exists
         \/ \E m \in MessageType : /\ stdout' = Append(stdout, m) /\ m.type = "terminal"
                                   /\ wpc = "send" /\ m.result = BuiltResult /\ wpc' = "dead"
                                   /\ UNCHANGED <<exists, file, torn>>
<1> USE DEF fileVars, writerVars, journalVars, controlVars, tokenVars, diskVars, pipeVars
<1>1. CASE BootRejected \/ JournalRefused
  <2>1. \E k \in ErrorKinds : stdout' = Append(stdout, Message(k))
    BY <1>1 DEF BootRejected, JournalRefused, ErrorKinds
  <2>2. PICK k \in ErrorKinds : stdout' = Append(stdout, Message(k))
    BY <2>1
  <2>3. Message(k) \in MessageType /\ Message(k).type \in ErrorKinds
    BY MessageIsTyped DEF Message, MessageTypes
  <2>4. wpc \in {"boot", "journal"} /\ wpc' = "dead" /\ exists' = exists
    BY <1>1 DEF BootRejected, JournalRefused, Exits
  <2> QED
    BY <2>2, <2>3, <2>4, Zenon
<1>2. CASE SendTerminal
  <2> DEFINE m == [type |-> "terminal", result |-> BuiltResult]
  <2>1. m \in MessageType /\ m.type = "terminal" /\ m.result = BuiltResult
    BY TerminalForType
       DEF BuiltResult, ResultType, MessageType, MessageTypes, WorkerTypeOK
  <2>2. stdout' = Append(stdout, m) /\ wpc = "send"
        /\ wpc' = "dead" /\ UNCHANGED <<exists, file, torn>>
    BY <1>2 DEF SendTerminal, Exits
  <2> HIDE DEF m
  <2> QED
    BY <2>1, <2>2, Zenon
<1>3. CASE SendReady \/ FatalSend \/ EmitRecord \/ SourceEmits
  <2>1. \A k \in {"ready", "fatal", "event"} :
          Message(k) \in MessageType /\ Message(k).type \notin ErrorKinds \cup {"terminal"}
    BY MessageIsTyped DEF Message, MessageTypes, ErrorKinds
  <2>2. CASE SendReady
    BY <2>1, <2>2 DEF SendReady
  <2>3. CASE FatalSend
    BY <2>1, <2>3 DEF FatalSend
  <2>4. CASE EmitRecord \/ SourceEmits
    <3>1. \E e : EmitOk(e) \/ EmitRaises(e)
      BY <2>4 DEF EmitRecord, SourceEmits
    <3>2. stdout' \in {stdout, Notified}
      BY <3>1 DEF EmitOk, AppendOk, EmitRaises, AppendFails
    <3> QED
      BY <2>1, <3>2 DEF Notified
  <2> QED
    BY <1>3, <2>2, <2>3, <2>4
<1>4. CASE \/ BootAccepted \/ CreateJournal \/ Gate \/ BuildLaunch \/ MakeWorkDir
           \/ SourceEnds \/ Settle \/ CloseJournal
  BY <1>4 DEF BootAccepted, CreateJournal, Gate, BuildLaunch, MakeWorkDir, SourceEnds, Settle,
     CloseJournal
<1>5. CASE RemoveOwned \/ FatalCleanup \/ FatalClose \/ Dies
  <2>1. stdout' = stdout
    BY <1>5, Zenon DEF RemoveOwned, FatalCleanup, FatalClose, Dies
  <2> QED
    BY <2>1
<1>6. CASE CancelReaderTakes \/ CancelReaderSignals \/ DeadlinePasses
  BY <1>6 DEF CancelReaderTakes, CancelReaderSignals, DeadlinePasses
<1> QED
  BY <1>1, <1>2, <1>3, <1>4, <1>5, <1>6 DEF WorkerNext, WorkerStep

(* When the terminal envelope is sent the journal is complete.             *)
LEMMA SentIsHonest ==
  ASSUME TypeOK, WriteInv, wpc = "send", BuiltResult \in ResultType
  PROVE  Read = "complete" /\ BuiltResult = ResultOf(file)
<1>1. /\ file \in Seq(EventType) /\ exists \in BOOLEAN /\ torn \in Tails /\ Legal(file)
      /\ exists
  BY DEF TypeOK, WorkerTypeOK, WriteInv, JournalLegal, Alive
<1>2. ~sticky
  BY DEF WriteInv, ControlInv, Fatal
<1>3. torn = "no" /\ Scan(file).ended /\ BuiltResult = ResultOf(file)
  BY <1>2 DEF WriteInv, WriterInv, Writing, Alive, Fatal
<1>4. file # <<>> /\ Last(file).kind \in TerminalKinds
  BY <1>1, <1>3, ScanMeans DEF Means, Legal, Accepted, Ended
<1> QED
  BY <1>1, <1>3, <1>4, LegalReads DEF Read

(* The worker builds a result.                                             *)
LEMMA BuiltType ==
  ASSUME WorkerTypeOK
  PROVE  BuiltResult \in ResultType
  BY TerminalForType DEF BuiltResult, ResultType, WorkerTypeOK

(* The same of a message in the next state.                                *)
HonestNext(m) ==
  /\ m.type = "terminal" => wpc' = "dead" /\ Read' = "complete" /\ m.result = ResultOf(file')
  /\ m.type \in ErrorKinds => wpc' = "dead" /\ ~exists'

(* The invariant of the next state, without a prime around a prime.        *)
LEMMA MessagesNext ==
  ASSUME \A m \in received' : HonestNext(m),
         \A i \in DOMAIN stdout' : HonestNext(stdout'[i])
  PROVE  MessageInv'
  BY DEF MessageInv, Honest, HonestNext

(* The worker keeps its messages honest ...                                *)
LEMMA WorkerKeepsMessages ==
  ASSUME TypeOK, WriteInv, MessageInv, Works
  PROVE  MessageInv'
<1>0. /\ WorkerTypeOK /\ stdout \in Seq(MessageType) /\ wpc # "dead" /\ received' = received
      /\ WorkerNext
  BY WorkerLives DEF TypeOK, WorkerTypeOK, Works, supervisorVars, readerVars, MessageType
<1>1. /\ \A m \in received : m.type \notin ErrorKinds \cup {"terminal"}
      /\ \A i \in DOMAIN stdout : stdout[i].type \notin ErrorKinds \cup {"terminal"}
  BY <1>0 DEF MessageInv, Honest
<1>2. /\ \A m \in received' : HonestNext(m)
      /\ \A i \in DOMAIN stdout : HonestNext(stdout[i])
  BY <1>0, <1>1 DEF HonestNext
<1>3. ASSUME NEW m \in MessageType, stdout' = Append(stdout, m), HonestNext(m)
      PROVE  MessageInv'
  <2>1. \A i \in DOMAIN stdout' : stdout'[i] = m \/ (i \in DOMAIN stdout /\ stdout'[i] = stdout[i])
    <3>1. DOMAIN stdout = 1..Len(stdout) /\ Len(stdout) \in Nat
      BY <1>0
    <3> QED
      BY <1>0, <1>3, <3>1
  <2>2. \A i \in DOMAIN stdout' : HonestNext(stdout'[i])
    BY <1>2, <1>3, <2>1, Zenon
  <2> QED
    BY <1>2, <2>2, MessagesNext
<1>4. CASE stdout' = stdout
  BY <1>2, <1>4, MessagesNext
<1>5. ASSUME NEW m \in MessageType, stdout' = Append(stdout, m),
             m.type \notin ErrorKinds \cup {"terminal"}
      PROVE  MessageInv'
  BY <1>3, <1>5 DEF HonestNext
<1>6. ASSUME NEW m \in MessageType, stdout' = Append(stdout, m), m.type \in ErrorKinds,
             wpc \in {"boot", "journal"}, wpc' = "dead", exists' = exists
      PROVE  MessageInv'
  <2>1. ~exists'
    BY <1>6 DEF WriteInv, ControlInv, Emptyhanded
  <2>2. m.type # "terminal"
    BY <1>6 DEF ErrorKinds
  <2> QED
    BY <1>3, <1>6, <2>1, <2>2 DEF HonestNext
<1>7. ASSUME NEW m \in MessageType, stdout' = Append(stdout, m), m.type = "terminal",
             wpc = "send", m.result = BuiltResult, wpc' = "dead",
             UNCHANGED <<exists, file, torn>>
      PROVE  MessageInv'
  <2>1. Read = "complete" /\ BuiltResult = ResultOf(file)
    BY <1>0, <1>7, BuiltType, SentIsHonest
  <2>2. Read' = "complete" /\ m.result = ResultOf(file')
    BY <1>7, <2>1 DEF Read
  <2>3. m.type \notin ErrorKinds
    BY <1>7 DEF ErrorKinds
  <2> QED
    BY <1>3, <1>7, <2>2, <2>3 DEF HonestNext
<1> QED
  BY <1>0, <1>4, <1>5, <1>6, <1>7, WorkerSays, Zenon

(* Between the threads a message is only handed on.                        *)
LEMMA MessagesHandedOn ==
  ASSUME [Next]_vars, ~Works
  PROVE  \/ received' = received /\ stdout' = stdout
         \/ /\ stdout # <<>> /\ stdout' = Tail(stdout)
            /\ received' \subseteq received \cup {Head(stdout)}
<1> USE DEF workerVars, readerVars, pipeVars, supervisorVars
<1>1. CASE User \/ UserSends \/ Interrupt \/ Clocks
  BY <1>1 DEF User, UserCloses, UserCancels, UserSends, Interrupt, Clocks,
     GraceExpires, HardExpires
<1>2. CASE ReaderTakes
  BY <1>2 DEF ReaderTakes
<1>3. CASE Driver
  <2>1. CASE Spawn \/ Contain \/ SendStart \/ Unwound \/ HandshakeReady \/ HandshakeExit
    BY <2>1 DEF Spawn, Contain, SendStart, Unwound, HandshakeReady, HandshakeExit
  <2>2. CASE HandshakeTimeout \/ FollowEnds \/ FollowStops \/ WaitTakesTerminal
    BY <2>2 DEF HandshakeTimeout, FollowEnds, FollowStops, WaitTakesTerminal
  <2>3. CASE TakesFatal \/ WaitSeesExit \/ WaitExpires \/ Escalated
    BY <2>3 DEF TakesFatal, WaitSeesExit, WaitExpires, Escalated
  <2>4. CASE Classify \/ ClassifyRaises \/ FatalReap \/ Reap \/ Register
    <3>1. received' = received /\ stdout' = stdout
      BY <2>4, Zenon DEF Classify, ClassifyRaises, FatalReap, Reap, Register
    <3> QED
      BY <3>1
  <2>5. CASE Kill
    BY <2>5 DEF Kill, WorkerNext, Works
  <2> QED
    BY <1>3, <2>1, <2>2, <2>3, <2>4, <2>5 DEF Driver
<1>4. CASE WorkerNext /\ UNCHANGED supervisorVars
  BY <1>4 DEF Works
<1>5. CASE UNCHANGED vars
  BY <1>5 DEF vars
<1> QED
  BY <1>1, <1>2, <1>3, <1>4, <1>5 DEF Next, Rest

(* ... and so does everybody.                                              *)
LEMMA NextKeepsMessages ==
  TypeOK /\ EndsInv /\ WriteInv /\ MessageInv /\ [Next]_vars => MessageInv'
<1> SUFFICES ASSUME TypeOK, EndsInv, WriteInv, MessageInv, [Next]_vars PROVE MessageInv'
  OBVIOUS
<1>1. CASE Works
  BY <1>1, WorkerKeepsMessages
<1>2. CASE (Births \/ Supervises) /\ ~Works
  <2>1. \A m : Honest(m) => Honest(m)'
    BY <1>2 DEF Births, Supervises, Honest, Read, journalVars, fileVars
  <2>2. CASE received' = received /\ stdout' = stdout
    BY <2>1, <2>2 DEF MessageInv
  <2>3. CASE /\ stdout # <<>> /\ stdout' = Tail(stdout)
             /\ received' \subseteq received \cup {Head(stdout)}
    <3>1. stdout \in Seq(MessageType)
      BY DEF TypeOK, WorkerTypeOK, MessageType
    <3>2. /\ 1 \in DOMAIN stdout /\ Head(stdout) = stdout[1]
          /\ \A i \in DOMAIN stdout' : i + 1 \in DOMAIN stdout /\ stdout'[i] = stdout[i + 1]
      BY <2>3, <3>1
    <3> QED
      BY <2>1, <2>3, <3>2 DEF MessageInv
  <2> QED
    BY <1>2, <2>2, <2>3, MessagesHandedOn
<1> QED
  BY <1>1, <1>2, Steps

(* Nothing the session owns is left.                                       *)
Gone == ~workDir /\ ~worktree

(* The sequences of records that the journal holds or may still come to    *)
(* hold without another emission: a close may flush the kept record.       *)
Held(f) == f = file \/ \E e \in EventType : buffered = <<e>> /\ f = Append(file, e)

(* A cleanup that is, or may come to be, recorded as verified left nothing,*)
(* and nothing is made afterwards.                                         *)
CleanInv ==
  /\ cleanupOk => Gone
  /\ \A f : Held(f) /\ Scan(f).last => Gone

(* A cancellation has its source in a request of the supervisor's user.    *)
CancelInv ==
  /\ \A i \in DOMAIN stdin : stdin[i] = "cancel" => cancelRequested
  /\ cpc = "sending" \/ reason = "cancelled" \/ outcome = "cancelled" => cancelRequested
  /\ \A f : Held(f) /\ Scan(f).cancelled => cancelRequested

HeldNext(f) ==
  f = file' \/ \E e \in EventType : buffered' = <<e>> /\ f = Append(file', e)

(* What the journal may hold after a step of the worker it could hold      *)
(* before, but for the record being emitted.                               *)
LEMMA HeldGrows ==
  ASSUME WorkerTypeOK, WriteInv, WorkerNext, NEW f, HeldNext(f)
  PROVE  Held(f) \/ (wpc \in Emitting /\ ~sticky /\ f = Append(file, RecordAt(wpc)))
<1> DEFINE r == RecordAt(wpc)
<1>1. \/ Rests
      \/ wpc \in Emitting /\ ~sticky /\ (Writes(r) \/ Keeps(r))
      \/ Ends
      \/ wpc' = "dead" /\ wpc \in Emitting /\ ~sticky /\ buffered' = <<>> /\ ~sticky'
           /\ file' = Append(file, r)
  BY WorkerWrites DEF WriteInv
<1>2. \A e : <<e>> # <<>>
  OBVIOUS
<1>3. \A d, e : <<d>> = <<e>> => d = e
  OBVIOUS
<1> HIDE DEF r
<1>4. CASE Rests
  BY <1>4 DEF Rests, HeldNext, Held
<1>5. CASE wpc \in Emitting /\ ~sticky /\ Writes(r)
  BY <1>2, <1>5 DEF Writes, HeldNext, r
<1>6. CASE wpc \in Emitting /\ ~sticky /\ Keeps(r)
  BY <1>3, <1>6 DEF Keeps, HeldNext, Held, r
<1>7. CASE Ends
  BY <1>2, <1>7 DEF Ends, HeldNext, Held
<1>8. CASE /\ wpc' = "dead" /\ wpc \in Emitting /\ ~sticky /\ buffered' = <<>> /\ ~sticky'
           /\ file' = Append(file, r)
  BY <1>2, <1>8 DEF HeldNext, r
<1> QED
  BY <1>1, <1>4, <1>5, <1>6, <1>7, <1>8

(* (The same as Held, primed.)                                             *)
LEMMA HeldNextIs ==
  ASSUME NEW f
  PROVE  Held(f)' <=> HeldNext(f)
  BY DEF Held, HeldNext

(* The disk in a step of the worker.                                       *)
LEMMA WorkerDisk ==
  ASSUME WorkerTypeOK, ControlInv, WorkerNext
  PROVE  \/ /\ wpc = "mkdir" /\ UNCHANGED <<file, buffered, cleanupOk>>
         \/ (Gone => Gone') /\ (cleanupOk' => cleanupOk \/ Gone')
<1> USE DEF fileVars, writerVars, journalVars, controlVars, diskVars, Gone
<1>1. CASE MakeWorkDir
  BY <1>1 DEF MakeWorkDir
<1>2. CASE RemoveOwned
  <2>1. /\ workDir' = FALSE \/ workDir' = workDir
        /\ worktree' = FALSE \/ worktree' = worktree
        /\ cleanupOk' = FALSE \/ cleanupOk' = NothingLeft
    BY <1>2 DEF RemoveOwned
  <2>2. cleanupOk' => Gone'
    BY <2>1 DEF NothingLeft
  <2> QED
    BY <2>1, <2>2
<1>3. CASE FatalCleanup
  BY <1>3, Zenon DEF FatalCleanup
<1>4. CASE BootRejected \/ JournalRefused \/ SendTerminal \/ FatalClose \/ Dies
  BY <1>4 DEF BootRejected, JournalRefused, SendTerminal, FatalClose, Dies, Exits
<1>5. CASE BootAccepted \/ CreateJournal \/ SendReady \/ EmitRecord \/ Gate \/ BuildLaunch
  BY <1>5 DEF BootAccepted, CreateJournal, SendReady, EmitRecord, Gate, BuildLaunch
<1>6. CASE SourceEmits \/ SourceEnds \/ Settle \/ CloseJournal \/ FatalSend
  BY <1>6 DEF SourceEmits, SourceEnds, Settle, CloseJournal, FatalSend
<1>7. CASE CancelReaderTakes \/ CancelReaderSignals \/ DeadlinePasses
  BY <1>7 DEF CancelReaderTakes, CancelReaderSignals, DeadlinePasses
<1> QED
  BY <1>1, <1>2, <1>3, <1>4, <1>5, <1>6, <1>7 DEF WorkerNext, WorkerStep

(* The worker keeps its claim ...                                          *)
LEMMA WorkerKeepsClean ==
  ASSUME WorkerTypeOK, WriteInv, CleanInv, WorkerNext
  PROVE  CleanInv'
<1>1. CASE wpc = "mkdir" /\ UNCHANGED <<file, buffered, cleanupOk>>
  <2>1. Writing /\ ~cleanupOk
    BY <1>1 DEF WriteInv, ControlInv, Writing, Alive, Fatal, Uncleaned
  <2>2. buffered = <<>> /\ ~Scan(file).last
    BY <1>1, <2>1 DEF WriteInv, WriterInv, Uncleaned
  <2>3. \A f : Held(f)' => f = file
    BY <1>1, <2>2, HeldNextIs DEF HeldNext
  <2> QED
    BY <1>1, <2>1, <2>2, <2>3 DEF CleanInv
<1>2. CASE (Gone => Gone') /\ (cleanupOk' => cleanupOk \/ Gone')
  <2>1. cleanupOk' => Gone'
    BY <1>2 DEF CleanInv
  <2>2. ASSUME NEW f, HeldNext(f), Scan(f).last PROVE Gone'
    <3>1. CASE Held(f)
      BY <1>2, <2>2, <3>1 DEF CleanInv
    <3>2. CASE wpc \in Emitting /\ ~sticky /\ f = Append(file, RecordAt(wpc))
      <4>1. \/ wpc = "cleanupDone" /\ cleanupOk
            \/ Scan(file).last
        BY <2>2, <3>2, RecordScan
      <4>2. Held(file)
        BY DEF Held
      <4> QED
        BY <1>2, <4>1, <4>2 DEF CleanInv
    <3> QED
      BY <2>2, <3>1, <3>2, HeldGrows
  <2> QED
    BY <2>1, <2>2, HeldNextIs DEF CleanInv
<1> QED
  BY <1>1, <1>2, WorkerDisk DEF WriteInv

(* Only the supervisor's own removals touch the disk otherwise.            *)
LEMMA DiskShrinks ==
  ASSUME [Next]_vars, ~Works
  PROVE  Gone => Gone'
<1> USE DEF workerVars, diskVars, Gone
<1>1. CASE User \/ UserSends \/ Interrupt \/ ReaderTakes \/ Clocks
  BY <1>1 DEF User, UserCloses, UserCancels, UserSends, Interrupt, ReaderTakes, Clocks,
     GraceExpires, HardExpires
<1>2. CASE Driver
  <2>1. CASE Spawn \/ Contain \/ SendStart \/ Unwound \/ HandshakeReady \/ HandshakeExit
    BY <2>1 DEF Spawn, Contain, SendStart, Unwound, HandshakeReady, HandshakeExit
  <2>2. CASE HandshakeTimeout \/ FollowEnds \/ FollowStops \/ WaitTakesTerminal
    BY <2>2 DEF HandshakeTimeout, FollowEnds, FollowStops, WaitTakesTerminal
  <2>3. CASE TakesFatal \/ WaitSeesExit \/ WaitExpires \/ Escalated \/ ClassifyRaises \/ Reap
    BY <2>3 DEF TakesFatal, WaitSeesExit, WaitExpires, Escalated, ClassifyRaises, Reap
  <2>4. CASE Classify
    <3>1. /\ worktree' = worktree \/ PostMortemWorktree
          /\ workDir' = workDir \/ PostMortemWorkDir
      BY <2>4, Zenon DEF Classify
    <3> QED
      BY <3>1 DEF PostMortemWorktree, PostMortemWorkDir
  <2>5. CASE FatalReap
    <3>1. PostMortemWorktree /\ workDir' = workDir
      BY <2>5, Zenon DEF FatalReap
    <3> QED
      BY <3>1 DEF PostMortemWorktree
  <2>6. CASE Register
    <3>1. (worktree' = worktree \/ PostMortemWorktree) /\ workDir' = workDir
      BY <2>6, Zenon DEF Register
    <3> QED
      BY <3>1 DEF PostMortemWorktree
  <2>7. CASE Kill
    BY <2>7 DEF Kill, WorkerNext, Works
  <2> QED
    BY <1>2, <2>1, <2>2, <2>3, <2>4, <2>5, <2>6, <2>7 DEF Driver
<1>3. CASE WorkerNext /\ UNCHANGED supervisorVars
  BY <1>3 DEF Works
<1>4. CASE UNCHANGED vars
  BY <1>4 DEF vars
<1> QED
  BY <1>1, <1>2, <1>3, <1>4 DEF Next, Rest

(* ... and with these removals everybody does.                             *)
LEMMA NextKeepsClean ==
  TypeOK /\ EndsInv /\ WriteInv /\ CleanInv /\ [Next]_vars => CleanInv'
<1> SUFFICES ASSUME TypeOK, EndsInv, WriteInv, CleanInv, [Next]_vars PROVE CleanInv'
  OBVIOUS
<1>1. CASE Works
  BY <1>1, WorkerKeepsClean DEF TypeOK, Works
<1>2. CASE ~Works
  <2>1. Gone => Gone'
    BY <1>2, DiskShrinks
  <2>2. UNCHANGED <<file, buffered, cleanupOk>>
    BY <1>2, Steps DEF Births, Supervises, journalVars, fileVars, writerVars, controlVars
  <2>3. \A f : Held(f)' <=> Held(f)
    BY <2>2 DEF Held
  <2> QED
    BY <2>1, <2>2, <2>3 DEF CleanInv
<1> QED
  BY <1>1, <1>2

(* What is left to show of a cancellation after a step.                    *)
CancelNext(i) == stdin'[i] = "cancel" => cancelRequested'

LEMMA CancelNextIs ==
  ASSUME \A i \in DOMAIN stdin' : CancelNext(i),
         cpc' = "sending" \/ reason' = "cancelled" \/ outcome' = "cancelled" => cancelRequested',
         \A f : HeldNext(f) /\ Scan(f).cancelled => cancelRequested'
  PROVE  CancelInv'
  BY HeldNextIs DEF CancelInv, CancelNext

(* How a step changes the supervisor's pipe to the worker.                 *)
LEMMA StdinShapes ==
  ASSUME stdin \in Seq({"start", "cancel"}),
         \A i \in DOMAIN stdin : stdin[i] = "cancel" => cancelRequested,
         cancelRequested => cancelRequested',
         \/ stdin' = stdin
         \/ stdin' = <<>>
         \/ stdin # <<>> /\ stdin' = Tail(stdin)
         \/ stdin' = Append(stdin, "start")
         \/ stdin' = Append(stdin, "cancel") /\ cancelRequested'
  PROVE  \A i \in DOMAIN stdin' : CancelNext(i)
<1>1. CASE stdin' = stdin
  BY <1>1 DEF CancelNext
<1>2. CASE stdin' = <<>>
  BY <1>2 DEF CancelNext
<1>3. CASE stdin # <<>> /\ stdin' = Tail(stdin)
  <2>1. \A i \in DOMAIN stdin' : i + 1 \in DOMAIN stdin /\ stdin'[i] = stdin[i + 1]
    BY <1>3
  <2> QED
    BY <2>1 DEF CancelNext
<1>4. ASSUME NEW w \in {"start", "cancel"}, stdin' = Append(stdin, w),
             w = "cancel" => cancelRequested'
      PROVE  \A i \in DOMAIN stdin' : CancelNext(i)
  <2>1. \A i \in DOMAIN stdin' : stdin'[i] = w \/ (i \in DOMAIN stdin /\ stdin'[i] = stdin[i])
    BY <1>4
  <2> QED
    BY <1>4, <2>1 DEF CancelNext
<1> QED
  BY <1>1, <1>2, <1>3, <1>4

(* The token and the outcome in a step of the worker.                      *)
LEMMA WorkerToken ==
  ASSUME WorkerTypeOK, WorkerNext
  PROVE  /\ \/ stdin' = stdin
            \/ stdin' = <<>>
            \/ stdin # <<>> /\ stdin' = Tail(stdin)
         /\ reason' = "cancelled" =>
              reason = "cancelled" \/ (stdin # <<>> /\ Head(stdin) = "cancel")
         /\ outcome' = "cancelled" =>
              outcome = "cancelled" \/ reason = "cancelled" \/ reason' = "cancelled"
<1> USE DEF controlVars, tokenVars, pipeVars
<1>1. CASE BootRejected \/ JournalRefused \/ SendTerminal \/ FatalClose \/ Dies
  <2>1. stdin' = <<>> /\ reason' = "none" /\ outcome' = "completed"
    BY <1>1 DEF BootRejected, JournalRefused, SendTerminal, FatalClose, Dies, Exits
  <2> QED
    BY <2>1
<1>2. CASE BootAccepted
  BY <1>2 DEF BootAccepted
<1>3. CASE Gate
  <2>1. CASE CheckRaises
    BY <1>3, <2>1 DEF Gate, CheckRaises
  <2>2. CASE ~CheckRaises
    BY <1>3, <2>2 DEF Gate, CheckPasses
  <2> QED
    BY <2>1, <2>2
<1>4. CASE Settle
  BY <1>4 DEF Settle
<1>5. CASE CancelReaderTakes
  BY <1>5 DEF CancelReaderTakes
<1>6. CASE CreateJournal \/ SendReady \/ EmitRecord \/ BuildLaunch \/ MakeWorkDir
  BY <1>6 DEF CreateJournal, SendReady, EmitRecord, BuildLaunch, MakeWorkDir
<1>7. CASE SourceEmits \/ SourceEnds \/ CloseJournal \/ FatalSend
  BY <1>7 DEF SourceEmits, SourceEnds, CloseJournal, FatalSend
<1>8. CASE RemoveOwned \/ FatalCleanup
  <2>1. UNCHANGED <<outcome, tokenVars, pipeVars>>
    BY <1>8, Zenon DEF RemoveOwned, FatalCleanup
  <2> QED
    BY <2>1
<1>9. CASE CancelReaderSignals \/ DeadlinePasses
  BY <1>9 DEF CancelReaderSignals, DeadlinePasses
<1> QED
  BY <1>1, <1>2, <1>3, <1>4, <1>5, <1>6, <1>7, <1>8, <1>9 DEF WorkerNext, WorkerStep

(* The worker cancels nothing by itself ...                                *)
LEMMA WorkerKeepsCancel ==
  ASSUME WorkerTypeOK, WriteInv, CancelInv, Works
  PROVE  CancelInv'
<1>1. WorkerNext /\ UNCHANGED <<cpc, cancelRequested>>
  BY DEF Works, supervisorVars, cancelVars
<1>2. stdin \in Seq({"start", "cancel"})
  BY DEF WorkerTypeOK
<1>3. reason' = "cancelled" => cancelRequested
  <2>1. stdin # <<>> => 1 \in DOMAIN stdin /\ Head(stdin) = stdin[1]
    BY <1>2
  <2> QED
    BY <1>1, <2>1, WorkerToken DEF CancelInv
<1>4. outcome' = "cancelled" => cancelRequested
  BY <1>1, <1>3, WorkerToken DEF CancelInv
<1>5. \A i \in DOMAIN stdin' : CancelNext(i)
  BY <1>1, <1>2, WorkerToken, StdinShapes DEF CancelInv
<1>6. ASSUME NEW f, HeldNext(f), Scan(f).cancelled PROVE cancelRequested
  <2>1. CASE Held(f)
    BY <1>6, <2>1 DEF CancelInv
  <2>2. CASE wpc \in Emitting /\ ~sticky /\ f = Append(file, RecordAt(wpc))
    <3>1. Scan(file).cancelled \/ wpc = "cancelreq"
      BY <1>6, <2>2, RecordScan
    <3>2. wpc = "cancelreq" => outcome = "cancelled"
      BY DEF WriteInv, ControlInv
    <3>3. Held(file)
      BY DEF Held
    <3> QED
      BY <3>1, <3>2, <3>3 DEF CancelInv
  <2> QED
    BY <1>1, <1>6, <2>1, <2>2, HeldGrows
<1> QED
  BY <1>1, <1>3, <1>4, <1>5, <1>6, CancelNextIs DEF CancelInv

(* What the other threads do to the pipe and to the request.               *)
LEMMA SupervisorCancels ==
  ASSUME [Next]_vars, ~Works, TypeOK, CancelInv
  PROVE  /\ cancelRequested => cancelRequested'
         /\ cpc' = "sending" => cancelRequested'
         /\ \/ stdin' = stdin
            \/ stdin' = Append(stdin, "start")
            \/ stdin' = Append(stdin, "cancel") /\ cancelRequested'
<1> USE DEF workerVars, cancelVars, pipeVars
<1>0. cancelRequested \in BOOLEAN /\ (cpc = "sending" => cancelRequested)
  BY DEF TypeOK, SupervisorTypeOK, CancelInv
<1>1. CASE User
  BY <1>0, <1>1 DEF User, UserCloses, UserCancels
<1>2. CASE UserSends
  BY <1>0, <1>2 DEF UserSends, SendCancelEffect
<1>3. CASE Interrupt
  BY <1>0, <1>3 DEF Interrupt, SendCancelEffect
<1>4. CASE ReaderTakes \/ Clocks
  BY <1>0, <1>4 DEF ReaderTakes, Clocks, GraceExpires, HardExpires
<1>5. CASE Driver
  <2>1. CASE Spawn \/ Contain \/ Unwound \/ HandshakeExit
    BY <1>0, <2>1 DEF Spawn, Contain, Unwound, HandshakeExit
  <2>2. CASE HandshakeTimeout \/ FollowEnds \/ WaitTakesTerminal
    BY <1>0, <2>2 DEF HandshakeTimeout, FollowEnds, WaitTakesTerminal
  <2>3. CASE TakesFatal \/ WaitSeesExit \/ WaitExpires \/ Escalated \/ ClassifyRaises \/ Reap
    BY <1>0, <2>3 DEF TakesFatal, WaitSeesExit, WaitExpires, Escalated, ClassifyRaises, Reap
  <2>4. CASE Classify \/ FatalReap \/ Register
    <3>1. UNCHANGED <<cancelVars, pipeVars>>
      BY <2>4, Zenon DEF Classify, FatalReap, Register
    <3> QED
      BY <1>0, <3>1
  <2>5. CASE SendStart
    BY <1>0, <2>5 DEF SendStart
  <2>6. CASE HandshakeReady
    BY <1>0, <2>6 DEF HandshakeReady, SendCancelEffect
  <2>7. CASE FollowStops
    BY <1>0, <2>7 DEF FollowStops, SendCancelEffect
  <2>8. CASE Kill
    BY <2>8 DEF Kill, WorkerNext, Works
  <2> QED
    BY <1>5, <2>1, <2>2, <2>3, <2>4, <2>5, <2>6, <2>7, <2>8 DEF Driver
<1>6. CASE WorkerNext /\ UNCHANGED supervisorVars
  BY <1>6 DEF Works
<1>7. CASE UNCHANGED vars
  BY <1>0, <1>7 DEF vars, supervisorVars
<1> QED
  BY <1>1, <1>2, <1>3, <1>4, <1>5, <1>6, <1>7 DEF Next, Rest

(* ... so that every step keeps the invariant.                             *)
LEMMA NextKeepsCancel ==
  TypeOK /\ EndsInv /\ WriteInv /\ CancelInv /\ [Next]_vars => CancelInv'
<1> SUFFICES ASSUME TypeOK, EndsInv, WriteInv, CancelInv, [Next]_vars PROVE CancelInv'
  OBVIOUS
<1>1. CASE Works
  BY <1>1, WorkerKeepsCancel DEF TypeOK
<1>2. CASE ~Works
  <2>1. UNCHANGED <<file, buffered, outcome, reason>>
    BY <1>2, Steps DEF Births, Supervises, journalVars, fileVars, writerVars, controlVars,
       tokenVars
  <2>2. \A f : HeldNext(f) <=> Held(f)
    BY <2>1 DEF Held, HeldNext
  <2>3. stdin \in Seq({"start", "cancel"})
    BY DEF TypeOK, WorkerTypeOK
  <2>4. /\ cancelRequested => cancelRequested'
        /\ cpc' = "sending" => cancelRequested'
        /\ \/ stdin' = stdin
           \/ stdin' = Append(stdin, "start")
           \/ stdin' = Append(stdin, "cancel") /\ cancelRequested'
    BY <1>2, SupervisorCancels
  <2>5. \A i \in DOMAIN stdin' : CancelNext(i)
    BY <2>3, <2>4, StdinShapes DEF CancelInv
  <2> QED
    BY <2>1, <2>2, <2>4, <2>5, CancelNextIs DEF CancelInv
<1> QED
  BY <1>1, <1>2

(* A result the supervisor may settle on, by what it is explained by: a    *)
(* journal failure, a failed startup, the complete journal, or a worker    *)
(* that died without one.                                                  *)
Explained(r) ==
  \/ r.status = "failed" /\ r.reason = "journal_error" /\ ~r.verified
  \/ r.status = "failed" /\ ~r.verified /\ wpc = "dead" /\ ~exists
  \/ Read = "complete" /\ r = ResultOf(file) /\ wpc = "dead"
  \/ /\ r.status = "interrupted" /\ ~r.verified /\ wpc = "dead"
     /\ Read \in {"interrupted", "missing"}

(* The supervisor's result is explained.                                   *)
ResultInv == result # NoResult => Explained(result)

(* The history is written last, by a driver whose result came from a worker*)
(* that is dead, and from the journal as it stays.                         *)
RegisteredInv ==
  /\ result # NoResult /\ dpc \in {"finished", "closed"} => wpc = "dead"
  /\ registered # "none" => dpc = "closed"
  /\ registered # "none" /\ result # NoResult => registered = Registered(exists, file, torn)

(* Each source of a result explains it: the terminal envelope, ...         *)
LEMMA EnvelopeExplained ==
  ASSUME MessageInv, NEW m \in received, m.type = "terminal"
  PROVE  Explained(m.result)
  BY DEF MessageInv, Honest, Explained

(* ... an error envelope, ...                                              *)
LEMMA StartupExplained ==
  ASSUME MessageInv, NEW kind \in ErrorKinds, Received(kind)
  PROVE  Explained(StartupFailure)
<1>1. wpc = "dead" /\ ~exists
  BY DEF MessageInv, Honest, Received
<1>2. StartupFailure.status = "failed" /\ ~StartupFailure.verified
  BY DEF StartupFailure
<1> QED
  BY <1>1, <1>2 DEF Explained

(* ... the fatal one, ...                                                  *)
LEMMA FatalExplained == Explained(FatalResult)
<1>1. FatalResult.status = "failed" /\ FatalResult.reason = "journal_error"
      /\ ~FatalResult.verified
  BY DEF FatalResult
<1> QED
  BY <1>1 DEF Explained

(* ... and the journal of a worker that exited without any.                *)
LEMMA ExitExplained ==
  ASSUME TypeOK, WriteInv, wpc = "dead", Read # "unreadable"
  PROVE  Explained(ExitResult)
<1>1. file \in Seq(EventType) /\ exists \in BOOLEAN /\ torn \in Tails /\ Legal(file)
  BY DEF TypeOK, WorkerTypeOK, WriteInv, JournalLegal
<1>2. Read # "malformed" /\ (Read = "complete" => ValidResult(ResultOf(file)))
  BY <1>1, LegalReads DEF Read
<1>3. CASE Read = "complete"
  BY <1>2, <1>3 DEF ExitResult, Explained
<1>4. CASE Read # "complete"
  <2>1. ExitResult = Interrupted
    BY <1>2, <1>4 DEF ExitResult
  <2>2. Read \in {"interrupted", "missing"}
    BY <1>2, <1>4 DEF Read, ReadState
  <2>3. Interrupted.status = "interrupted" /\ ~Interrupted.verified
    BY DEF Interrupted
  <2> QED
    BY <2>1, <2>2, <2>3 DEF Explained
<1> QED
  BY <1>3, <1>4

(* A step that settles on a result comes from a phase before, leaves the   *)
(* worker and its journal alone, and settles on one that is explained.     *)
LEMMA SettlesExplained ==
  ASSUME TypeOK, EndsInv, WriteInv, MessageInv, [Next]_vars
  PROVE  \/ result' = result
         \/ /\ result = NoResult /\ ~Works /\ Explained(result')
            /\ dpc' \in {"finished", "closed"} => wpc = "dead"
            /\ dpc # "closed" /\ registered' = registered
<1> USE DEF endVars, supervisorVars
<1>1. CASE \/ WorkerNext /\ UNCHANGED supervisorVars
           \/ User \/ UserSends \/ ReaderTakes \/ Clocks \/ Interrupt
  BY <1>1 DEF User, UserCloses, UserCancels, UserSends, ReaderTakes, Clocks, GraceExpires,
     HardExpires, Interrupt
<1>2. CASE \/ Spawn \/ Contain \/ SendStart \/ Unwound \/ HandshakeReady \/ HandshakeExit
           \/ HandshakeTimeout \/ FollowEnds \/ FollowStops \/ WaitSeesExit \/ WaitExpires
           \/ Kill \/ Escalated
  BY <1>2 DEF Spawn, Contain, SendStart, Unwound, HandshakeReady, HandshakeExit,
     HandshakeTimeout, FollowEnds, FollowStops, WaitSeesExit, WaitExpires, Kill, Escalated
<1>3. CASE WaitTakesTerminal
  <2>1. /\ dpc = "waiting" /\ dpc' = "reap" /\ registered' = registered
        /\ \E m \in received : m.type = "terminal" /\ result' = m.result
    BY <1>3 DEF WaitTakesTerminal
  <2>2. result = NoResult /\ ~Works
    BY <2>1 DEF EndsInv, Settling, Works
  <2> QED
    BY <2>1, <2>2, EnvelopeExplained
<1>4. CASE TakesFatal
  <2>1. /\ dpc \in {"handshake", "waiting"} /\ registered' = registered
        /\ result' = result \/ (result' = FatalResult /\ dpc' = "fatalReap")
    BY <1>4 DEF TakesFatal, JournalRaises
  <2>2. result = NoResult
    BY <2>1 DEF EndsInv, Settling
  <2> QED
    BY <2>1, <2>2, FatalExplained DEF Works
<1>5. CASE Classify
  <2>1. /\ dpc = "drain" /\ wpc = "dead" /\ dpc' \in {"reap", "finished"}
        /\ registered' = registered
    BY <1>5, Zenon DEF Classify
  <2>2. \/ \E m \in received : m.type = "terminal" /\ result' = m.result
        \/ result' = FatalResult
        \/ (\E kind \in ErrorKinds : Received(kind)) /\ result' = StartupFailure
        \/ Read # "unreadable" /\ result' = ExitResult
    BY <1>5, Zenon DEF Classify
  <2>3. Explained(result')
    BY <2>1, <2>2, EnvelopeExplained, FatalExplained, StartupExplained, ExitExplained
  <2>4. result = NoResult /\ ~Works
    BY <2>1 DEF EndsInv, Settling, Works
  <2> QED
    BY <2>1, <2>3, <2>4
<1>6. CASE ClassifyRaises \/ FatalReap \/ Reap
  BY <1>6, Zenon DEF ClassifyRaises, FatalReap, Reap, JournalRaises
<1>7. CASE Register
  BY <1>7, Zenon DEF Register
<1>8. CASE UNCHANGED vars
  BY <1>8 DEF vars
<1> QED
  BY <1>1, <1>2, <1>3, <1>4, <1>5, <1>6, <1>7, <1>8 DEF Next, Rest, Driver

(* A dead worker's journal is not written any more.                        *)
LEMMA DeadStays ==
  ASSUME EndsInv, [Next]_vars, wpc = "dead"
  PROVE  Supervises
  BY Steps, WorkerLives DEF Births, Works

(* An explanation stays true.                                              *)
LEMMA ExplainedStays ==
  ASSUME NEW r, Explained(r),
         wpc = "dead" => UNCHANGED <<wpc, exists, file, torn>>
  PROVE  Explained(r)'
  BY DEF Explained, Read

(* So the result stays explained ...                                       *)
LEMMA NextKeepsResult ==
  TypeOK /\ EndsInv /\ WriteInv /\ MessageInv /\ ResultInv /\ [Next]_vars => ResultInv'
<1> SUFFICES ASSUME TypeOK, EndsInv, WriteInv, MessageInv, ResultInv, [Next]_vars,
                    result' # NoResult
             PROVE  ResultInv'
  BY DEF ResultInv
<1>1. wpc = "dead" => UNCHANGED <<wpc, exists, file, torn>>
  BY DeadStays DEF Supervises, journalVars, fileVars
<1>2. PICK r : r = result'
  OBVIOUS
<1>3. Explained(r)
  BY <1>2, SettlesExplained DEF ResultInv
<1>4. Explained(r)'
  BY <1>1, <1>3, ExplainedStays
<1> QED
  BY <1>2, <1>4 DEF ResultInv, Explained

(* The phase of the driver and the registration in a step that settles on  *)
(* nothing.                                                                *)
LEMMA RegisterSteps ==
  ASSUME EndsInv, [Next]_vars, result' = result
  PROVE  \/ dpc' = dpc /\ registered' = registered
         \/ /\ registered' = registered /\ dpc # "closed"
            /\ dpc' \in {"finished", "closed"} /\ result # NoResult => wpc = "dead"
         \/ /\ dpc = "finished" /\ dpc' = "closed" /\ UNCHANGED <<wpc, exists, file, torn>>
            /\ registered' \in {registered, Registered(exists, file, torn)}
<1> USE DEF endVars, supervisorVars
<1>1. CASE \/ WorkerNext /\ UNCHANGED supervisorVars
           \/ User \/ UserSends \/ ReaderTakes \/ Clocks \/ Interrupt
  BY <1>1 DEF User, UserCloses, UserCancels, UserSends, ReaderTakes, Clocks, GraceExpires,
     HardExpires, Interrupt, EnterWait
<1>2. CASE \/ Spawn \/ Contain \/ SendStart \/ Unwound \/ HandshakeReady \/ HandshakeExit
           \/ HandshakeTimeout \/ FollowEnds \/ FollowStops \/ WaitSeesExit \/ WaitExpires
           \/ Kill \/ Escalated \/ WaitTakesTerminal
  BY <1>2 DEF Spawn, Contain, SendStart, Unwound, HandshakeReady, HandshakeExit,
     HandshakeTimeout, FollowEnds, FollowStops, WaitSeesExit, WaitExpires, Kill, Escalated,
     WaitTakesTerminal, EnterWait
<1>3. CASE TakesFatal \/ ClassifyRaises
  <2>1. dpc \in {"handshake", "waiting", "drain"} /\ registered' = registered
    BY <1>3 DEF TakesFatal, ClassifyRaises
  <2> QED
    BY <2>1 DEF EndsInv, Settling
<1>4. CASE Classify
  <2>1. dpc = "drain" /\ registered' = registered
    BY <1>4, Zenon DEF Classify
  <2> QED
    BY <2>1 DEF EndsInv, Settling
<1>5. CASE FatalReap \/ Reap
  <2>1. dpc \in {"fatalReap", "reap"} /\ wpc = "dead" /\ registered' = registered
    BY <1>5, Zenon DEF FatalReap, Reap, WorkerGone
  <2> QED
    BY <2>1
<1>6. CASE Register
  <2>1. /\ dpc = "finished" /\ dpc' = "closed" /\ UNCHANGED <<wpc, exists, file, torn>>
    BY <1>6, Zenon DEF Register, journalVars, fileVars
  <2>2. registered' = registered \/ registered' = Registered(exists, file, torn)
    BY <1>6, Zenon DEF Register
  <2> QED
    BY <2>1, <2>2
<1>7. CASE UNCHANGED vars
  BY <1>7 DEF vars
<1> QED
  BY <1>1, <1>2, <1>3, <1>4, <1>5, <1>6, <1>7 DEF Next, Rest, Driver

(* ... and the registration true.                                          *)
LEMMA NextKeepsRegistered ==
  TypeOK /\ EndsInv /\ WriteInv /\ MessageInv /\ RegisteredInv /\ [Next]_vars
    => RegisteredInv'
<1> SUFFICES ASSUME TypeOK, EndsInv, WriteInv, MessageInv, RegisteredInv, [Next]_vars
             PROVE  RegisteredInv'
  OBVIOUS
<1>1. wpc = "dead" => UNCHANGED <<wpc, exists, file, torn>>
  BY DeadStays DEF Supervises, journalVars, fileVars
<1>2. CASE result' # result
  <2>1. /\ result = NoResult /\ (dpc' \in {"finished", "closed"} => wpc = "dead")
        /\ dpc # "closed" /\ registered' = registered
    BY <1>2, SettlesExplained
  <2> QED
    BY <1>1, <2>1 DEF RegisteredInv
<1>3. CASE result' = result
  <2>1. CASE dpc' = dpc /\ registered' = registered
    BY <1>1, <1>3, <2>1 DEF RegisteredInv
  <2>2. CASE /\ registered' = registered /\ dpc # "closed"
             /\ dpc' \in {"finished", "closed"} /\ result # NoResult => wpc = "dead"
    BY <1>1, <1>3, <2>2 DEF RegisteredInv
  <2>3. CASE /\ dpc = "finished" /\ dpc' = "closed" /\ UNCHANGED <<wpc, exists, file, torn>>
             /\ registered' \in {registered, Registered(exists, file, torn)}
    BY <1>1, <1>3, <2>3 DEF RegisteredInv
  <2> QED
    BY <1>3, <2>1, <2>2, <2>3, RegisterSteps
<1> QED
  BY <1>2, <1>3

(* The inductive invariant of what is reported.                            *)
ReportInv == MessageInv /\ CleanInv /\ CancelInv /\ ResultInv /\ RegisteredInv

LEMMA InitReport == Init => ReportInv
<1> SUFFICES ASSUME Init PROVE ReportInv
  OBVIOUS
<1>1. /\ file = <<>> /\ buffered = <<>> /\ stdin = <<>> /\ stdout = <<>> /\ received = {}
      /\ cleanupOk = FALSE /\ cpc = "idle" /\ reason = "none" /\ outcome = "completed"
      /\ result = NoResult /\ registered = "none"
  BY DEF Init, WorkerInit
<1>2. ~Scan(file).last /\ ~Scan(file).cancelled
  BY <1>1, ScanEmpty DEF ScanStart
<1>3. \A f : Held(f) => f = file
  BY <1>1 DEF Held
<1> QED
  BY <1>1, <1>2, <1>3 DEF ReportInv, MessageInv, CleanInv, CancelInv, ResultInv, RegisteredInv

(* It holds at first, and every step keeps it.                             *)
THEOREM ReportInvariant == Spec => []ReportInv
<1>1. TypeOK /\ EndsInv /\ WriteInv /\ ReportInv /\ [Next]_vars => ReportInv'
  BY NextKeepsMessages, NextKeepsClean, NextKeepsCancel, NextKeepsResult, NextKeepsRegistered
     DEF ReportInv
<1>2. IInv => TypeOK /\ EndsInv
  BY DEF IInv
<1> QED
  BY <1>1, <1>2, InductiveInvariant, WriteInvariant, InitReport, PTL DEF Spec

(* What a reader may rely on at any moment.                                *)
LEMMA Reported ==
  Spec => [](TypeOK /\ WriteInv /\ ReportInv)
<1>1. IInv => TypeOK
  BY DEF IInv
<1> QED
  BY <1>1, InductiveInvariant, WriteInvariant, ReportInvariant, PTL

(* A terminal envelope, under way or received, was sent over a complete    *)
(* journal and says exactly what _result_from_journal_events derives from  *)
(* it: whether the envelope or the journal settles the session makes no    *)
(* difference.                                                             *)
THEOREM EnvelopesMatch == Spec => []EnvelopeMatchesJournal
<1>1. TypeOK /\ WriteInv /\ ReportInv => EnvelopeMatchesJournal
  <2> SUFFICES ASSUME MessageInv, NEW m \in received \cup ToSet(stdout), m.type = "terminal"
               PROVE  Read = "complete" /\ m.result = ResultOf(file)
    BY DEF ReportInv, EnvelopeMatchesJournal
  <2>1. m \in received \/ \E i \in DOMAIN stdout : m = stdout[i]
    BY DEF ToSet
  <2> QED
    BY <2>1 DEF MessageInv, Honest
<1> QED
  BY <1>1, Reported, PTL

(* What a complete journal says of the session it ended.                   *)
LEMMA CompleteSays ==
  ASSUME TypeOK, WriteInv, Read = "complete"
  PROVE  /\ file # <<>> /\ torn = "no" /\ Last(file).kind \in TerminalKinds
         /\ Last(file).status \in EndStatuses
         /\ ValidResult(ResultOf(file))
         /\ Scan(file).ended /\ Scan(file).status = Last(file).status
         /\ Counts(file) /\ Legal(file)
<1>1. file \in Seq(EventType) /\ exists \in BOOLEAN /\ torn \in Tails /\ Legal(file)
  BY DEF TypeOK, WorkerTypeOK, WriteInv, JournalLegal
<1>2. /\ file # <<>> /\ torn = "no" /\ Last(file).kind \in TerminalKinds
      /\ ValidResult(ResultOf(file))
  BY <1>1, LegalReads DEF Read
<1>3. Counts(file) /\ Accepted(file)
  BY <1>1, ScanMeans DEF Means, Legal
<1>4. Scan(file).ended
  BY <1>2, <1>3 DEF Accepted, Ended
<1>5. Scan(file).status = Last(file).status
  BY <1>3, <1>4 DEF Accepted, EndsWell
<1>6. Last(file).status \in EndStatuses
  BY CompleteHasOutcome DEF TypeOK
<1> QED
  BY <1>1, <1>2, <1>3, <1>4, <1>5, <1>6

(* A result that claims a verified cleanup is true of the disk, whoever    *)
(* derived it, and success is never claimed without.                       *)
THEOREM CleanupClaimsHold == Spec => []CleanupClaimsAreTrue
<1>1. TypeOK /\ WriteInv /\ ReportInv => CleanupClaimsAreTrue
  <2> SUFFICES ASSUME TypeOK, WriteInv, CleanInv, ResultInv PROVE CleanupClaimsAreTrue
    BY DEF ReportInv
  <2>1. CASE result = NoResult
    BY <2>1 DEF NoResult, CleanupClaimsAreTrue
  <2>2. CASE Read = "complete" /\ result = ResultOf(file)
    <3>1. Counts(file) /\ ValidResult(ResultOf(file))
      BY <2>2, CompleteSays
    <3>2. result.verified => Scan(file).last
      <4>1. result.verified = LastCleanupVerified(file)
        BY <2>2 DEF ResultOf
      <4> QED
        BY <3>1, <4>1, Zenon DEF Counts
    <3>3. result.verified => Gone
      BY <3>2 DEF CleanInv, Held
    <3>4. result.status \in {"succeeded", "unresolved"} => result.verified
      BY <2>2, <3>1 DEF ValidResult
    <3> QED
      BY <3>3, <3>4 DEF Gone, CleanupClaimsAreTrue
  <2>3. CASE result.status \in {"failed", "interrupted"} /\ ~result.verified
    BY <2>3 DEF CleanupClaimsAreTrue
  <2> QED
    BY <2>1, <2>2, <2>3 DEF ResultInv, Explained
<1> QED
  BY <1>1, Reported, PTL

(* A session is reported cancelled only if someone cancelled it, and its   *)
(* journal recorded both the request and the end.                          *)
THEOREM CancellationIsDurable == Spec => []CancelledIsDurable
<1>1. TypeOK /\ WriteInv /\ ReportInv => CancelledIsDurable
  <2> SUFFICES ASSUME TypeOK, WriteInv, CancelInv, ResultInv, result.status = "cancelled"
               PROVE  /\ cancelRequested
                      /\ Read = "complete" /\ Last(file).status = "cancelled"
                      /\ \E i \in DOMAIN file : file[i].kind = "session.cancel_requested"
    BY DEF ReportInv, CancelledIsDurable
  <2>1. Read = "complete" /\ result = ResultOf(file)
    BY DEF ResultInv, Explained, NoResult
  <2>2. Last(file).status = "cancelled"
    BY <2>1 DEF ResultOf
  <2>3. Scan(file).cancelled
    BY <2>1, <2>2, CompleteSays DEF Legal
  <2>4. cancelRequested
    BY <2>3 DEF CancelInv, Held
  <2>5. CancelRequests(file) # {}
    BY <2>1, <2>3, CompleteSays DEF Counts
  <2> QED
    BY <2>1, <2>2, <2>4, <2>5 DEF CancelRequests
<1> QED
  BY <1>1, Reported, PTL

(* The session history of HistoryStore.register and the result of the      *)
(* supervisor tell the same end, except after a journal failure.           *)
THEOREM HistoriesAgree == Spec => []HistoryAgrees
<1>1. TypeOK /\ WriteInv /\ ReportInv => HistoryAgrees
  <2> SUFFICES ASSUME TypeOK, WriteInv, ResultInv, RegisteredInv,
                      registered # "none", result # NoResult
               PROVE  IF registered \in EndStatuses /\ Read = "complete"
                      THEN registered = result.status \/ result.reason = "journal_error"
                      ELSE result.status \in {"failed", "interrupted"}
    BY DEF ReportInv, HistoryAgrees
  <2>1. registered = Registered(exists, file, torn) /\ Explained(result)
    BY DEF ResultInv, RegisteredInv
  <2>2. CASE Read = "complete"
    <3>1. file # <<>> /\ Last(file).status \in EndStatuses
      BY <2>2, CompleteSays
    <3>2. registered = Last(file).status
      BY <2>1, <2>2, <3>1 DEF Registered, Classified, Read
    <3>3. \/ result.reason = "journal_error"
          \/ ~exists
          \/ result = ResultOf(file)
      BY <2>1, <2>2 DEF Explained
    <3>4. exists
      BY <2>2 DEF Read, ReadState, TypeOK, WorkerTypeOK
    <3> QED
      BY <3>1, <3>2, <3>3, <3>4, <2>2 DEF ResultOf
  <2>3. CASE Read # "complete"
    BY <2>1, <2>3 DEF Explained
  <2> QED
    BY <2>2, <2>3
<1> QED
  BY <1>1, Reported, PTL

-----------------------------------------------------------------------------
(* What a step does to the bytes behind the last whole record.             *)
LEMMA WorkerTears ==
  ASSUME WorkerNext
  PROVE  torn' = torn \/ (wpc \in Emitting /\ ~sticky) \/ buffered # <<>>
<1> USE DEF fileVars, journalVars
<1>1. CASE BootRejected \/ JournalRefused \/ SendTerminal \/ FatalClose \/ Dies
  BY <1>1 DEF BootRejected, JournalRefused, SendTerminal, FatalClose, Dies
<1>2. CASE EmitRecord \/ SourceEmits
  BY <1>2 DEF EmitRecord, SourceEmits, EmitOk, EmitRaises, Emitting
<1>3. CASE BootAccepted \/ CreateJournal \/ SendReady \/ Gate \/ BuildLaunch \/ MakeWorkDir
  BY <1>3 DEF BootAccepted, CreateJournal, SendReady, Gate, BuildLaunch, MakeWorkDir
<1>4. CASE SourceEnds \/ Settle \/ CloseJournal \/ FatalSend
  BY <1>4 DEF SourceEnds, Settle, CloseJournal, FatalSend
<1>5. CASE RemoveOwned \/ FatalCleanup
  <2>1. UNCHANGED journalVars
    BY <1>5, Zenon DEF RemoveOwned, FatalCleanup
  <2> QED
    BY <2>1
<1>6. CASE CancelReaderTakes \/ CancelReaderSignals \/ DeadlinePasses
  BY <1>6 DEF CancelReaderTakes, CancelReaderSignals, DeadlinePasses
<1> QED
  BY <1>1, <1>2, <1>3, <1>4, <1>5, <1>6 DEF WorkerNext, WorkerStep

(* An outcome is recorded by a terminal record in last position.           *)
LEMMA RecordedType ==
  ASSUME TypeOK
  PROVE  /\ Recorded \in EndStatuses \cup {"none"}
         /\ Recorded # "none" <=> file # <<>> /\ torn = "no" /\ Last(file).kind \in TerminalKinds
         /\ Recorded # "none" => Recorded = Last(file).status
<1>1. file # <<>> => Last(file) \in EventType
  BY LastEvent DEF TypeOK, WorkerTypeOK
<1> QED
  BY <1>1, TerminalStatus DEF Recorded, EndStatuses

LEMMA RecordedNext == TypeOK' => Recorded' \in EndStatuses \cup {"none"}
<1> SUFFICES ASSUME TypeOK' PROVE Recorded' \in EndStatuses \cup {"none"}
  OBVIOUS
<1>1. \A f \in Seq(EventType) : f # <<>> => Last(f).status \in EndStatuses \cup {"none"}
  BY LastEvent, TerminalStatus
<1>2. file' \in Seq(EventType)
  BY DEF TypeOK, WorkerTypeOK
<1> QED
  BY <1>1, <1>2 DEF Recorded

(* A recorded outcome is final.                                            *)
LEMMA RecordedStays ==
  ASSUME TypeOK, WriteInv, WorkerNext, Recorded # "none"
  PROVE  UNCHANGED <<file, torn>>
<1>0. WorkerTypeOK /\ file \in Seq(EventType) /\ buffered \in Seq(EventType) /\ Legal(file)
  BY DEF TypeOK, WorkerTypeOK, WriteInv, JournalLegal
<1>1. Scan(file).ended /\ torn = "no"
  <2>1. file # <<>> /\ torn = "no" /\ Last(file).kind \in TerminalKinds
    BY RecordedType
  <2>2. Accepted(file)
    BY <1>0, ScanMeans DEF Means, Legal
  <2> QED
    BY <2>1, <2>2 DEF Accepted, Ended
<1>2. ~(wpc \in Emitting /\ ~sticky)
  BY <1>1 DEF WriteInv, WriterInv, Writing, Emitting, Alive, Fatal
<1>3. buffered = <<>>
  <2> SUFFICES ASSUME buffered # <<>> PROVE FALSE
    OBVIOUS
  <2>1. PICK e \in EventType : Legal(Append(file, e))
    BY DEF WriteInv, JournalLegal
  <2>2. Scan(Append(file, e)) = ScanStep(Scan(file), e)
    BY <1>0, ScanAppend
  <2>3. ScanStep(Scan(file), e).ok
    BY <2>1, <2>2 DEF Legal
  <2> QED
    BY <1>1, <2>3 DEF ScanStep
<1>4. torn' = torn
  BY <1>2, <1>3, WorkerTears
<1>5. Held(file')
  BY <1>0, <1>2, HeldGrows DEF HeldNext
<1>6. file' = file
  BY <1>3, <1>5 DEF Held
<1> QED
  BY <1>4, <1>6

(* The detailed boundary implements the promise of SessionVerdict: an      *)
(* outcome is recorded once, a verdict is given once, the two agree.       *)
THEOREM BoundaryKeepsItsPromise == Spec => ImplementsVerdict
<1>1. Init => Verdict!Init
  BY DEF Init, WorkerInit, Verdict!Init, Recorded, NoResult
<1>2. /\ TypeOK /\ EndsInv /\ WriteInv /\ ReportInv /\ TypeOK' /\ WriteInv' /\ ReportInv'
      /\ [Next]_vars
      => [Verdict!Next]_<<Recorded, result.status>>
  <2> SUFFICES ASSUME TypeOK, EndsInv, WriteInv, ReportInv, TypeOK', WriteInv', ReportInv',
                      [Next]_vars
               PROVE  [Verdict!Next]_<<Recorded, result.status>>
    OBVIOUS
  <2>0. MessageInv /\ ResultInv /\ ResultInv'
    BY DEF ReportInv
  <2>1. CASE Works
    <3>1. WorkerNext /\ result' = result /\ wpc # "dead"
      BY <2>1, WorkerLives DEF Works, supervisorVars, endVars
    <3>2. result.status \in {"none", "failed"}
      BY <2>0, <3>1 DEF ResultInv, Explained, NoResult
    <3>3. CASE Recorded # "none"
      <4>1. Recorded' = Recorded
        BY <3>1, <3>3, RecordedStays DEF Recorded
      <4> QED
        BY <3>1, <4>1
    <3>4. CASE Recorded = "none"
      <4>1. Recorded' \in EndStatuses \cup {"none"}
        BY RecordedNext
      <4> QED
        BY <3>1, <3>2, <3>4, <4>1 DEF Verdict!Next, Verdict!Record
    <3> QED
      BY <3>3, <3>4
  <2>2. CASE ~Works
    <3>1. UNCHANGED <<exists, file, torn>>
      BY <2>2, Steps DEF Births, Supervises, journalVars, fileVars
    <3>2. Recorded' = Recorded
      BY <3>1 DEF Recorded
    <3>3. CASE result' = result
      BY <3>2, <3>3
    <3>4. CASE result' # result
      <4>1. result = NoResult /\ Explained(result')
        BY <2>0, <3>4, SettlesExplained
      <4>2. result.status = "none"
        BY <4>1 DEF NoResult
      <4>3. CASE result'.status = "failed"
        BY <3>2, <4>2, <4>3 DEF Verdict!Next, Verdict!GiveUp
      <4>4. CASE Read = "complete" /\ result' = ResultOf(file)
        <5>1. Recorded = Last(file).status /\ Recorded \in EndStatuses
          BY <4>4, CompleteSays DEF Recorded
        <5>2. result'.status = Recorded
          BY <4>4, <5>1 DEF ResultOf
        <5> QED
          BY <3>2, <4>2, <5>1, <5>2 DEF Verdict!Next, Verdict!Report
      <4>5. CASE result'.status = "interrupted" /\ Read \in {"interrupted", "missing"}
        <5>1. Recorded = "none"
          <6> SUFFICES ASSUME Recorded # "none" PROVE Read = "complete"
            BY <4>5
          <6>1. file # <<>> /\ torn = "no" /\ Last(file).kind \in TerminalKinds
            BY RecordedType
          <6>2. file \in Seq(EventType) /\ exists \in BOOLEAN /\ torn \in Tails /\ Legal(file)
                /\ exists
            BY <6>1 DEF TypeOK, WorkerTypeOK, WriteInv, JournalLegal
          <6> QED
            BY <6>1, <6>2, LegalReads DEF Read
        <5> QED
          BY <3>2, <4>2, <4>5, <5>1 DEF Verdict!Next, Verdict!GiveUp
      <4> QED
        BY <4>1, <4>3, <4>4, <4>5 DEF Explained
    <3> QED
      BY <3>3, <3>4
  <2> QED
    BY <2>1, <2>2
<1>3. Spec => [](TypeOK /\ EndsInv /\ WriteInv /\ ReportInv)
  <2>1. IInv => EndsInv
    BY DEF IInv
  <2> QED
    BY <2>1, InductiveInvariant, Reported, PTL
<1> QED
  BY <1>1, <1>2, <1>3, PTL DEF Spec, ImplementsVerdict, Verdict!Spec
=============================================================================
