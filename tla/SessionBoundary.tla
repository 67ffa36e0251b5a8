-------------------------- MODULE SessionBoundary --------------------------
(***************************************************************************)
(* The worker boundary: SessionWorkerProcess (application/worker_process   *)
(* .py) supervising one session worker, under either of its two drivers:   *)
(* a plain start()/wait() caller (scripts/local_project_headless.py), or   *)
(* LiveSessionRunner (ui/models.py), whose driver thread follows the       *)
(* journal and calls wait() only when the session looks finished.          *)
(*                                                                         *)
(* Four threads meet here besides the worker's: the driver (dpc), the      *)
(* protocol reader (it empties stdout into ready, received and surfaced),  *)
(* the user-interface thread that cancels and closes (cpc, stop), and the  *)
(* clock of the deadlines (grace, hard).  Waits of the code that are       *)
(* bounded by a generous timeout and end by themselves -- the reader's     *)
(* drain after the worker's exit, the reap of a worker that was killed or  *)
(* is past its last message -- are taken to end before their timeout.      *)
(***************************************************************************)
EXTENDS SessionWorker

VARIABLES
  dpc,               \* the driver thread
  cpc,               \* the user-interface thread: cancel() between its two steps
  cancelRequested,   \* _cancel_requested
  cancelSent,        \* _cancel_sent
  stop,              \* LiveSessionRunner._stop
  readerGone,        \* the reader thread ended before the pipe did
  ready,             \* _ready_event
  received,          \* _terminal, _fatal and _error: the envelopes received
  inWait,            \* the driver is past start(), inside wait()
  surfaced,          \* how many journal records the events property shows
  grace, hard,       \* the two deadlines of wait()
  reaped,            \* the worker's exit was collected (poll() or wait())
  result,            \* the SessionResult the supervisor settled on
  registered         \* what the session history lists

cancelVars == <<cpc, cancelRequested, cancelSent, stop>>
readerVars == <<readerGone, ready, received, surfaced>>
waitVars   == <<inWait, grace, hard>>
endVars    == <<result, registered>>
supervisorVars == <<dpc, cancelVars, readerVars, waitVars, reaped, endVars>>
vars == <<workerVars, supervisorVars>>

(* The driver is: about to spawn; containing a suspended worker (Windows); *)
(* about to write the start message; unwinding a failed start; polling for *)
(* the handshake; following the journal; in the loop of wait(); killing    *)
(* the worker; draining the pipe of an exited worker; making sure a fatal  *)
(* worker is gone; reaping after a result; left with registration only;    *)
(* done; or done after start() or wait() raised, without any result.       *)
DriverPcs == {"spawn", "contain", "sendStart", "unwind", "handshake", "follow",
              "waiting", "escalate", "drain", "fatalReap", "reap", "finished",
              "closed", "raised"}
Over == dpc \in {"closed", "raised"}

Received(type) == \E m \in received : m.type = type
Read == ReadState(exists, file, torn)

(* Mutants: the wait for the worker's end is cut short, after its last     *)
(* message or while a failed start is unwound.                             *)
WorkerGoneOrFatal  == wpc \in {"dead", "fatalClose"}
WorkerGoneOrUnwind == wpc = "dead" \/ dpc = "unwind"

(* Popen.wait() has returned: after a kill, or a last message.             *)
WorkerGone == wpc = "dead"

-----------------------------------------------------------------------------
(* Cancellation from the supervisor's side.                                *)

(* _send_cancel, atomic under the lock.  A dead worker is noticed by poll, *)
(* which also reaps it.                                                    *)
SendCancelEffect ==
  IF cancelSent \/ wpc = "unborn"
  THEN UNCHANGED <<cancelSent, reaped, stdin>>
  ELSE /\ cancelSent' = TRUE
       /\ IF wpc = "dead" THEN reaped' = TRUE /\ UNCHANGED stdin
                          ELSE stdin' = Append(stdin, "cancel") /\ UNCHANGED reaped

(* Once the result is known a cancel or a close changes nothing more.      *)
Undecided == result = NoResult /\ ~Over

(* LiveSessionRunner.close sets the stop flag, then calls cancel().        *)
UserCloses ==
  /\ conf.live /\ cpc = "idle" /\ ~stop /\ Undecided
  /\ stop' = TRUE /\ cpc' = "closing"
  /\ UNCHANGED <<workerVars, dpc, cancelRequested, cancelSent, readerVars, waitVars,
                 reaped, endVars>>

(* cancel(): the first call sets the flag under the lock, and then sends.  *)
UserCancels ==
  /\ conf.live
  /\ cpc = "closing" \/ (cpc = "idle" /\ ~cancelRequested /\ Undecided)
  /\ cancelRequested' = TRUE
  /\ cpc' = IF cancelRequested THEN "idle" ELSE "sending"
  /\ UNCHANGED <<workerVars, dpc, cancelSent, stop, readerVars, waitVars, reaped, endVars>>

UserSends ==
  /\ cpc = "sending" /\ cpc' = "idle"
  /\ SendCancelEffect
  /\ UNCHANGED <<conf, journalVars, wpc, controlVars, tokenVars, diskVars, stdout,
                 dpc, cancelRequested, stop, readerVars, waitVars, endVars>>

-----------------------------------------------------------------------------
(* The protocol reader: one message.  An event notification makes it       *)
(* surface every whole record written so far (_catch_up_journal).  Half a  *)
(* character behind them, left by a write that failed or was cut, or shown *)
(* by one that is going on, raises and ends the thread.                    *)
HalfCharacter ==
  CASE torn = "split" -> {TRUE}
    [] torn # "split" /\ conf.unicode /\ wpc \in Emitting /\ ~sticky -> BOOLEAN
    [] OTHER -> {FALSE}

ReaderTakes ==
  /\ ~readerGone /\ stdout # <<>> /\ stdout' = Tail(stdout)
  /\ LET m == Head(stdout)
     IN  /\ ready' = (ready \/ m.type = "ready")
         /\ surfaced' = IF m.type = "event" THEN Len(file) ELSE surfaced
         /\ readerGone' \in IF m.type = "event" THEN HalfCharacter ELSE {FALSE}
         /\ received' = IF m.type \in {"ready", "event"} THEN received
                        ELSE received \cup {m}
  /\ UNCHANGED <<conf, journalVars, wpc, controlVars, tokenVars, diskVars, stdin,
                 dpc, cancelVars, waitVars, reaped, endVars>>

-----------------------------------------------------------------------------
(* start(): spawn, contain on Windows, write the start message, handshake. *)

Spawn ==
  /\ dpc = "spawn"
  /\ \/ ~conf.posix /\ wpc' = "suspended" /\ dpc' = "contain"
     \/ conf.posix /\ wpc' = "boot" /\ dpc' = "sendStart"
     \/ dpc' = "raised" /\ UNCHANGED wpc
  /\ UNCHANGED <<conf, journalVars, controlVars, tokenVars, diskVars, pipeVars,
                 cancelVars, readerVars, waitVars, reaped, endVars>>

(* _contain_worker: the job is assigned and the worker resumed, or the     *)
(* start is unwound.                                                       *)
Contain ==
  /\ dpc = "contain"
  /\ \/ wpc = "suspended" /\ wpc' = "boot" /\ dpc' = "sendStart"
     \/ dpc' = "unwind" /\ UNCHANGED wpc
  /\ UNCHANGED <<conf, journalVars, controlVars, tokenVars, diskVars, pipeVars,
                 cancelVars, readerVars, waitVars, reaped, endVars>>

(* The write happens outside the supervisor's lock, and fails when the     *)
(* worker is gone.                                                         *)
SendStart ==
  /\ dpc = "sendStart"
  /\ IF wpc = "dead" THEN dpc' = "unwind" /\ UNCHANGED stdin
                     ELSE dpc' = "handshake" /\ stdin' = Append(stdin, "start")
  /\ UNCHANGED <<conf, journalVars, wpc, controlVars, tokenVars, diskVars, stdout,
                 cancelVars, readerVars, waitVars, reaped, endVars>>

(* _unwind_after_spawn, once the kill ladder has done its work.            *)
Unwound ==
  /\ dpc = "unwind" /\ WorkerGone
  /\ reaped' = TRUE /\ dpc' = "raised"
  /\ UNCHANGED <<workerVars, cancelVars, readerVars, waitVars, endVars>>

(* Mutant: only the worker's own deadline bounds the wait.                 *)
EnterWaitWithoutGrace(cancelled) ==
  /\ dpc' = "waiting" /\ inWait' = TRUE
  /\ grace' = "off"
  /\ hard' = IF conf.deadline THEN "armed" ELSE "off"

(* What wait() computes when it is entered, and never again in its loop.   *)
EnterWait(cancelled) ==
  /\ dpc' = "waiting" /\ inWait' = TRUE
  /\ grace' = IF cancelled THEN "armed" ELSE "off"
  /\ hard' = IF conf.deadline THEN "armed" ELSE "off"

HandshakeReady ==
  /\ dpc = "handshake" /\ ready
  /\ IF cancelRequested THEN SendCancelEffect ELSE UNCHANGED <<cancelSent, reaped, stdin>>
  /\ IF conf.live THEN dpc' = "follow" /\ UNCHANGED waitVars
                  ELSE EnterWait(cancelRequested)
  /\ UNCHANGED <<conf, journalVars, wpc, controlVars, tokenVars, diskVars, stdout,
                 cpc, cancelRequested, stop, readerVars, endVars>>

(* An error envelope comes from a worker that has exited already.          *)
HandshakeExit ==
  /\ dpc = "handshake" /\ ~ready /\ ~Received("fatal") /\ wpc = "dead"
  /\ reaped' = TRUE /\ dpc' = "drain"
  /\ UNCHANGED <<workerVars, cancelVars, readerVars, waitVars, endVars>>

HandshakeTimeout ==
  /\ dpc = "handshake" /\ ~ready /\ received = {} /\ wpc # "dead"
  /\ dpc' = "escalate"
  /\ UNCHANGED <<workerVars, cancelVars, readerVars, waitVars, reaped, endVars>>

-----------------------------------------------------------------------------
(* LiveSessionRunner._drive_events: until the terminal event is surfaced,  *)
(* the worker's pid is gone, or the runner is told to stop.  On POSIX the  *)
(* pid of an unreaped child still answers kill(pid, 0).                    *)
PidAlive == wpc # "dead" \/ (conf.posix /\ ~reaped)

FollowEnds ==
  /\ dpc = "follow" /\ ~stop
  /\ \/ surfaced > 0 /\ file[surfaced].kind \in TerminalKinds
     \/ ~PidAlive
  /\ EnterWait(cancelRequested)
  /\ UNCHANGED <<workerVars, cancelVars, readerVars, reaped, endVars>>

FollowStops ==
  /\ dpc = "follow" /\ stop
  /\ cancelRequested' = TRUE
  /\ IF cancelRequested THEN UNCHANGED <<cancelSent, reaped, stdin>> ELSE SendCancelEffect
  /\ EnterWait(TRUE)
  /\ UNCHANGED <<conf, journalVars, wpc, controlVars, tokenVars, diskVars, stdout,
                 cpc, stop, readerVars, endVars>>

-----------------------------------------------------------------------------
(* wait().                                                                 *)

(* KeyboardInterrupt in the headless driver: cancel, and wait again.       *)
Interrupt ==
  /\ dpc = "waiting" /\ ~conf.live /\ ~cancelRequested
  /\ cancelRequested' = TRUE
  /\ SendCancelEffect
  /\ EnterWait(TRUE)
  /\ UNCHANGED <<conf, journalVars, wpc, controlVars, tokenVars, diskVars, stdout,
                 cpc, stop, readerVars, endVars>>

(* Clocks, looked at in the loop only.  The hard deadline lies a grace      *)
(* period after the worker's own.                                          *)
GraceExpires ==
  /\ dpc = "waiting" /\ grace = "armed" /\ grace' = "expired"
  /\ UNCHANGED <<workerVars, dpc, cancelVars, readerVars, inWait, hard, reaped, endVars>>

HardExpires ==
  /\ dpc = "waiting" /\ hard = "armed" /\ (clock = "passed" \/ wpc = "dead") /\ hard' = "expired"
  /\ UNCHANGED <<workerVars, dpc, cancelVars, readerVars, inWait, grace, reaped, endVars>>

WaitTakesTerminal ==
  /\ dpc = "waiting"
  /\ \E m \in received : m.type = "terminal" /\ result' = m.result
  /\ dpc' = "reap"
  /\ UNCHANGED <<workerVars, cancelVars, readerVars, waitVars, reaped, registered>>

FatalResult ==
  [status |-> "failed", reason |-> "journal_error",
   run |-> HasStarted(file), verified |-> FALSE]

(* The journal cannot be decoded, and the error leaves start() or wait().  *)
(* The driver ends; one that was told to stop still tries to register.     *)
JournalRaises ==
  /\ dpc' \in {"raised"} \cup IF inWait /\ stop THEN {"finished"} ELSE {}
  /\ UNCHANGED result

(* The fatal envelope, in the handshake or in wait().                      *)
TakesFatal ==
  /\ (dpc = "handshake" /\ ~ready) \/ dpc = "waiting"
  /\ Received("fatal")
  /\ IF Read = "unreadable" THEN JournalRaises
                            ELSE result' = FatalResult /\ dpc' = "fatalReap"
  /\ UNCHANGED <<workerVars, cancelVars, readerVars, waitVars, reaped, registered>>

WaitSeesExit ==
  /\ dpc = "waiting" /\ received = {} /\ wpc = "dead"
  /\ reaped' = TRUE /\ dpc' = "drain"
  /\ UNCHANGED <<workerVars, cancelVars, readerVars, waitVars, endVars>>

WaitExpires ==
  /\ dpc = "waiting" /\ received = {} /\ wpc # "dead"
  /\ grace = "expired" \/ hard = "expired"
  /\ dpc' = "escalate"
  /\ UNCHANGED <<workerVars, cancelVars, readerVars, waitVars, reaped, endVars>>

(* terminate_process_tree.  A fatal worker that does not exit is killed    *)
(* too, except by a wait() that has no worktree to remove.                 *)
Kill ==
  /\ \/ dpc \in {"escalate", "unwind"}
     \/ dpc = "fatalReap" /\ (conf.local \/ ~inWait)
  /\ Dies
  /\ UNCHANGED supervisorVars

Escalated ==
  /\ dpc = "escalate" /\ WorkerGone
  /\ reaped' = TRUE /\ dpc' = "drain"
  /\ UNCHANGED <<workerVars, cancelVars, readerVars, waitVars, endVars>>

-----------------------------------------------------------------------------
(* Classification of an exited worker whose pipe is drained: a terminal,   *)
(* fatal or error envelope, in this order, and then the journal.           *)

StartupFailure ==
  [status |-> "failed", run |-> FALSE, verified |-> FALSE,
   reason |-> IF Received("journal_creation_failed")
              THEN "journal_error" ELSE "controller_failed"]

(* Mutant: a killed worker counts as cancelled when that was asked for.    *)
InterruptedOrCancelled ==
  LET word == IF cancelRequested THEN "cancelled" ELSE "interrupted"
  IN  [status |-> word, reason |-> word, run |-> HasStarted(file), verified |-> FALSE]

Interrupted == [status |-> "interrupted", reason |-> "interrupted",
                run |-> HasStarted(file), verified |-> FALSE]

(* Mutant: a worker that sent no last message was interrupted.             *)
ExitResultWithoutJournal == Interrupted

(* _classify_after_exit *)
ExitResult ==
  CASE Read = "complete" /\ ValidResult(ResultOf(file))  -> ResultOf(file)
    [] Read = "complete" /\ ~ValidResult(ResultOf(file)) -> [Interrupted EXCEPT !.run = FALSE]
    [] Read = "malformed"                                -> FatalResult
    [] OTHER                                             -> Interrupted

(* The join of the reader thread returns.                                  *)
Drained == stdout = <<>> \/ readerGone

(* An exit without envelope, or a fatal one, makes the journal be read.    *)
ClassifyRaises ==
  /\ dpc = "drain" /\ wpc = "dead" /\ Drained
  /\ Read = "unreadable"
  /\ received = {} \/ (Received("fatal") /\ ~Received("terminal"))
  /\ JournalRaises
  /\ UNCHANGED <<workerVars, cancelVars, readerVars, waitVars, reaped, registered>>

(* The supervisor's own removals are tried, and need not succeed.          *)
PostMortemWorktree == worktree' \in {worktree, worktree /\ ~conf.local}
PostMortemWorkDir  == workDir' \in {FALSE, workDir}

Classify ==
  /\ dpc = "drain" /\ wpc = "dead" /\ Drained
  /\ \/ \E m \in received :
          m.type = "terminal" /\ result' = m.result /\ UNCHANGED diskVars
     \/ /\ ~Received("terminal") /\ Received("fatal") /\ Read # "unreadable"
        /\ result' = FatalResult
        /\ PostMortemWorktree /\ UNCHANGED workDir
     \/ /\ \E kind \in ErrorKinds : Received(kind)
        /\ result' = StartupFailure
        /\ PostMortemWorktree /\ UNCHANGED workDir
     \/ /\ received = {} /\ Read # "unreadable"
        /\ result' = ExitResult
        /\ IF Read = "complete" THEN UNCHANGED diskVars
                                ELSE PostMortemWorktree /\ PostMortemWorkDir
  /\ dpc' = IF inWait THEN "reap" ELSE "finished"
  /\ UNCHANGED <<conf, journalVars, wpc, controlVars, tokenVars, pipeVars,
                 cancelVars, readerVars, waitVars, reaped, registered>>

FatalReap ==
  /\ dpc = "fatalReap" /\ WorkerGone
  /\ reaped' = TRUE
  /\ PostMortemWorktree
  /\ dpc' = IF inWait THEN "reap" ELSE "finished"
  /\ UNCHANGED <<conf, journalVars, wpc, controlVars, tokenVars, workDir, pipeVars,
                 cancelVars, readerVars, waitVars, endVars>>

(* Mutant: only notifications surface records.                             *)
ReapOnly ==
  /\ dpc = "reap" /\ WorkerGone
  /\ reaped' = TRUE /\ dpc' = "finished"
  /\ UNCHANGED <<workerVars, cancelVars, readerVars, waitVars, endVars>>

(* The end of wait(): reap, and surface what the journal holds.            *)
Reap ==
  /\ dpc = "reap" /\ WorkerGone
  /\ reaped' = TRUE /\ surfaced' = Len(file)
  /\ IF torn = "split" THEN JournalRaises
                       ELSE dpc' = "finished" /\ UNCHANGED result
  /\ UNCHANGED <<workerVars, cancelVars, readerGone, ready, received, waitVars, registered>>

(* Registration into the history, and close().  The headless driver first  *)
(* removes a worktree that is left, and does neither after an interrupt.   *)
Register ==
  /\ dpc = "finished" /\ dpc' = "closed"
  /\ IF ~conf.live /\ cancelRequested
       THEN UNCHANGED <<registered, worktree>>
       ELSE /\ registered' = Registered(exists, file, torn)
            /\ IF conf.live THEN UNCHANGED worktree ELSE PostMortemWorktree
  /\ UNCHANGED <<conf, journalVars, wpc, controlVars, tokenVars, workDir, pipeVars,
                 cancelVars, readerVars, waitVars, reaped, result>>

-----------------------------------------------------------------------------
Init ==
  /\ WorkerInit
  /\ dpc = "spawn" /\ cpc = "idle"
  /\ cancelRequested = FALSE /\ cancelSent = FALSE /\ stop = FALSE
  /\ readerGone = FALSE /\ ready = FALSE /\ received = {} /\ surfaced = 0
  /\ inWait = FALSE /\ grace = "off" /\ hard = "off"
  /\ reaped = FALSE /\ result = NoResult /\ registered = "none"

User   == UserCloses \/ UserCancels
Driver == \/ Spawn \/ Contain \/ SendStart \/ Unwound
          \/ HandshakeReady \/ HandshakeExit \/ HandshakeTimeout
          \/ FollowEnds \/ FollowStops
          \/ WaitTakesTerminal \/ TakesFatal \/ WaitSeesExit \/ WaitExpires
          \/ Kill \/ Escalated \/ Classify \/ ClassifyRaises \/ FatalReap \/ Reap \/ Register
Clocks == GraceExpires \/ HardExpires

(* A session that is over, with its worker gone, rests. *)
Rest == Over /\ wpc \in {"unborn", "dead"} /\ UNCHANGED vars

Next ==
  \/ WorkerNext /\ UNCHANGED supervisorVars
  \/ User \/ UserSends \/ Interrupt
  \/ ReaderTakes \/ Driver \/ Clocks
  \/ Rest

Spec == Init /\ [][Next]_vars

(* Every thread that can step does, and time passes.  Nothing is assumed   *)
(* of the user, of crashes, or of how long the execution source takes.  No *)
(* action can be taken forever (each consumes a message, a deadline or a    *)
(* program point), so fairness to the whole is fairness to every thread.   *)
MainThread   == WorkerStep /\ wpc # "source" /\ UNCHANGED supervisorVars
CancelReader == (CancelReaderTakes \/ CancelReaderSignals) /\ UNCHANGED supervisorVars
UserThread   == UserSends \/ (cpc = "closing" /\ UserCancels)
Time         == Clocks \/ (DeadlinePasses /\ UNCHANGED supervisorVars)

Fairness ==
  WF_vars(ReaderTakes \/ Driver \/ UserThread \/ Time \/ MainThread \/ CancelReader)

FairSpec == Spec /\ Fairness

-----------------------------------------------------------------------------
SupervisorTypeOK ==
  /\ dpc \in DriverPcs /\ cpc \in {"idle", "closing", "sending"}
  /\ cancelRequested \in BOOLEAN /\ cancelSent \in BOOLEAN /\ stop \in BOOLEAN
  /\ readerGone \in BOOLEAN /\ ready \in BOOLEAN /\ surfaced \in Nat
  /\ received \subseteq MessageType
  /\ inWait \in BOOLEAN
  /\ grace \in {"off", "armed", "expired"} /\ hard \in {"off", "armed", "expired"}
  /\ reaped \in BOOLEAN /\ result \in ResultType \cup {NoResult}
  /\ registered \in EndStatuses \cup {"none", "refused", "malformed", "missing"}

TypeOK == WorkerTypeOK /\ SupervisorTypeOK

-----------------------------------------------------------------------------
(* The journal.                                                            *)

(* However the worker fails, is killed or crashes, in the middle of a      *)
(* record or between two, its journal never reads as malformed (nor, with  *)
(* records in ASCII, as undecodable), and a complete one yields a result   *)
(* that SessionResult accepts.                                             *)
JournalNeverMalformed ==
  LET read == Read
  IN  /\ read # "malformed"
      /\ read = "unreadable" => conf.unicode
      /\ read = "complete" => ValidResult(ResultOf(file))

(* The terminal envelope is sent only over a complete journal, and says    *)
(* exactly what _result_from_journal_events would derive from the journal: *)
(* losing the envelope in a crash changes nothing.                         *)
EnvelopeMatchesJournal ==
  \A m \in received \cup ToSet(stdout) :
    m.type = "terminal" => Read = "complete" /\ m.result = ResultOf(file)

(* The result.                                                             *)

(* A reported verified cleanup means that neither the work directory nor   *)
(* the local project's worktree exists; success is never reported without. *)
CleanupClaimsAreTrue ==
  /\ result.verified => ~workDir /\ ~worktree
  /\ result.status \in {"succeeded", "unresolved"} => result.verified

(* A session is reported cancelled only if someone cancelled it, and only  *)
(* when its journal recorded the request and the cancelled terminal; a     *)
(* worker killed by an escalation never counts as cancelled by itself.     *)
CancelledIsDurable ==
  result.status = "cancelled" =>
    /\ cancelRequested
    /\ Read = "complete" /\ Last(file).status = "cancelled"
    /\ \E i \in DOMAIN file : file[i].kind = "session.cancel_requested"

(* The history lists a session the way its supervisor reported it (if it   *)
(* reported a result), except for a journal failure; whatever is not       *)
(* listed as ended was reported as failed or interrupted.                  *)
HistoryAgrees ==
  registered # "none" /\ result # NoResult =>
    IF registered \in EndStatuses /\ Read = "complete"
    THEN registered = result.status \/ result.reason = "journal_error"
    ELSE result.status \in {"failed", "interrupted"}

(* When wait() has returned a result, the events property shows the whole  *)
(* journal, whatever notifications were lost, and the worker was reaped.   *)
WaitSurfacesJournal ==
  inWait /\ dpc \in {"finished", "closed"} /\ result # NoResult =>
    surfaced = Len(file) /\ reaped

(* No driver ends while its worker lives.  (One that meets a fatal worker's *)
(* undecodable journal leaves it to its last step.)                        *)
NoWorkerLeft ==
  Over \/ dpc = "finished" =>
    wpc \in {"unborn", "dead"} \/ (conf.unicode /\ wpc = "fatalClose")

(* Only an exited worker's directories are removed from outside: post-     *)
(* mortem cleanup never races the worker.                                  *)
PostMortemAfterDeath ==
  [][dpc' # dpc /\ diskVars' # diskVars => wpc = "dead"]_vars

(* Progress.                                                               *)

(* What the session may not outlast: the live runner is closed, or the     *)
(* headless driver interrupted or its deadline given; or the worker dies   *)
(* (which on POSIX the live runner does not see: DeadWorkerIsNoticed).     *)
EndIsDue ==
  \/ stop
  \/ ~conf.live /\ (cancelRequested \/ conf.deadline)
  \/ wpc = "dead" /\ ~(conf.live /\ conf.posix)

(* Each of these ends the session, however the worker and its source       *)
(* behave: escalation kills what does not stop by itself, and nobody waits *)
(* for ever for a worker that died, whatever it had recorded.              *)
SessionEnds == EndIsDue ~> Over

(* Statements of the documentation that the code does not keep.            *)

(* journal.py: after an append, flush or fsync failure the journal "must   *)
(* never be upgraded to success".  An fsync that fails on the terminal     *)
(* record leaves a whole record behind, and the history believes it.       *)
JournalFailureStaysFailed ==
  result.reason = "journal_error" => registered \notin {"succeeded", "unresolved"}

(* worker.py: "before session.started no execution-owned disposable        *)
(* resource exists, so pre-start cancel/timeout and every startup failure  *)
(* leave none behind".  The live runner's worktree exists before that, and *)
(* neither side removes it when the worker reports such an end by itself.  *)
NothingLeftBeforeStart ==
  dpc = "closed" /\ result \in {m.result : m \in received} /\ ~result.run => ~worktree

(* local-application-v1.md: after a cancel and a bounded grace period, "the *)
(* worker process tree is terminated if still alive".  The live driver     *)
(* arms the grace period only once it has left _drive_events, for which it *)
(* waits for the worker.                                                   *)
CancelIsBounded == cancelRequested ~> Over

(* models.py, _drive_events: "The worker exited without a durable terminal *)
(* event: let the accepted supervisor classification produce the honest    *)
(* terminal result."  On POSIX nobody reaps the worker meanwhile, so its   *)
(* pid still answers and the driver keeps following.                       *)
DeadWorkerIsNoticed == wpc = "dead" ~> Over

-----------------------------------------------------------------------------
(* journal.py: "a final record WITHOUT a terminating newline is a crash    *)
(* tail -> interrupted, preserving every previously validated event".  The *)
(* strict decoder raises first when the tail ends inside a character.      *)
TornTailIsInterrupted == torn # "no" => Read = "interrupted"

(* The outcome the journal file shows: that of a whole terminal record in  *)
(* last position.  JournalNeverMalformed makes such a file a complete one. *)
Recorded == IF file # <<>> /\ torn = "no" THEN Last(file).status ELSE "none"

(* The boundary implements the abstract contract of SessionVerdict.        *)
Verdict == INSTANCE SessionVerdict
  WITH Outcomes <- EndStatuses,
       recorded <- Recorded,
       verdict  <- result.status

ImplementsVerdict == Verdict!Spec
=============================================================================
