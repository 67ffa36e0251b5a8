--------------------------- MODULE SessionWorker ---------------------------
(***************************************************************************)
(* The session worker process: application/worker.py over journal.py,      *)
(* emitter.py and cancellation.py.                                         *)
(*                                                                         *)
(* Three things run here: the main thread (wpc), the daemon thread that    *)
(* turns cancel messages into token requests (rpc), and the clock that     *)
(* fires the elapsed deadline.  The process may die at any moment (Dies): *)
(* what it had handed to the operating system survives, the rest does not. *)
(* The module gives the actions; SessionBoundary composes them with the    *)
(* supervisor that owns the other ends of the pipes.                       *)
(***************************************************************************)
EXTENDS SessionEvents

CONSTANT Configs   \* the session configurations a behaviour starts from

ConfigType == [local    : BOOLEAN,   \* Local Project: owns a git worktree
               deadline : BOOLEAN,   \* max_elapsed_seconds was given
               live     : BOOLEAN,   \* driven by LiveSessionRunner, not wait()
               posix    : BOOLEAN,   \* POSIX process semantics, not Windows
               unicode  : BOOLEAN,   \* records hold characters of several bytes
               records  : Nat]       \* bound: records the execution source emits

ASSUME ConfigsAssumption == Configs \subseteq ConfigType

VARIABLES
  conf,        \* this session's configuration, never changed
  \* -- the journal file and its writer
  exists,      \* the journal file was created
  file,        \* the whole records in the file
  torn,        \* what follows them, one of Tails
  buffered,    \* records a failed flush left in the stream's buffer
  sticky,      \* the emitter is fatal: a sink append failed
  seq,         \* the emitter's next sequence
  \* -- the worker's threads and its cancellation token
  wpc, outcome, started, cleanupOk,
  rpc, reason, signalled, clock,
  \* -- what the session owns on disk
  workDir, worktree,
  \* -- the protocol pipes
  stdin, stdout

fileVars    == <<exists, file, torn>>
writerVars  == <<buffered, sticky, seq>>
journalVars == <<fileVars, writerVars>>
controlVars == <<outcome, started, cleanupOk>>
tokenVars   == <<rpc, reason, signalled, clock>>
diskVars    == <<workDir, worktree>>
pipeVars    == <<stdin, stdout>>
workerVars  == <<conf, journalVars, wpc, controlVars, tokenVars, diskVars, pipeVars>>

Outcomes == {"completed", "unresolved", "failed", "cancelled", "timed_out"}

(* The process ends: its memory and the unread lines of its stdin go.      *)
Exits ==
  /\ wpc' = "dead" /\ stdin' = <<>>
  /\ buffered' = <<>> /\ sticky' = FALSE /\ seq' = 0
  /\ outcome' = "completed" /\ started' = FALSE /\ cleanupOk' = FALSE
  /\ rpc' = "off" /\ reason' = "none" /\ signalled' = FALSE /\ clock' = "none"

(* Program points.  At those of Emitting the next thing the main thread    *)
(* does is emit the record RecordAt; the others are named for their step.  *)
Emitting == {"created", "start", "running", "source", "cancelreq",
             "cleaning", "cleanupStart", "cleanupDone", "terminal"}
Alive == Emitting \cup
         {"boot", "journal", "ready", "gate", "launch", "mkdir", "gate2",
          "settle", "remove", "close", "send",
          "fatalCleanup", "fatalSend", "fatalClose"}
WorkerPcs == Alive \cup {"unborn", "suspended", "dead"}

(* Messages of the worker to its supervisor; only "terminal" carries a     *)
(* result.  Errors are named by their error_kind ("unknown_scenario" is    *)
(* handled exactly as "invalid_request" is).                               *)
NoResult == [status |-> "none", reason |-> "none", run |-> FALSE, verified |-> FALSE]
ErrorKinds == {"invalid_request", "journal_creation_failed"}
MessageTypes == {"ready", "event", "terminal", "fatal"} \cup ErrorKinds
MessageType == [type : MessageTypes, result : ResultType \cup {NoResult}]
Message(type) == [type |-> type, result |-> NoResult]

(* Consecutive event notifications are one: each makes the supervisor read *)
(* the journal to its end, and they carry nothing else.                    *)
Notified == IF stdout # <<>> /\ Last(stdout).type = "event"
            THEN stdout ELSE Append(stdout, Message("event"))

-----------------------------------------------------------------------------
(* _terminal_for, and the event emit_terminal makes of it.                 *)
TerminalFor ==
  CASE ~started /\ outcome = "cancelled" -> [status |-> "cancelled", reason |-> "cancelled"]
    [] ~started /\ outcome = "timed_out" -> [status |-> "timed_out", reason |-> "timeout"]
    [] ~started /\ outcome \notin {"cancelled", "timed_out"} ->
         [status |-> "failed", reason |-> "controller_failed"]
    [] started /\ ~cleanupOk -> [status |-> "cleanup_failed", reason |-> "cleanup_failed"]
    [] OTHER ->
         CASE outcome = "completed"   -> [status |-> "succeeded", reason |-> "done"]
           [] outcome = "unresolved"  -> [status |-> "unresolved", reason |-> "unresolved"]
           [] outcome = "cancelled"   -> [status |-> "cancelled", reason |-> "cancelled"]
           [] outcome = "timed_out"   -> [status |-> "timed_out", reason |-> "timeout"]
           [] OTHER                   -> [status |-> "failed", reason |-> "controller_failed"]

(* Mutant: the result takes an attempted cleanup for a verified one.       *)
BuiltResultOnAttempt == [status |-> TerminalFor.status, reason |-> TerminalFor.reason,
                         run |-> started, verified |-> started]

(* _build_result *)
BuiltResult == [status |-> TerminalFor.status, reason |-> TerminalFor.reason,
                run |-> started, verified |-> cleanupOk]

TerminalKind(status) ==
  CHOOSE k \in TerminalKinds : status \in StatusesOf(k)

(* The record the main thread emits at pc.  session.started binds the run  *)
(* identity before it is emitted, so it carries it already.                *)
RecordAt(pc) ==
  LET e(kind) == Event(seq, kind, started \/ pc = "start")
  IN  CASE pc = "created"      -> e("session.created")
        [] pc = "start"        -> e("session.started")
        [] pc \in {"running", "cleaning"} -> e("session.status_changed")
        [] pc = "source"       -> e("progress")
        [] pc = "cancelreq"    -> e("session.cancel_requested")
        [] pc = "cleanupStart" -> e("cleanup.started")
        [] pc = "cleanupDone"  -> [e("cleanup.completed") EXCEPT !.verified = cleanupOk]
        [] OTHER -> [e(TerminalKind(TerminalFor.status))
                       EXCEPT !.status = TerminalFor.status,
                              !.reason = TerminalFor.reason]

After(pc) ==
  CASE pc = "created"      -> "ready"
    [] pc = "start"        -> "mkdir"
    [] pc = "running"      -> "gate2"
    [] pc = "source"       -> "source"
    [] pc = "cancelreq"    -> "settle"
    [] pc = "cleaning"     -> "cleanupStart"
    [] pc = "cleanupStart" -> "remove"
    [] pc = "cleanupDone"  -> "terminal"
    [] OTHER               -> "close"

-----------------------------------------------------------------------------
(* SessionEventJournal.append: write, flush and fsync one record, behind   *)
(* whatever an earlier failed flush left in the buffer.  On failure the    *)
(* record stays in the buffer with none or part of it written, or is in    *)
(* the file already when only fsync failed.  A record refused before the   *)
(* write ends like one of which nothing is ever written.                   *)
Durable(e) ==
  /\ file' = file \o buffered \o <<e>>
  /\ torn' = "no" /\ buffered' = <<>>

(* How a file may end that was cut inside a record.                        *)
Cuts == {"tail"} \cup IF conf.unicode THEN {"split"} ELSE {}

AppendOk(e) == /\ Durable(e) /\ seq' = seq + 1
               /\ stdout' = Notified
               /\ UNCHANGED sticky

WriteFails(e) ==
  \/ Durable(e)
  \/ /\ buffered' = Append(buffered, e)
     /\ torn' \in {torn} \cup Cuts
     /\ UNCHANGED file

(* Mutant: the failure is raised, but not remembered.                      *)
AppendFailsOnce(e) == WriteFails(e) /\ UNCHANGED <<sticky, seq, stdout>>

AppendFails(e) == WriteFails(e) /\ sticky' = TRUE /\ UNCHANGED <<seq, stdout>>

(* SessionEventEmitter.emit raises without writing once it is fatal.       *)
EmitOk(e) == ~sticky /\ AppendOk(e) /\ UNCHANGED exists
EmitRaises(e) ==
  /\ IF sticky THEN UNCHANGED <<file, torn, buffered, sticky, seq, stdout>>
               ELSE AppendFails(e)
  /\ UNCHANGED exists

-----------------------------------------------------------------------------
(* Startup: the first line of stdin, the journal, session.created, ready.  *)

(* main: a first line that is not a usable start message is an error.      *)
BootRejected ==
  /\ wpc = "boot" /\ stdin # <<>>
  /\ stdout' = Append(stdout, Message("invalid_request"))
  /\ Exits /\ UNCHANGED <<conf, fileVars, diskVars>>

BootAccepted ==
  /\ wpc = "boot" /\ stdin # <<>> /\ Head(stdin) = "start"
  /\ stdin' = Tail(stdin)
  /\ clock' = IF conf.deadline THEN "running" ELSE "none"
  /\ wpc' = "journal"
  /\ UNCHANGED <<conf, journalVars, controlVars, rpc, reason, signalled, diskVars, stdout>>

CreateJournal ==
  /\ wpc = "journal"
  /\ exists' = TRUE
  /\ wpc' = "created"
  /\ UNCHANGED <<conf, file, torn, buffered, sticky, seq, controlVars, tokenVars,
                 diskVars, pipeVars>>

JournalRefused ==
  /\ wpc = "journal"
  /\ stdout' = Append(stdout, Message("journal_creation_failed"))
  /\ Exits /\ UNCHANGED <<conf, fileVars, diskVars>>

SendReady ==
  /\ wpc = "ready"
  /\ stdout' = Append(stdout, Message("ready"))
  /\ rpc' = "reading"
  /\ wpc' = "gate"
  /\ UNCHANGED <<conf, journalVars, controlVars, reason, signalled, clock, diskVars, stdin>>

(* SessionCoordinator.emit at every point of the lifecycle but the source. *)
EmitRecord ==
  /\ wpc \in Emitting \ {"source"}
  /\ \/ EmitOk(RecordAt(wpc)) /\ wpc' = After(wpc)
     \/ EmitRaises(RecordAt(wpc)) /\ wpc' = "fatalCleanup"
  /\ started' = (started \/ wpc = "start")
  /\ UNCHANGED <<conf, outcome, cleanupOk, tokenVars, diskVars, stdin>>

-----------------------------------------------------------------------------
(* The cancellation token.                                                 *)

(* The reader thread: request() records the first reason under the lock,   *)
(* and sets the event after releasing it.  Other lines are ignored.        *)
CancelReaderTakes ==
  /\ wpc \in Alive /\ rpc = "reading" /\ stdin # <<>>
  /\ stdin' = Tail(stdin)
  /\ IF Head(stdin) = "cancel"
       THEN /\ reason' = IF reason = "none" THEN "cancelled" ELSE reason
            /\ rpc' = "requested"
       ELSE UNCHANGED <<reason, rpc>>
  /\ UNCHANGED <<conf, journalVars, wpc, controlVars, signalled, clock, diskVars, stdout>>

CancelReaderSignals ==
  /\ wpc \in Alive /\ rpc = "requested"
  /\ signalled' = TRUE /\ rpc' = "reading"
  /\ UNCHANGED <<conf, journalVars, wpc, controlVars, reason, clock, diskVars, pipeVars>>

DeadlinePasses ==
  /\ clock = "running" /\ wpc \in Alive
  /\ clock' = "passed"
  /\ UNCHANGED <<conf, journalVars, wpc, controlVars, rpc, reason, signalled, diskVars, pipeVars>>

(* token.check(): an explicit request wins over a deadline that passed.    *)
CheckPasses == ~signalled /\ clock # "passed" /\ UNCHANGED <<reason, signalled>>

(* Mutant: a cancellation goes on like a timeout, without its record.      *)
AfterCheckUnrecorded(why) == "settle"

(* Only an explicit cancellation is recorded before the session settles.   *)
AfterCheck(why) == IF why = "cancelled" THEN "cancelreq" ELSE "settle"

CheckRaises ==
  /\ signalled \/ clock = "passed"
  /\ reason' = IF reason = "none" THEN "timed_out" ELSE reason
  /\ signalled' = TRUE
  /\ outcome' = reason'
  /\ wpc' = AfterCheck(reason')

(* The three places of the main thread where the token is consulted.       *)
Gate ==
  /\ wpc \in {"gate", "gate2", "source"}
  /\ \/ CheckRaises
     \/ /\ CheckPasses
        /\ wpc' = CASE wpc = "gate"  -> IF conf.local THEN "launch" ELSE "start"
                     [] OTHER        -> "source"
        /\ UNCHANGED outcome
  /\ UNCHANGED <<conf, journalVars, started, cleanupOk, rpc, clock, diskVars, pipeVars>>

-----------------------------------------------------------------------------
(* The session's work.                                                     *)

(* build_local_project_launch: fails before session.started is emitted.    *)
BuildLaunch ==
  /\ wpc = "launch"
  /\ \/ wpc' = "start" /\ UNCHANGED outcome
     \/ wpc' = "settle" /\ outcome' = "failed"
  /\ UNCHANGED <<conf, journalVars, started, cleanupOk, tokenVars, diskVars, pipeVars>>

MakeWorkDir ==
  /\ wpc = "mkdir"
  /\ \/ workDir' = TRUE /\ wpc' = "running" /\ UNCHANGED outcome
     \/ wpc' = "settle" /\ outcome' = "failed" /\ UNCHANGED workDir
  /\ UNCHANGED <<conf, journalVars, started, cleanupOk, tokenVars, worktree, pipeVars>>

(* The source emits through the session's one emitter.  It may let the     *)
(* sink failure propagate, or swallow it and go on.                        *)
SourceEmits ==
  /\ wpc = "source"
  /\ Cardinality({i \in DOMAIN file : file[i].kind = "progress"}) < conf.records
  /\ \/ EmitOk(RecordAt("source")) /\ wpc' = "source"
     \/ EmitRaises(RecordAt("source")) /\ wpc' \in {"fatalCleanup", "source"}
  /\ UNCHANGED <<conf, controlVars, tokenVars, diskVars, stdin>>

(* Return of run_worker_source, or an exception other than a cancellation. *)
SourceEnds ==
  /\ wpc = "source"
  /\ outcome' \in {"completed", "failed"}
                 \cup IF conf.local THEN {"unresolved"} ELSE {}
  /\ wpc' = "settle"
  /\ UNCHANGED <<conf, journalVars, started, cleanupOk, tokenVars, diskVars, pipeVars>>

(* A completed outcome yields to a cancellation that arrived meanwhile; a  *)
(* session that never started skips the cleanup cycle.                     *)
Settle ==
  /\ wpc = "settle"
  /\ LET overtaken == outcome = "completed" /\ signalled
     IN  /\ outcome' = IF overtaken THEN reason ELSE outcome
         /\ wpc' = CASE overtaken /\ reason = "cancelled" -> "cancelreq"
                      [] ~(overtaken /\ reason = "cancelled") /\ started -> "cleaning"
                      [] OTHER -> "terminal"
  /\ UNCHANGED <<conf, journalVars, started, cleanupOk, tokenVars, diskVars, pipeVars>>

-----------------------------------------------------------------------------
(* The terminal cleanup cycle and the two ways out.                        *)

(* Mutant: only the work directory is verified.                            *)
WorkDirGone == ~workDir'

(* What must be gone for the cleanup to count as verified.                 *)
NothingLeft == ~workDir' /\ ~worktree'

(* _cleanup_work_dir and cleanup_parent_tmpdir: each removes its directory *)
(* or not, and verification may fail even though nothing is left.          *)
RemoveOwned ==
  /\ wpc = "remove"
  /\ workDir' \in {FALSE, workDir} /\ worktree' \in {FALSE, worktree}
  /\ cleanupOk' \in {FALSE, NothingLeft}
  /\ wpc' = "cleanupDone"
  /\ UNCHANGED <<conf, journalVars, outcome, started, tokenVars, pipeVars>>

(* Every record is flushed by now: close can fail but writes nothing.      *)
CloseJournal ==
  /\ wpc = "close" /\ wpc' = "send"
  /\ UNCHANGED <<conf, journalVars, controlVars, tokenVars, diskVars, pipeVars>>

SendTerminal ==
  /\ wpc = "send"
  /\ stdout' = Append(stdout, [type |-> "terminal", result |-> BuiltResult])
  /\ Exits /\ UNCHANGED <<conf, fileVars, diskVars>>

(* _fatal_journal_exit: best-effort removal of the work directory, the     *)
(* fatal envelope, and a close that flushes the buffer once more.          *)
FatalCleanup ==
  /\ wpc = "fatalCleanup" /\ wpc' = "fatalSend"
  /\ workDir' \in {FALSE, workDir}
  /\ UNCHANGED <<conf, journalVars, controlVars, tokenVars, worktree, pipeVars>>

FatalSend ==
  /\ wpc = "fatalSend" /\ wpc' = "fatalClose"
  /\ stdout' = Append(stdout, Message("fatal"))
  /\ UNCHANGED <<conf, journalVars, controlVars, tokenVars, diskVars, stdin>>

FatalClose ==
  /\ wpc = "fatalClose"
  /\ \/ file' = file \o buffered /\ torn' = IF buffered = <<>> THEN torn ELSE "no"
     \/ UNCHANGED file /\ torn' \in {torn} \cup IF buffered = <<>> THEN {} ELSE Cuts
  /\ Exits /\ UNCHANGED <<conf, exists, diskVars, stdout>>

(* The process dies.  A record being written may be lost, cut or whole;    *)
(* its notification is lost.                                               *)
Dies ==
  /\ wpc \in Alive \cup {"suspended"}
  /\ \/ UNCHANGED <<file, torn>>
     \/ /\ wpc \in Emitting /\ ~sticky
        /\ \/ torn' \in Cuts /\ UNCHANGED file
           \/ file' = Append(file, RecordAt(wpc)) /\ UNCHANGED torn
  /\ Exits /\ UNCHANGED <<conf, exists, diskVars, stdout>>

WorkerInit ==
  /\ conf \in Configs
  /\ exists = FALSE /\ file = <<>> /\ torn = "no"
  /\ wpc = "unborn" /\ buffered = <<>> /\ sticky = FALSE /\ seq = 0
  /\ outcome = "completed" /\ started = FALSE /\ cleanupOk = FALSE
  /\ rpc = "off" /\ reason = "none" /\ signalled = FALSE /\ clock = "none"
  /\ workDir = FALSE /\ worktree = conf.local
  /\ stdin = <<>> /\ stdout = <<>>

(* What the worker does on its own: everything but dying.  Whether and     *)
(* when the source ends, and the clock, are not under the worker's control.*)
WorkerStep ==
  \/ BootRejected \/ BootAccepted \/ CreateJournal \/ JournalRefused \/ SendReady
  \/ EmitRecord \/ Gate \/ BuildLaunch \/ MakeWorkDir \/ SourceEmits \/ SourceEnds
  \/ Settle \/ RemoveOwned \/ CloseJournal \/ SendTerminal
  \/ FatalCleanup \/ FatalSend \/ FatalClose

WorkerNext == WorkerStep \/ CancelReaderTakes \/ CancelReaderSignals
              \/ DeadlinePasses \/ Dies

-----------------------------------------------------------------------------
WorkerTypeOK ==
  /\ conf \in ConfigType
  /\ exists \in BOOLEAN /\ file \in Seq(EventType) /\ torn \in Tails
  /\ buffered \in Seq(EventType) /\ sticky \in BOOLEAN /\ seq \in Nat
  /\ wpc \in WorkerPcs /\ outcome \in Outcomes
  /\ started \in BOOLEAN /\ cleanupOk \in BOOLEAN
  /\ rpc \in {"off", "reading", "requested"}
  /\ reason \in {"none", "cancelled", "timed_out"} /\ signalled \in BOOLEAN
  /\ signalled \/ rpc = "requested" => reason # "none"
  /\ clock \in {"none", "running", "passed"}
  /\ workDir \in BOOLEAN /\ worktree \in BOOLEAN
  /\ stdin \in Seq({"start", "cancel"})
  /\ stdout \in Seq(MessageType)
=============================================================================
