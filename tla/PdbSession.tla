---------------------------- MODULE PdbSession -----------------------------
(***************************************************************************)
(* The client of one PDB worker: runtime/pdb_session.py over its            *)
(* transport, control and outcome helpers, composed with PdbWorker.         *)
(*                                                                         *)
(* Four threads.  The caller starts the session and makes one request at a  *)
(* time; a stopper calls stop(), while a request is in flight or not; the   *)
(* reader moves lines from the worker's pipe into a queue of two; and, when *)
(* the queue overflows, a coordinator tears the session down.  Each of the  *)
(* other three may kill the worker, close the pipes and drop the handles.   *)
(***************************************************************************)
EXTENDS PdbWorker

CONSTANTS
  QueueCapacity,  \* _QUEUE_CAPACITY
  MaxRequests     \* bound: request ids of one session before its shutdown

ASSUME ClientAssumption == QueueCapacity \in Nat \ {0} /\ MaxRequests \in Nat \ {0, 1}

VARIABLES
  state,      \* PdbSessionState
  proc,       \* _proc is not None
  lock,       \* who holds _request_lock
  nextId,     \* _next_request_id
  consumed,   \* _target_consumed
  local,      \* _target_lifecycle_state
  request,    \* the caller's request, Nothing between calls
  at,         \* the program point of each thread
  queue,      \* _response_queue
  held,       \* the line the reader is putting into it, or None
  readerErr,  \* _reader_error
  stopEvent,  \* _stop_event
  closed,     \* the pipes are closed on this side
  laddered    \* history: terminate_process_group signalled the group

clientVars == <<state, proc, lock, nextId, consumed, local, request, at,
                queue, held, readerErr, stopEvent, closed, laddered>>
vars == <<workerVars, clientVars>>

None == Answer(0, FALSE, "none", "none", 0)   \* no line
EOF  == Answer(0, FALSE, "eof", "none", 0)    \* the None of the queue

SessionStates == {"new", "starting", "ready", "stopping", "stopped", "failed"}
LocalStates   == {"idle", "starting", "paused", "resuming", "unknown"} \cup Ended
Cleaning      == {"kill", "close", "clear"}
Points == [caller  : {"idle", "popen", "lock", "send", "receive", "overflow",
                      "readying"} \cup Cleaning,
           stopper : {"idle", "lock", "shutdown", "write", "ack", "exit",
                      "finalize", "finclose", "finjoin"} \cup Cleaning,
           reader  : {"off", "reading", "putting", "done"},
           coord   : {"off", "begin", "done"} \cup Cleaning]

TypeOK ==
  /\ WorkerTypeOK
  /\ state \in SessionStates /\ proc \in BOOLEAN
  /\ lock \in {"free", "caller", "stopper"}
  /\ nextId \in 1..(MaxRequests + 1) /\ consumed \in BOOLEAN /\ local \in LocalStates
  /\ request \in RequestType /\ at \in Points
  /\ queue \in Seq(LineType) /\ Len(queue) <= QueueCapacity
  /\ held \in LineType
  /\ readerErr \in BOOLEAN /\ stopEvent \in BOOLEAN
  /\ closed \in BOOLEAN /\ laddered \in BOOLEAN

Init ==
  /\ WorkerInit
  /\ state = "new" /\ proc = FALSE /\ lock = "free" /\ nextId = 1
  /\ consumed = FALSE /\ local = "idle" /\ request = Nothing
  /\ at = [caller |-> "idle", stopper |-> "idle", reader |-> "off", coord |-> "off"]
  /\ queue = <<>> /\ held = None
  /\ readerErr = FALSE /\ stopEvent = FALSE /\ closed = FALSE /\ laddered = FALSE

Goes(t, point) == at' = [at EXCEPT ![t] = point]

(* Mutant: the failure overwrites a stop.                                  *)
ToFailedAlways == state' = "failed"

(* _transition_to_failed: a session that is being stopped stays so.        *)
ToFailed == state' = IF state \in {"stopping", "stopped", "failed"} THEN state ELSE "failed"

----------------------------------------------------------------------------
(* Taking the worker down: terminate_and_cleanup, which three threads run. *)
(* stop_event, then the kill ladder, then the pipes, then the readers.     *)

(* terminate_process_group signals a live worker's group and outwaits it;  *)
(* what the target started may have left the group or ignore SIGTERM.  A   *)
(* worker that is already dead is left alone, and so is its group.         *)
Kill(t) ==
  /\ at[t] = "kill" /\ proc
  /\ stopEvent' = TRUE /\ Goes(t, "close")
  /\ IF alive THEN /\ Vanishes
                   /\ child' \in {child, FALSE}
                   /\ laddered' = TRUE
              ELSE UNCHANGED <<alive, serving, stage, stdin, child, laddered>>
  /\ UNCHANGED <<targetVars, junk, stdout, state, proc, lock, nextId, consumed, local,
                 request, queue, held, readerErr, closed>>

(* close() of a buffered pipe waits for the thread that is inside it: the  *)
(* reader's readline returns with a line or at the end of the pipe.        *)
Close(t) ==
  /\ at[t] = "close" /\ at.reader # "reading"
  /\ closed' = TRUE /\ Goes(t, "clear")
  /\ UNCHANGED <<workerVars, state, proc, lock, nextId, consumed, local, request,
                 queue, held, readerErr, stopEvent, laddered>>

(* The caller's request ends, with a result or an exception; its finally   *)
(* settles a resume that never got an answer.                              *)
EndCall ==
  /\ Goes("caller", "idle") /\ request' = Nothing
  /\ lock' = IF lock = "caller" THEN "free" ELSE lock

Settled == IF local = "resuming" THEN "unknown" ELSE local

(* Where a thread goes on after its cleanup.                               *)
AfterCleanup(t) ==
  IF t = "caller"
    THEN EndCall /\ local' = Settled
    ELSE /\ Goes(t, IF t = "stopper" THEN "finalize" ELSE "done")
         /\ lock' = IF lock = t THEN "free" ELSE lock
         /\ UNCHANGED <<local, request>>

(* The readers are joined and the handles dropped.                         *)
Clear(t) ==
  /\ at[t] = "clear" /\ at.reader \in {"done", "off"}
  /\ proc' = FALSE
  /\ AfterCleanup(t)
  /\ UNCHANGED <<workerVars, state, nextId, consumed, queue, held, readerErr,
                 stopEvent, closed, laddered>>

(* Somebody else has dropped them already.                                 *)
NothingToClean(t) ==
  /\ at[t] = "kill" /\ ~proc
  /\ AfterCleanup(t)
  /\ UNCHANGED <<workerVars, state, proc, nextId, consumed, queue, held, readerErr,
                 stopEvent, closed, laddered>>

CleanupStep(t) == Kill(t) \/ Close(t) \/ Clear(t) \/ NothingToClean(t)

----------------------------------------------------------------------------
(* The reader thread of stdout.                                            *)

(* readline returns a line, or nothing at the end of the pipe.             *)
Reads ==
  /\ at.reader = "reading"
  /\ stdout # <<>> \/ ~PipeOpen
  /\ IF stdout # <<>> THEN held' = Head(stdout) /\ stdout' = Tail(stdout)
                      ELSE held' = EOF /\ UNCHANGED stdout
  /\ Goes("reader", "putting")
  /\ UNCHANGED <<alive, serving, stage, targetVars, child, junk, stdin, state, proc, lock, nextId,
                 consumed, local, request, queue, readerErr, stopEvent, closed, laddered>>

(* What follows a put: the loop's test, a closed pipe, the next readline.  *)
AfterPut == IF held = EOF THEN "done"
            ELSE IF stopEvent \/ readerErr \/ closed THEN "putting" ELSE "reading"

(* Mutant: a queue without a capacity.                                     *)
PutsUnbounded ==
  /\ at.reader = "putting" /\ ~readerErr
  /\ queue' = Append(queue, held)
  /\ held' = IF AfterPut = "putting" THEN EOF ELSE None
  /\ Goes("reader", AfterPut)
  /\ UNCHANGED <<workerVars, state, proc, lock, nextId, consumed, local, request,
                 readerErr, stopEvent, closed, laddered>>

Puts ==
  /\ at.reader = "putting"
  /\ IF readerErr THEN Goes("reader", "done") /\ UNCHANGED <<queue, held>>
     ELSE /\ Len(queue) < QueueCapacity
          /\ queue' = Append(queue, held)
          /\ held' = IF AfterPut = "putting" THEN EOF ELSE None
          /\ Goes("reader", AfterPut)
  /\ UNCHANGED <<workerVars, state, proc, lock, nextId, consumed, local, request,
                 readerErr, stopEvent, closed, laddered>>

(* queue.Full for half a second: schedule_overflow_cleanup, once.          *)
Overflows ==
  /\ at.reader = "putting" /\ ~readerErr /\ Len(queue) = QueueCapacity
  /\ readerErr' = TRUE /\ held' = None
  /\ at' = [at EXCEPT !.reader = "done", !.coord = IF @ = "off" THEN "begin" ELSE @]
  /\ UNCHANGED <<workerVars, state, proc, lock, nextId, consumed, local, request,
                 queue, stopEvent, closed, laddered>>

(* automatic_overflow_cleanup.                                             *)
Coordinates ==
  /\ at.coord = "begin"
  /\ ToFailed /\ stopEvent' = TRUE /\ Goes("coord", "kill")
  /\ UNCHANGED <<workerVars, proc, lock, nextId, consumed, local, request, queue, held,
                 readerErr, closed, laddered>>

----------------------------------------------------------------------------
(* The caller.                                                             *)

threadVars == <<held, readerErr, closed, laddered>>   \* what callers only read

(* start(): the launch, the reader threads, and the hello, which is sent   *)
(* without the request lock.                                               *)
Starts ==
  /\ at.caller = "idle" /\ state = "new"
  /\ state' = "starting" /\ Goes("caller", "popen")
  /\ UNCHANGED <<workerVars, proc, lock, nextId, consumed, local, request, queue,
                 stopEvent, threadVars>>

LaunchFails ==
  /\ at.caller = "popen"
  /\ ToFailed /\ Goes("caller", "idle")
  /\ UNCHANGED <<workerVars, proc, lock, nextId, consumed, local, request, queue,
                 stopEvent, threadVars>>

LaunchesWorker ==
  /\ at.caller = "popen"
  /\ alive' = TRUE /\ proc' = TRUE
  /\ request' = Request(nextId, "hello", 0) /\ nextId' = nextId + 1
  /\ at' = [at EXCEPT !.caller = "send", !.reader = "reading"]
  /\ UNCHANGED <<serving, stage, targetVars, child, junk, pipeVars, state, lock, consumed,
                 local, queue, stopEvent, threadVars>>

(* A request: the lock, the state, the life cycle, and the one execution a *)
(* session allows.  The script was validated on this side already.         *)
Allowed(op) ==
  /\ state = "ready"
  /\ op \in {"run", "start"} => ~consumed
  /\ op \in Resumes \cup Inspections \cup {"terminate"} => local = "paused"

Calls(op, g) ==
  /\ at.caller = "idle" /\ lock = "free" /\ nextId < MaxRequests
  /\ Allowed(op)
  /\ lock' = "caller" /\ Goes("caller", "send")
  /\ request' = Request(nextId, op, g) /\ nextId' = nextId + 1
  /\ consumed' = (consumed \/ op \in {"run", "start"})
  /\ local' = IF op = "start" THEN "starting" ELSE IF op \in Resumes THEN "resuming" ELSE local
  /\ UNCHANGED <<workerVars, state, proc, queue, stopEvent, threadVars>>

(* ping looks at the state before it takes the lock.                       *)
Pings ==
  /\ at.caller = "idle" /\ Allowed("ping")
  /\ Goes("caller", "lock")
  /\ UNCHANGED <<workerVars, state, proc, lock, nextId, consumed, local, request, queue,
                 stopEvent, threadVars>>

PingLocks ==
  /\ at.caller = "lock" /\ lock = "free" /\ nextId < MaxRequests
  /\ lock' = "caller" /\ Goes("caller", "send")
  /\ request' = Request(nextId, "ping", 0) /\ nextId' = nextId + 1
  /\ UNCHANGED <<workerVars, state, proc, consumed, local, queue, stopEvent, threadVars>>

PingGivesUp ==
  /\ at.caller = "lock"
  /\ EndCall
  /\ UNCHANGED <<workerVars, state, proc, nextId, consumed, local, queue, stopEvent, threadVars>>

(* _fail_and_cleanup; also what start() does about any exception.          *)
CallerFails ==
  /\ ToFailed /\ Goes("caller", "kill")
  /\ UNCHANGED <<lock, request, local>>

(* An exception that no cleanup goes with, except that of start().         *)
CallerRaises ==
  IF request.op = "hello" THEN CallerFails
  ELSE EndCall /\ local' = Settled /\ UNCHANGED state

(* The write of send_and_receive.  A dead worker's stdin still takes the   *)
(* request while a child of the target holds it open; one that this side   *)
(* has closed raises ValueError, which only start() answers.               *)
Written(r) == stdin' = IF alive THEN Append(stdin, r) ELSE stdin

Sends ==
  /\ at.caller = "send"
  /\ \/ ~proc /\ ToFailed /\ EndCall /\ local' = Settled /\ UNCHANGED stdin
     \/ proc /\ readerErr /\ Goes("caller", "overflow")
        /\ UNCHANGED <<state, lock, request, local, stdin>>
     \/ proc /\ ~readerErr /\ closed /\ CallerRaises /\ UNCHANGED stdin
     \/ proc /\ ~readerErr /\ ~closed /\ ~alive /\ CallerFails /\ UNCHANGED stdin
     \/ proc /\ ~readerErr /\ ~closed /\ PipeOpen /\ Written(request) /\ Goes("caller", "receive")
        /\ UNCHANGED <<state, lock, request, local>>
  /\ UNCHANGED <<alive, serving, stage, targetVars, child, junk, stdout, proc, nextId, consumed,
                 queue, stopEvent, threadVars>>

(* A successful answer that the validation of its operation refuses.  That *)
(* of get_target_status wants a paused target at an active breakpoint.     *)
Malformed(answer) ==
  \/ request.op \in {"start", "continue"} /\ answer.line = "other"
  \/ request.op = "status" /\ ((answer.state = "idle") = consumed \/ answer.line = "other")
  \/ request.op = "frame" /\ answer.generation # request.generation

Refused(answer) ==
  \/ answer = EOF \/ answer.id # request.id
  \/ answer.ok /\ Malformed(answer)
  \/ ~answer.ok /\ request.op \in {"hello", "ping"}

(* Mutant: a resume that fails leaves the target paused.                   *)
LearnedOptimistic(answer) ==
  IF request.op \in {"run", "start", "status", "terminate"} \cup Resumes
    THEN IF answer.ok THEN answer.state
         ELSE IF request.op \in {"run", "start"} THEN "failed" ELSE "paused"
    ELSE local

(* The local life cycle after an answer.                                   *)
Learned(answer) ==
  IF request.op \in {"run", "start", "status", "terminate"} \cup Resumes
    THEN IF answer.ok THEN answer.state
         ELSE IF request.op \in {"run", "start"} THEN "failed"
         ELSE IF request.op = "status" THEN local ELSE "unknown"
    ELSE local

Receives ==
  /\ at.caller = "receive" /\ queue # <<>>
  /\ queue' = Tail(queue)
  /\ LET answer == Head(queue)
     IN  IF answer # EOF /\ readerErr
           THEN Goes("caller", "overflow") /\ UNCHANGED <<state, lock, request, local>>
         ELSE IF Refused(answer) THEN CallerFails
         ELSE IF request.op = "hello"
           THEN Goes("caller", "readying") /\ UNCHANGED <<state, lock, request, local>>
         ELSE EndCall /\ local' = Learned(answer) /\ UNCHANGED state
  /\ UNCHANGED <<workerVars, proc, nextId, consumed, stopEvent, threadVars>>

(* Mutant: a request that times out leaves the worker in place.            *)
TimesOutRaising ==
  /\ at.caller = "receive" /\ queue = <<>>
  /\ CallerRaises
  /\ UNCHANGED <<workerVars, proc, nextId, consumed, queue, stopEvent, threadVars>>

(* Mutant: the wait for the answer of a live worker has no bound.          *)
TimesOutOnDeath ==
  /\ at.caller = "receive" /\ queue = <<>> /\ ~alive
  /\ CallerFails
  /\ UNCHANGED <<workerVars, proc, nextId, consumed, queue, stopEvent, threadVars>>

TimesOut ==
  /\ at.caller = "receive" /\ queue = <<>>
  /\ IF readerErr THEN Goes("caller", "overflow") /\ UNCHANGED <<state, lock, request, local>>
                  ELSE CallerFails
  /\ UNCHANGED <<workerVars, proc, nextId, consumed, queue, stopEvent, threadVars>>

(* wait_for_reader_cleanup raises when the coordinator is done, and after  *)
(* five seconds when it is not: by then it has at least begun.             *)
WaitsForCleanup ==
  /\ at.caller = "overflow" /\ at.coord # "begin"
  /\ CallerRaises
  /\ UNCHANGED <<workerVars, proc, nextId, consumed, queue, stopEvent, threadVars>>

(* The end of start().                                                     *)
Readies ==
  /\ at.caller = "readying"
  /\ IF ~alive THEN CallerFails
     ELSE /\ state' = IF readerErr THEN "failed" ELSE "ready"
          /\ EndCall /\ UNCHANGED local
  /\ UNCHANGED <<workerVars, proc, nextId, consumed, queue, stopEvent, threadVars>>

----------------------------------------------------------------------------
(* The stopper: stop(), which nobody calls while start() runs.             *)

StopCalled ==
  /\ at.stopper = "idle" /\ at.caller # "popen" /\ request.op # "hello" /\ state # "stopped"
  /\ state' = "stopping" /\ Goes("stopper", "lock")
  /\ UNCHANGED <<workerVars, proc, lock, nextId, consumed, local, request, queue,
                 stopEvent, threadVars>>

(* The lock within half a second, or the worker is taken down without it.  *)
StopLocks ==
  /\ at.stopper = "lock"
  /\ IF lock = "free" THEN lock' = "stopper" /\ Goes("stopper", "shutdown")
                      ELSE Goes("stopper", "kill") /\ UNCHANGED lock
  /\ UNCHANGED <<workerVars, state, proc, nextId, consumed, local, request, queue,
                 stopEvent, threadVars>>

(* shutdown_worker_if_ready.                                               *)
ChecksWorker ==
  /\ at.stopper = "shutdown"
  /\ IF proc /\ alive THEN Goes("stopper", "write") /\ UNCHANGED lock
                       ELSE Goes("stopper", "finalize") /\ lock' = "free"
  /\ UNCHANGED <<workerVars, state, proc, nextId, consumed, local, request, queue,
                 stopEvent, threadVars>>

(* Pipes that the coordinator closed since raise a ValueError out of       *)
(* stop(), which leaves the session stopping.                              *)
SendsShutdown ==
  /\ at.stopper = "write"
  /\ nextId' = nextId + 1
  /\ \/ closed /\ Goes("stopper", "idle") /\ lock' = "free" /\ UNCHANGED stdin
     \/ ~closed /\ ~alive /\ Goes("stopper", "kill") /\ UNCHANGED <<lock, stdin>>
     \/ ~closed /\ PipeOpen /\ Written(Request(nextId, "shutdown", 0)) /\ Goes("stopper", "ack")
        /\ UNCHANGED lock
  /\ UNCHANGED <<alive, serving, stage, targetVars, child, junk, stdout, state, proc, consumed,
                 local, request, queue, stopEvent, threadVars>>

(* Mutant: no timeout for the acknowledgement.                             *)
TakesAckOnly ==
  /\ at.stopper = "ack" /\ queue # <<>> /\ queue' = Tail(queue)
  /\ Goes("stopper", IF Head(queue).id = nextId - 1 /\ Head(queue).ok THEN "exit" ELSE "kill")
  /\ UNCHANGED <<workerVars, state, proc, lock, nextId, consumed, local, request,
                 stopEvent, threadVars>>

(* The acknowledgement, or any other line, or the shutdown timeout.        *)
TakesAck ==
  /\ at.stopper = "ack"
  /\ \/ /\ queue # <<>> /\ queue' = Tail(queue)
        /\ Goes("stopper", IF Head(queue).id = nextId - 1 /\ Head(queue).ok THEN "exit" ELSE "kill")
     \/ queue = <<>> /\ Goes("stopper", "kill") /\ UNCHANGED queue
  /\ UNCHANGED <<workerVars, state, proc, lock, nextId, consumed, local, request,
                 stopEvent, threadVars>>

(* Mutant: the acknowledgement is taken for the exit.                      *)
AwaitsNoExit ==
  /\ at.stopper = "exit"
  /\ Goes("stopper", "finalize") /\ lock' = "free"
  /\ UNCHANGED <<workerVars, state, proc, nextId, consumed, local, request, queue,
                 stopEvent, threadVars>>

AwaitsExit ==
  /\ at.stopper = "exit"
  /\ \/ ~alive /\ Goes("stopper", "finalize") /\ lock' = "free"
     \/ alive /\ Goes("stopper", "kill") /\ UNCHANGED lock
  /\ UNCHANGED <<workerVars, state, proc, nextId, consumed, local, request, queue,
                 stopEvent, threadVars>>

(* finalize_after_stop: stop_event, the pipes, the readers, STOPPED.       *)
Finalizes ==
  /\ at.stopper = "finalize"
  /\ stopEvent' = TRUE /\ Goes("stopper", "finclose")
  /\ UNCHANGED <<workerVars, state, proc, lock, nextId, consumed, local, request, queue,
                 threadVars>>

FinalCloses ==
  /\ at.stopper = "finclose" /\ (proc => at.reader # "reading")
  /\ closed' = (closed \/ proc) /\ Goes("stopper", "finjoin")
  /\ UNCHANGED <<workerVars, state, proc, lock, nextId, consumed, local, request, queue,
                 stopEvent, held, readerErr, laddered>>

Stops ==
  /\ at.stopper = "finjoin" /\ at.reader \in {"done", "off"}
  /\ proc' = FALSE /\ state' = "stopped" /\ Goes("stopper", "idle")
  /\ UNCHANGED <<workerVars, lock, nextId, consumed, local, request, queue, stopEvent, threadVars>>

----------------------------------------------------------------------------
CallerStep ==
  \/ LaunchFails \/ LaunchesWorker \/ PingLocks \/ PingGivesUp \/ Sends \/ Receives
  \/ TimesOut \/ WaitsForCleanup \/ Readies \/ CleanupStep("caller")

StopperStep ==
  \/ StopLocks \/ ChecksWorker \/ SendsShutdown \/ TakesAck \/ AwaitsExit
  \/ Finalizes \/ FinalCloses \/ Stops \/ CleanupStep("stopper")

ReaderStep == Reads \/ Puts \/ Overflows

CoordStep == Coordinates \/ CleanupStep("coord")

(* What the user of the session decides.                                   *)
UserStep ==
  \/ Starts \/ Pings \/ StopCalled
  \/ \E op \in Operations \ {"hello", "ping", "shutdown", "frame"} : Calls(op, 0)
  \/ \E g \in 1..MaxPauses : Calls("frame", g)

Next == CallerStep \/ StopperStep \/ ReaderStep \/ CoordStep \/ UserStep
          \/ (WorkerNext /\ UNCHANGED clientVars)

(* The threads of this process are scheduled and their waits are bounded.  *)
(* Nothing is assumed of the worker, the target, its children or the user. *)
Fairness == /\ WF_vars(CallerStep) /\ WF_vars(StopperStep)
            /\ WF_vars(ReaderStep) /\ WF_vars(CoordStep)

Spec     == Init /\ [][Next]_vars
FairSpec == Spec /\ Fairness

----------------------------------------------------------------------------
(* Safety.                                                                 *)

(* Three threads may drop the process handle, and a kill may meet a worker *)
(* that is dying by itself: whichever way they interleave, a worker that   *)
(* lives can still be reached, and none lives behind a session that was    *)
(* stopped, or that failed and whose cleanup is over.                      *)
NoLeakedWorker ==
  alive => /\ proc /\ state # "stopped"
           /\ state = "failed" => \/ at.caller \in {"kill", "overflow"}
                                  \/ at.coord \in {"begin", "kill"}

(* Between two requests of a ready session nothing that answers an earlier *)
(* one is on its way, in any of the five places it could be: a request     *)
(* that times out takes the worker with it.                                *)
ChannelQuiet ==
  state = "ready" /\ lock = "free" =>
    /\ stdin = <<>> /\ serving = Nothing
    /\ \A i \in 1..Len(stdout) : stdout[i] = Junk
    /\ \A i \in 1..Len(queue) : queue[i] \in {Junk, EOF}
    /\ held \in {None, Junk, EOF}

(* What the client believes of the target between two requests is what the *)
(* worker's life cycle says; "failed" may also be a target that was never  *)
(* started.  Inspections and resumes are allowed by this belief alone.     *)
BeliefIsTrue ==
  state = "ready" /\ lock = "free" =>
    \/ local = target
    \/ local = "failed" /\ target = "idle" /\ consumed
    \/ local = "unknown" /\ target \in Ended \cup {"terminating"}

(* A session that is being stopped is never ready or failed again, and one *)
(* that failed can only be stopped: neither a request that ends late nor   *)
(* the coordinator writes over it.                                         *)
NeverRevived ==
  [][/\ state \in {"stopping", "stopped"} => state' \in {"stopping", "stopped"}
     /\ state = "stopped" => state' = "stopped"
     /\ state = "failed" => state' \in {"failed", "stopping"}]_vars

----------------------------------------------------------------------------
(* Liveness.                                                               *)

(* The one wait without a bound: closing a pipe that the reader is inside, *)
(* while a process the target started holds the other end.                 *)
Wedged(t) == at[t] \in {"close", "finclose"} /\ at.reader = "reading" /\ child

(* Every request ends, and every stop, unless it is wedged that way:       *)
(* whatever the worker, the target and the other threads do.               *)
CallsReturn == (at.caller # "idle")  ~> (at.caller = "idle" \/ Wedged("caller"))
StopReturns == (at.stopper # "idle") ~> (at.stopper = "idle" \/ Wedged("stopper"))

----------------------------------------------------------------------------
(* Statements that the code does not keep; see the README.                 *)

(* docs/pre-release-hardening-2026-08-27.md on stop(): it can wedge only   *)
(* if an orphan holds the pipe after the kill ladder.                      *)
WedgesOnlyAfterLadder == Wedged("stopper") => laddered

(* get_target_status of a target that a step has paused is an answer, not  *)
(* a protocol violation.                                                   *)
StatusAfterStepSucceeds ==
  [][request.op = "status" /\ Receives
       => ~(Head(queue).state = "paused" /\ at'.caller = "kill")]_vars
=============================================================================
