-------------------------- MODULE PdbSessionProofs --------------------------
(***************************************************************************)
(* What holds of a PDB session for every capacity of the response queue and *)
(* every bound on pauses, requests and stray lines.                         *)
(***************************************************************************)
EXTENDS PdbSession, SequenceTheorems, TLAPS

(* The states of a session that was stopped, or failed, or is about to be. *)
Over    == {"failed", "stopping", "stopped"}
Serving == {"starting", "ready"}

(* Before the worker is launched nothing has happened.                     *)
Pristine ==
  /\ at.stopper = "idle" /\ at.reader = "off" /\ at.coord = "off"
  /\ ~alive /\ ~proc /\ ~closed /\ ~readerErr /\ nextId = 1 /\ lock = "free"
  /\ stdin = <<>> /\ serving = Nothing /\ stdout = <<>> /\ queue = <<>> /\ held = None
  /\ local = "idle" /\ target = "idle" /\ ~consumed /\ ~child

(* start() and its hello, with which no stop() overlaps.                   *)
StartInv ==
  /\ state = "new" => at.caller = "idle" /\ Pristine
  /\ at.caller = "popen" => state = "starting" /\ Pristine
  /\ state = "starting" => at.caller = "popen" \/ request.op = "hello"
  /\ at.caller = "readying" => request.op = "hello"
  /\ request.op = "hello" => at.stopper = "idle" /\ state \in {"starting", "failed"}
  /\ at.stopper # "idle" => state = "stopping"

(* Whoever is past the kill of a teardown, or past the checks of stop(),   *)
(* leaves a dead worker behind it; and a session that failed with a live   *)
(* one still has a thread that will kill it.                               *)
Buried ==
  \/ at.caller \in {"close", "clear"}
  \/ at.stopper \in {"close", "clear", "finalize", "finclose", "finjoin"}
  \/ at.coord \in {"close", "clear", "done"}
  \/ closed
  \/ state = "stopped"

TeardownInv ==
  /\ alive => proc
  /\ Buried => ~alive
  /\ at.caller = "overflow" => readerErr
  /\ readerErr <=> at.coord # "off"
  /\ at.caller \in Cleaning => state \in Over
  /\ at.coord \notin {"off", "begin"} \/ closed => state \in Over
  /\ state = "failed" /\ alive => \/ at.caller \in {"kill", "overflow"}
                                  \/ at.coord \in {"begin", "kill"}
  /\ request.op = "hello" /\ state = "failed" /\ at.caller \notin Cleaning => readerErr

(* The request of the caller, the lock it is made under, and its id.       *)
CallInv ==
  /\ at.caller \in {"idle", "popen", "lock"} <=> request = Nothing
  /\ request # Nothing => /\ request.op \in Operations \ {"shutdown"}
                          /\ request.id \in 1..(nextId - 1)
  /\ lock = "caller" <=> request # Nothing /\ request.op # "hello"
  /\ at.stopper \in {"shutdown", "write", "ack", "exit"} => lock = "stopper"
  /\ lock = "stopper" => at.stopper \in {"shutdown", "write", "ack", "exit"} \cup Cleaning
  /\ at.stopper \in {"idle", "lock", "shutdown"} /\ alive => nextId <= MaxRequests
  /\ at.stopper = "write" => nextId <= MaxRequests

(* What is on its way carries an id already given out, and the request and *)
(* the answers with the id of the caller's request are those of its        *)
(* operation: only a greeting or a shutdown is acknowledged with no state. *)
(* What has no id is a stray line or the end of the pipe.                  *)
TaggedRequest(r) == r.id \in 1..(nextId - 1) /\ (r.id = request.id => r = request)

TaggedAnswer(a) ==
  /\ a.id \in 0..(nextId - 1)
  /\ a.ok => /\ a.id # 0
             /\ \/ a.state \in Ended \cup {"idle", "paused"}
                \/ a.state = "none" /\ (a.id = request.id => request.op \in {"hello", "ping"})

(* The answers that are on their way: in the pipe, in the queue, between.  *)
Wire == Range(stdout) \cup Range(queue) \cup {held}

TagInv ==
  /\ serving # Nothing => TaggedRequest(serving)
  /\ stage \in {"take", "leave"} <=> serving = Nothing
  /\ \A r \in Range(stdin) : TaggedRequest(r)
  /\ \A a \in Wire : TaggedAnswer(a)

Real(a) == a.id # 0

StrayInv ==
  /\ \A a \in Range(stdout) : Real(a) \/ a = Junk
  /\ \A a \in Range(queue) : Real(a) \/ a \in {Junk, EOF}
  /\ Real(held) \/ held \in {None, Junk, EOF}
  /\ at.reader = "putting" => held # None

(* Until the session is over, what is on its way is one thing at most, in  *)
(* one of five places, and only while the caller waits for it.             *)
Silent(s)    == \A a \in Range(s) : ~Real(a)
AtMostOne(s) == \A i, j \in 1..Len(s) : Real(s[i]) /\ Real(s[j]) => i = j

NoAnswer == \A a \in Wire : ~Real(a)

OneAnswer ==
  /\ AtMostOne(stdout) /\ AtMostOne(queue)
  /\ Silent(stdout) \/ Silent(queue)
  /\ Real(held) => Silent(stdout) /\ Silent(queue)

Quiet == stdin = <<>> /\ serving = Nothing /\ NoAnswer

InFlight ==
  \/ stdin \in {<<>>, <<request>>} /\ serving = Nothing /\ NoAnswer
  \/ stdin = <<>> /\ serving = request /\ NoAnswer
  \/ stdin = <<>> /\ serving = Nothing /\ OneAnswer

TrafficInv ==
  state \in Serving =>
    /\ at.caller \in {"idle", "popen", "lock", "send", "readying"} => Quiet
    /\ at.caller = "receive" => InFlight

(* What the client believes is true of the target: before it sends, while  *)
(* the worker has not begun to handle the request, and of whatever it may  *)
(* still learn from an answer that it accepts.                             *)
Believed(l) ==
  \/ l = target /\ target \in Ended \cup {"idle", "paused"}
  \/ l = "failed" /\ target = "idle" /\ consumed
  \/ l = "unknown" /\ target \in Ended \cup {"terminating"}

Sent ==
  /\ request.op = "start" => local = "starting" /\ target = "idle"
  /\ request.op = "run" => local = "idle" /\ target = "idle"
  /\ request.op \in Resumes => local = "resuming" /\ target = "paused"
  /\ request.op \in Inspections \cup {"terminate"} => local = "paused" /\ target = "paused"
  /\ request.op \in {"hello", "ping", "status"} => Believed(local)

Truthful(a) == Real(a) => Refused(a) \/ Believed(Learned(a))

Expecting ==
  /\ stdin # <<>> \/ stage = "handle" => Sent
  /\ request.op \in Inspections \cup {"hello", "ping", "status"} => Believed(local)
  /\ \A a \in Wire : Truthful(a)

Untouched == local = "idle" /\ target = "idle"

BeliefInv ==
  state \in Serving =>
    /\ ~consumed /\ at.caller # "overflow" => Untouched
    /\ request.op \in {"run", "start"} => consumed
    /\ at.caller \in {"idle", "lock", "readying"} => Believed(local)
    /\ at.caller = "send" => Sent
    /\ at.caller = "receive" => Expecting

Control == StartInv /\ TeardownInv /\ CallInv
IInv == TypeOK /\ Control /\ TagInv /\ StrayInv /\ TrafficInv /\ BeliefInv
----------------------------------------------------------------------------
(* The steps, by who takes them.                                           *)
LEMMA NextCases ==
  ASSUME [Next]_vars
  PROVE  \/ LaunchFails \/ LaunchesWorker \/ PingLocks \/ PingGivesUp \/ Sends \/ Receives
         \/ TimesOut \/ WaitsForCleanup \/ Readies
         \/ \E t \in {"caller", "stopper", "coord"} : CleanupStep(t)
         \/ StopLocks \/ ChecksWorker \/ SendsShutdown \/ TakesAck \/ AwaitsExit
         \/ Finalizes \/ FinalCloses \/ Stops
         \/ Reads \/ Puts \/ Overflows \/ Coordinates
         \/ Starts \/ Pings \/ StopCalled
         \/ \E op \in Operations \ {"hello", "ping", "shutdown"}, g \in Nat : Calls(op, g)
         \/ WorkerNext /\ UNCHANGED clientVars
         \/ UNCHANGED vars
<1>1. 1..MaxPauses \subseteq Nat
  BY WorkerBoundsAssumption
<1>2. ASSUME UserStep
      PROVE  \/ Starts \/ Pings \/ StopCalled
             \/ \E op \in Operations \ {"hello", "ping", "shutdown"}, g \in Nat : Calls(op, g)
  BY <1>1, <1>2 DEF UserStep, Operations, Inspections
<1>3. QED
  BY <1>2, Zenon DEF Next, CallerStep, StopperStep, ReaderStep, CoordStep


(***************************************************************************)
(* The lines of a pipe, as a set.                                          *)
(***************************************************************************)

(* A new line is added to those of a pipe.                                 *)
LEMMA LinesAppended ==
  ASSUME NEW S, NEW s \in Seq(S), NEW x \in S
  PROVE  Append(s, x) \in Seq(S) /\ Range(Append(s, x)) = Range(s) \cup {x}
<1>1. /\ Append(s, x) \in Seq(S) /\ Len(s) \in Nat /\ Len(Append(s, x)) = Len(s) + 1
      /\ Append(s, x)[Len(s) + 1] = x
      /\ \A i \in 1..Len(s) : Append(s, x)[i] = s[i]
  BY AppendProperties
<1>2. Range(Append(s, x)) = {Append(s, x)[i] : i \in 1..Len(Append(s, x))}
  BY <1>1, RangeEquality
<1>3. Range(s) = {s[i] : i \in 1..Len(s)}
  BY RangeEquality
<1>4. 1..(Len(s) + 1) = 1..Len(s) \cup {Len(s) + 1}
  BY <1>1
<1>5. QED
  BY <1>1, <1>2, <1>3, <1>4

(* The head of a pipe is one of its lines, the tail holds the others.      *)
LEMMA LinesTaken ==
  ASSUME NEW S, NEW s \in Seq(S), s # <<>>
  PROVE  /\ Head(s) \in Range(s) /\ Head(s) \in S
         /\ Tail(s) \in Seq(S) /\ Range(Tail(s)) \subseteq Range(s)
         /\ Len(Tail(s)) = Len(s) - 1 /\ Len(s) \in Nat
         /\ Head(s) = s[1] /\ \A i \in 1..Len(Tail(s)) : Tail(s)[i] = s[i + 1]
<1>1. /\ Tail(s) \in Seq(S) /\ Len(s) \in Nat \ {0} /\ Len(Tail(s)) = Len(s) - 1
      /\ Head(s) = s[1] /\ s[1] \in S
      /\ \A i \in 1..Len(Tail(s)) : Tail(s)[i] = s[i + 1]
  BY HeadTailProperties, EmptySeq, ElementOfSeq
<1>2. Range(Tail(s)) = {Tail(s)[i] : i \in 1..Len(Tail(s))}
  BY <1>1, RangeEquality
<1>3. Range(s) = {s[i] : i \in 1..Len(s)}
  BY RangeEquality
<1>4. 1 \in 1..Len(s) /\ \A i \in 1..Len(Tail(s)) : i + 1 \in 1..Len(s)
  BY <1>1
<1>5. QED
  BY <1>1, <1>2, <1>3, <1>4

(* An empty pipe has no lines.                                             *)
LEMMA NoLines == Range(<<>>) = {}
BY DEF Range
(***************************************************************************)
(* Control: who runs, who holds the lock, who is dead.                      *)
(***************************************************************************)

(* The worker never comes to life by itself, and before it is launched it  *)
(* takes no step at all.                                                   *)
LEMMA WorkerFrame ==
  ASSUME WorkerNext, UNCHANGED clientVars, alive \in BOOLEAN
  PROVE  (alive' => alive) /\ (alive \/ child)
<1> USE DEF Handling, Awaiting, Executing, Vanishes, Replies, Waits
<1>1. CASE Takes \/ Greets \/ Refuses \/ Launches \/ RunEnds \/ Resume \/ AnswersRest
  BY <1>1 DEF Takes, Greets, Refuses, Launches, RunEnds, Resume, AnswersRest
<1>2. CASE AnswersStatus \/ Inspects \/ BeginsTermination \/ NothingToTerminate
             \/ EndsTermination \/ GivesUpTermination
  BY <1>2 DEF AnswersStatus, Inspects, BeginsTermination, NothingToTerminate,
              EndsTermination, GivesUpTermination
<1>3. CASE Pauses \/ TargetEnds \/ TargetSpawns \/ WritesJunk \/ ChildEnds \/ Leaves \/ Crashes
  BY <1>3 DEF Pauses, TargetEnds, TargetSpawns, WritesJunk, ChildEnds, Leaves, Crashes
<1>4. QED
  BY <1>1, <1>2, <1>3 DEF WorkerNext

(* The control part is preserved, whoever takes a step.                    *)
LEMMA ControlStep ==
  ASSUME TypeOK, Control, [Next]_vars
  PROVE  Control'
<1>0. /\ at \in Points /\ state \in SessionStates /\ request \in RequestType /\ nextId \in Nat \ {0}
      /\ alive \in BOOLEAN /\ proc \in BOOLEAN /\ readerErr \in BOOLEAN /\ closed \in BOOLEAN
      /\ lock \in {"free", "caller", "stopper"} /\ MaxRequests \in Nat /\ MaxRequests > 1
  BY ClientAssumption DEF TypeOK, WorkerTypeOK
<1> USE <1>0 DEF Control, StartInv, TeardownInv, Buried, CallInv, Pristine, Over, Cleaning, Points,
             Goes, ToFailed, CallerFails, CallerRaises, EndCall, Request, Nothing, Operations,
             workerVars, targetVars, pipeVars, threadVars
<1>1. CASE LaunchFails
  BY <1>1 DEF LaunchFails
<1>2. CASE LaunchesWorker
  BY <1>2 DEF LaunchesWorker
<1>3. CASE PingLocks
  BY <1>3 DEF PingLocks
<1>4. CASE PingGivesUp
  BY <1>4 DEF PingGivesUp
<1>5. CASE Sends
  BY <1>5 DEF Sends
<1>6. CASE Receives
  BY <1>6 DEF Receives
<1>7. CASE TimesOut
  BY <1>7 DEF TimesOut
<1>8. CASE WaitsForCleanup
  <2>1. StartInv'
    BY <1>8 DEF WaitsForCleanup
  <2>2. TeardownInv'
    BY <1>8 DEF WaitsForCleanup
  <2>3. CallInv'
    BY <1>8 DEF WaitsForCleanup
  <2>4. QED
    BY <2>1, <2>2, <2>3
<1>9. CASE Readies
  BY <1>9 DEF Readies
<1>10. ASSUME NEW t \in {"caller", "stopper", "coord"}, CleanupStep(t)
       PROVE  Control'
  <2>1. CASE Kill(t)
    <3>1. CASE t = "caller"
      BY <2>1, <3>1, ZenonT(40) DEF Kill, Vanishes
    <3>2. CASE t = "stopper"
      BY <2>1, <3>2 DEF Kill, Vanishes
    <3>3. CASE t = "coord"
      BY <2>1, <3>3, ZenonT(40) DEF Kill, Vanishes
    <3>4. QED
      BY <3>1, <3>2, <3>3
  <2>2. CASE Close(t)
    BY <1>10, <2>2 DEF Close
  <2>3. CASE Clear(t)
    <3>1. CASE t = "caller"
      BY <2>3, <3>1 DEF Clear, AfterCleanup
    <3>2. CASE t = "stopper"
      BY <2>3, <3>2 DEF Clear, AfterCleanup
    <3>3. CASE t = "coord"
      BY <2>3, <3>3 DEF Clear, AfterCleanup
    <3>4. QED
      BY <3>1, <3>2, <3>3
  <2>4. CASE NothingToClean(t)
    BY <1>10, <2>4 DEF NothingToClean, AfterCleanup
  <2>5. QED
    BY <1>10, <2>1, <2>2, <2>3, <2>4 DEF CleanupStep
<1>11. CASE StopLocks
  BY <1>11 DEF StopLocks
<1>12. CASE ChecksWorker
  BY <1>12 DEF ChecksWorker
<1>13. CASE SendsShutdown
  BY <1>13 DEF SendsShutdown
<1>14. CASE TakesAck
  BY <1>14 DEF TakesAck
<1>15. CASE AwaitsExit
  BY <1>15 DEF AwaitsExit
<1>16. CASE Finalizes
  BY <1>16 DEF Finalizes
<1>17. CASE FinalCloses
  BY <1>17 DEF FinalCloses
<1>18. CASE Stops
  <2>1. StartInv'
    BY <1>18 DEF Stops
  <2>2. TeardownInv'
    BY <1>18 DEF Stops
  <2>3. CallInv'
    BY <1>18 DEF Stops
  <2>4. QED
    BY <2>1, <2>2, <2>3
<1>19. CASE Reads
  BY <1>19 DEF Reads
<1>20. CASE Puts
  BY <1>20 DEF Puts, AfterPut
<1>21. CASE Overflows
  BY <1>21 DEF Overflows
<1>22. CASE Coordinates
  BY <1>22 DEF Coordinates
<1>23. CASE Starts
  BY <1>23 DEF Starts
<1>24. CASE Pings
  BY <1>24 DEF Pings, Allowed
<1>25. CASE StopCalled
  BY <1>25 DEF StopCalled
<1>26. ASSUME NEW op \in Operations \ {"hello", "ping", "shutdown"}, NEW g \in Nat, Calls(op, g)
       PROVE  Control'
  BY <1>26 DEF Calls, Allowed
<1>27. CASE WorkerNext /\ UNCHANGED clientVars
  <2>1. ~Pristine
    BY <1>27, WorkerFrame
  <2>2. /\ alive' => alive
        /\ UNCHANGED <<state, proc, lock, nextId, request, at, readerErr, closed>>
    BY <1>27, WorkerFrame DEF clientVars
  <2>3. StartInv'
    BY <2>1, <2>2
  <2>4. TeardownInv'
    BY <2>2
  <2>5. CallInv'
    BY <2>2
  <2>6. QED
    BY <2>3, <2>4, <2>5
<1>28. CASE UNCHANGED vars
  BY <1>28 DEF vars, clientVars
<1>29. QED
  BY <1>1, <1>2, <1>3, <1>4, <1>5, <1>6, <1>7, <1>8, <1>9, <1>10, <1>11, <1>12, <1>13, <1>14,
     <1>15, <1>16, <1>17, <1>18, <1>19, <1>20, <1>21, <1>22, <1>23, <1>24, <1>25, <1>26, <1>27,
     <1>28, NextCases

(***************************************************************************)
(* What is on its way.                                                     *)
(***************************************************************************)

(* The parts of the type invariant that the channels have.                 *)
ChannelTypes ==
  /\ at \in Points /\ request \in RequestType /\ nextId \in Nat \ {0}
  /\ stdin \in Seq(RequestType) /\ stdout \in Seq(LineType) /\ queue \in Seq(LineType)
  /\ held \in LineType /\ serving \in RequestType
  /\ stage \in {"take", "handle", "await", "leave"}

(* What a step does to the lines of the pipes and of the queue.            *)
LEMMA ChannelLines ==
  ASSUME ChannelTypes
  PROVE  /\ \A r \in RequestType : /\ Append(stdin, r) \in Seq(RequestType)
                                  /\ Range(Append(stdin, r)) = Range(stdin) \cup {r}
         /\ \A a \in LineType : /\ Append(stdout, a) \in Seq(LineType)
                               /\ Range(Append(stdout, a)) = Range(stdout) \cup {a}
                               /\ Append(queue, a) \in Seq(LineType)
                               /\ Range(Append(queue, a)) = Range(queue) \cup {a}
         /\ stdin # <<>> => /\ Head(stdin) \in Range(stdin) /\ Tail(stdin) \in Seq(RequestType)
                            /\ Head(stdin) \in RequestType
                            /\ Range(Tail(stdin)) \subseteq Range(stdin)
         /\ stdout # <<>> => /\ Head(stdout) \in Range(stdout) /\ Tail(stdout) \in Seq(LineType)
                             /\ Head(stdout) \in LineType
                             /\ Range(Tail(stdout)) \subseteq Range(stdout)
         /\ queue # <<>> => /\ Head(queue) \in Range(queue) /\ Tail(queue) \in Seq(LineType)
                            /\ Head(queue) \in LineType
                            /\ Range(Tail(queue)) \subseteq Range(queue)
<1>1. stdin \in Seq(RequestType) /\ stdout \in Seq(LineType) /\ queue \in Seq(LineType)
  BY DEF ChannelTypes
<1>2. QED
  BY <1>1, LinesAppended, LinesTaken

(* What arrives, or is thrown away, keeps the tags it has.                 *)
LEMMA TagsKept ==
  ASSUME ChannelTypes, TagInv, UNCHANGED <<serving, stage>>,
         nextId' = nextId, request' \in {request, Nothing},
         Range(stdin') \subseteq Range(stdin), Wire' \subseteq Wire \cup {None, EOF}
  PROVE  TagInv'
<1> USE DEF ChannelTypes, TaggedRequest, TaggedAnswer, Request, Nothing, RequestType, LineType,
            None, EOF, Answer
<1>1. /\ serving' # Nothing => TaggedRequest(serving)'
      /\ stage' \in {"take", "leave"} <=> serving' = Nothing
  BY DEF TagInv
<1>2. \A r \in Range(stdin') : TaggedRequest(r)'
  BY DEF TagInv
<1>3. \A a \in Wire' : TaggedAnswer(a)'
  BY DEF TagInv
<1>4. QED
  BY <1>1, <1>2, <1>3 DEF TagInv

(* Whatever the client does keeps what is on its way tagged.               *)
LEMMA ClientTags ==
  ASSUME TypeOK, Control, TagInv, [Next]_vars, ~(WorkerNext /\ UNCHANGED clientVars)
  PROVE  TagInv'
<1>0. ChannelTypes
  BY ClientAssumption DEF TypeOK, WorkerTypeOK, ChannelTypes
<1> USE <1>0 DEF ChannelTypes, TagInv, TaggedRequest, TaggedAnswer, Points,
             Wire, Goes, CallerFails, CallerRaises, EndCall, Request, Nothing, Operations,
             workerVars, targetVars, pipeVars, threadVars,
             None, EOF, Junk, Answer
<1>1. CASE LaunchFails
  BY <1>1 DEF LaunchFails
<1>2. CASE LaunchesWorker
  BY <1>2 DEF LaunchesWorker, Control, StartInv, Pristine
<1>3. CASE PingLocks
  BY <1>3 DEF PingLocks, Control, CallInv
<1>4. CASE PingGivesUp
  BY <1>4 DEF PingGivesUp
<1>5. CASE Sends
  <2>1. /\ UNCHANGED <<serving, stage, nextId, stdout, held, queue>>
        /\ \/ UNCHANGED stdin /\ request' \in {request, Nothing}
           \/ stdin' = Append(stdin, request) /\ UNCHANGED request
        /\ at.caller = "send"
    BY <1>5 DEF Sends, Written
  <2>2. CASE UNCHANGED stdin /\ request' \in {request, Nothing}
    BY <2>1, <2>2, TagsKept
  <2>3. CASE stdin' = Append(stdin, request) /\ UNCHANGED request
    <3>1. request.id \in 1..(nextId - 1)
      BY <2>1 DEF Control, CallInv
    <3>2. Range(stdin') = Range(stdin) \cup {request}
      BY <2>3, ChannelLines
    <3>3. QED
      BY <2>1, <2>3, <3>1, <3>2
  <2>4. QED
    BY <2>1, <2>2, <2>3
<1>6. CASE Receives
  <2>1. /\ UNCHANGED <<serving, stage, nextId, stdin, stdout, held>>
        /\ request' \in {request, Nothing} /\ queue # <<>> /\ queue' = Tail(queue)
    BY <1>6 DEF Receives
  <2>2. Wire' \subseteq Wire
    BY <2>1, ChannelLines
  <2>3. QED
    BY <2>1, <2>2, TagsKept
<1>7. CASE TimesOut
  BY <1>7 DEF TimesOut
<1>8. CASE WaitsForCleanup
  BY <1>8 DEF WaitsForCleanup
<1>9. CASE Readies
  <2>1. /\ UNCHANGED <<serving, stage, nextId, stdin, stdout, held, queue>>
        /\ request' \in {request, Nothing}
    BY <1>9 DEF Readies
  <2>2. QED
    BY <2>1, TagsKept
<1>10. ASSUME NEW t \in {"caller", "stopper", "coord"}, CleanupStep(t)
       PROVE  TagInv'
  <2>1. CASE Kill(t)
    BY <1>10, <2>1, NoLines DEF Kill, Vanishes
  <2>2. CASE Close(t)
    BY <1>10, <2>2 DEF Close
  <2>3. CASE Clear(t)
    BY <1>10, <2>3 DEF Clear, AfterCleanup
  <2>4. CASE NothingToClean(t)
    BY <1>10, <2>4 DEF NothingToClean, AfterCleanup
  <2>5. QED
    BY <1>10, <2>1, <2>2, <2>3, <2>4 DEF CleanupStep
<1>13. CASE SendsShutdown
  <2>1. /\ UNCHANGED <<serving, stage, stdout, held, queue, request>> /\ nextId' = nextId + 1
        /\ UNCHANGED stdin \/ stdin' = Append(stdin, Request(nextId, "shutdown", 0))
    BY <1>13 DEF SendsShutdown, Written
  <2>8. Request(nextId, "shutdown", 0) \in RequestType
    BY DEF RequestType
  <2>2. Range(stdin') \subseteq Range(stdin) \cup {Request(nextId, "shutdown", 0)}
    BY <2>1, <2>8, ChannelLines
  <2>3. request.id \in 0..(nextId - 1)
    BY DEF Control, CallInv
  <2>4. \A r \in Range(stdin) : TaggedRequest(r)'
    BY <2>1
  <2>9. \A r : r = Request(nextId, "shutdown", 0) => TaggedRequest(r)'
    BY <2>1, <2>3
  <2>5. \A a \in Wire' : TaggedAnswer(a)'
    BY <2>1
  <2>6. serving' # Nothing => TaggedRequest(serving)'
    BY <2>1
  <2>7. QED
    BY <2>1, <2>2, <2>4, <2>5, <2>6, <2>9
<1>14. CASE TakesAck
  <2>1. /\ UNCHANGED <<serving, stage, nextId, request, stdin, stdout, held>>
        /\ UNCHANGED queue \/ (queue # <<>> /\ queue' = Tail(queue))
    BY <1>14 DEF TakesAck
  <2>2. Wire' \subseteq Wire
    BY <2>1, ChannelLines
  <2>3. QED
    BY <2>1, <2>2, TagsKept
<1>19. CASE Reads
  <2>1. /\ UNCHANGED <<serving, stage, nextId, request, stdin, queue>>
        /\ \/ stdout # <<>> /\ held' = Head(stdout) /\ stdout' = Tail(stdout)
           \/ held' = EOF /\ UNCHANGED stdout
    BY <1>19 DEF Reads
  <2>2. Wire' \subseteq Wire \cup {EOF}
    BY <2>1, ChannelLines, ZenonT(40)
  <2>3. QED
    BY <2>1, <2>2, TagsKept
<1>20. CASE Puts
  <2>1. /\ UNCHANGED <<serving, stage, nextId, request, stdin, stdout>>
        /\ \/ queue' = Append(queue, held) /\ held' \in {None, EOF}
           \/ UNCHANGED <<queue, held>>
    BY <1>20 DEF Puts
  <2>2. Wire' \subseteq Wire \cup {None, EOF}
    BY <2>1, ChannelLines, ZenonT(40)
  <2>3. QED
    BY <2>1, <2>2, TagsKept
<1>21. CASE Overflows
  BY <1>21 DEF Overflows
<1>26. ASSUME NEW op \in Operations \ {"hello", "ping", "shutdown"}, NEW g \in Nat, Calls(op, g)
       PROVE  TagInv'
  BY <1>26 DEF Calls
<1>11. CASE StopLocks \/ ChecksWorker \/ AwaitsExit \/ Finalizes \/ FinalCloses \/ Stops
  BY <1>11, TagsKept DEF StopLocks, ChecksWorker, AwaitsExit, Finalizes, FinalCloses, Stops
<1>22. CASE Coordinates \/ Starts \/ Pings \/ StopCalled
  BY <1>22, TagsKept DEF Coordinates, Starts, Pings, StopCalled
<1>28. CASE UNCHANGED vars
  BY <1>28, TagsKept DEF vars, clientVars
<1>29. QED
  BY <1>1, <1>2, <1>3, <1>4, <1>5, <1>6, <1>7, <1>8, <1>9, <1>10, <1>11, <1>13, <1>14,
     <1>19, <1>20, <1>21, <1>22, <1>26, <1>28, NextCases

(* The worker answers the request it is at, without a state only when it   *)
(* is greeted or shut down.                                                *)
Answers(a) ==
  /\ serving # Nothing /\ a \in LineType /\ a.id = serving.id
  /\ a.ok => \/ a.state \in Ended \cup {"idle", "paused"}
             \/ a.state = "none" /\ serving.op \in {"hello", "ping", "shutdown"}

(* What the worker's steps do to the channels.                             *)
LEMMA WorkerCases ==
  ASSUME TypeOK, TagInv, WorkerNext
  PROVE  \/ Takes
         \/ \E a \in LineType, then \in {"take", "leave"} : Answers(a) /\ Replies(a, then)
         \/ /\ UNCHANGED <<serving, stdin, stdout>>
            /\ stage' = stage \/ (serving # Nothing /\ stage' = "await")
         \/ UNCHANGED <<serving, stage, stdin>> /\ stdout' = Append(stdout, Junk)
         \/ Vanishes /\ UNCHANGED stdout
<1>0. /\ serving \in RequestType /\ target \in TargetStates /\ generation \in Nat
      /\ line \in TargetLines \cup {"none"} /\ stage \in {"take", "handle", "await", "leave"}
      /\ stage \in {"take", "leave"} <=> serving = Nothing
  BY WorkerBoundsAssumption DEF TypeOK, WorkerTypeOK, TagInv
<1>1. stage \in {"handle", "await"} =>
        /\ Answers(Error)
        /\ serving.op \in {"hello", "ping", "shutdown"} => Answers(Done)
        /\ \A s \in Ended \cup {"idle", "paused"} : Answers(Ok(s))
  BY <1>0 DEF Answers, Error, Done, Ok, Answer, LineType, RequestType, TargetStates, Ended
<1>2. \A a : Answers(a) => a \in LineType
  BY DEF Answers
<1> USE <1>0, <1>1, <1>2 DEF Handling, Awaiting, Waits
<1>3. CASE Takes
  BY <1>3
<1>4. CASE Greets
  BY <1>4 DEF Greets
<1>5. CASE Refuses
  BY <1>5 DEF Refuses
<1>6. CASE Launches
  BY <1>6 DEF Launches, pipeVars
<1>7. CASE RunEnds
  BY <1>7 DEF RunEnds
<1>8. CASE Resume
  BY <1>8 DEF Resume, pipeVars
<1>9. CASE AnswersRest
  BY <1>9 DEF AnswersRest, Ended
<1>10. CASE AnswersStatus
  BY <1>10 DEF AnswersStatus
<1>11. CASE Inspects
  BY <1>11 DEF Inspects
<1>12. CASE BeginsTermination
  BY <1>12 DEF BeginsTermination, pipeVars
<1>13. CASE NothingToTerminate
  BY <1>13 DEF NothingToTerminate
<1>14. CASE EndsTermination
  BY <1>14 DEF EndsTermination, Ended
<1>15. CASE GivesUpTermination
  BY <1>15 DEF GivesUpTermination
<1>16. CASE Pauses \/ TargetEnds \/ TargetSpawns \/ ChildEnds
  BY <1>16 DEF Pauses, TargetEnds, TargetSpawns, ChildEnds, pipeVars
<1>17. CASE WritesJunk
  BY <1>17 DEF WritesJunk
<1>18. CASE Leaves \/ Crashes
  BY <1>18 DEF Leaves, Crashes
<1>19. QED
  BY <1>3, <1>4, <1>5, <1>6, <1>7, <1>8, <1>9, <1>10, <1>11, <1>12, <1>13, <1>14, <1>15, <1>16,
     <1>17, <1>18 DEF WorkerNext

(* So does the worker.                                                     *)
LEMMA TagStep ==
  ASSUME TypeOK, Control, TagInv, [Next]_vars
  PROVE  TagInv'
<1>1. CASE ~(WorkerNext /\ UNCHANGED clientVars)
  BY <1>1, ClientTags
<1>2. CASE WorkerNext /\ UNCHANGED clientVars
  <2>0. ChannelTypes
    BY ClientAssumption DEF TypeOK, WorkerTypeOK, ChannelTypes
  <2>1. UNCHANGED <<nextId, request, queue, held>>
    BY <1>2 DEF clientVars
  <2>2. CASE Takes
    <3>1. /\ Head(stdin) \in Range(stdin) /\ Range(Tail(stdin)) \subseteq Range(stdin)
          /\ serving' = Head(stdin) /\ stdin' = Tail(stdin) /\ stage' = "handle" /\ UNCHANGED stdout
      BY <2>0, <2>2, ChannelLines DEF Takes
    <3>2. Head(stdin) # Nothing
      BY <3>1 DEF TagInv, TaggedRequest, Nothing, Request
    <3>3. QED
      BY <2>1, <3>1, <3>2 DEF TagInv, Wire, TaggedRequest, TaggedAnswer
  <2>3. ASSUME NEW a \in LineType, NEW then \in {"take", "leave"}, Answers(a), Replies(a, then)
        PROVE  TagInv'
    <3>1. Range(stdout') = Range(stdout) \cup {a} /\ UNCHANGED stdin
          /\ serving' = Nothing /\ stage' = then
      BY <2>0, <2>3, ChannelLines DEF Replies
    <3>2. TaggedAnswer(a)
      BY <2>0, <2>3 DEF Answers, TaggedAnswer, TagInv, TaggedRequest, Control, CallInv
    <3>3. QED
      BY <2>1, <3>1, <3>2 DEF TagInv, Wire, TaggedRequest, TaggedAnswer
  <2>4. CASE /\ UNCHANGED <<serving, stdin, stdout>>
             /\ stage' = stage \/ (serving # Nothing /\ stage' = "await")
    BY <2>1, <2>4 DEF TagInv, Wire, TaggedRequest, TaggedAnswer
  <2>5. CASE UNCHANGED <<serving, stage, stdin>> /\ stdout' = Append(stdout, Junk)
    <3>1. Junk \in LineType /\ TaggedAnswer(Junk)
      BY <2>0 DEF Junk, Answer, LineType, TaggedAnswer, ChannelTypes
    <3>2. Range(stdout') = Range(stdout) \cup {Junk}
      BY <2>0, <2>5, <3>1, ChannelLines
    <3>3. QED
      BY <2>1, <2>5, <3>1, <3>2 DEF TagInv, Wire, TaggedRequest, TaggedAnswer
  <2>6. CASE Vanishes /\ UNCHANGED stdout
    BY <2>1, <2>6, NoLines DEF Vanishes, TagInv, Wire, TaggedRequest, TaggedAnswer
  <2>7. QED
    BY <1>2, <2>2, <2>3, <2>4, <2>5, <2>6, WorkerCases
<1>3. QED
  BY <1>1, <1>2

(* What has no id is a stray line, or the end of the pipe.                 *)
LEMMA StrayStep ==
  ASSUME TypeOK, Control, TagInv, StrayInv, [Next]_vars
  PROVE  StrayInv'
<1>0. ChannelTypes
  BY ClientAssumption DEF TypeOK, WorkerTypeOK, ChannelTypes
<1>1. CASE Reads
  <2>1. /\ UNCHANGED queue
        /\ \/ stdout # <<>> /\ held' = Head(stdout) /\ stdout' = Tail(stdout)
           \/ held' = EOF /\ UNCHANGED stdout
    BY <1>1 DEF Reads
  <2>2. Range(stdout') \subseteq Range(stdout) /\ held' \in Range(stdout) \cup {EOF}
    BY <1>0, <2>1, ChannelLines
  <2>3. None \notin Range(stdout) /\ EOF # None
    BY DEF StrayInv, Real, None, EOF, Junk, Answer
  <2>4. QED
    BY <2>1, <2>2, <2>3 DEF StrayInv, Real
<1>2. CASE Puts
  <2>1. UNCHANGED stdout /\ held # None
    BY <1>2 DEF Puts, workerVars, pipeVars, StrayInv
  <2>2. CASE readerErr
    <3>1. at'.reader = "done" /\ UNCHANGED <<queue, held>>
      BY <1>0, <1>2, <2>2 DEF Puts, Goes, ChannelTypes, Points
    <3>2. QED
      BY <2>1, <3>1 DEF StrayInv
  <2>3. CASE ~readerErr
    <3>1. /\ queue' = Append(queue, held) /\ at'.reader = AfterPut
          /\ held' = IF AfterPut = "putting" THEN EOF ELSE None
      BY <1>0, <1>2, <2>3 DEF Puts, Goes, ChannelTypes, Points
    <3>2. Range(queue') = Range(queue) \cup {held}
      BY <1>0, <3>1, ChannelLines DEF ChannelTypes
    <3>3. EOF # None
      BY DEF EOF, None, Answer
    <3>4. QED
      BY <2>1, <3>1, <3>2, <3>3 DEF StrayInv
  <2>4. QED
    BY <2>2, <2>3
<1>3. CASE Overflows
  <2>1. /\ UNCHANGED <<stdout, queue>> /\ held' = None /\ at'.reader = "done"
    BY <1>0, <1>3 DEF Overflows, workerVars, pipeVars, ChannelTypes, Points
  <2>2. QED
    BY <2>1 DEF StrayInv
<1>4. CASE Receives \/ TakesAck
  <2>1. /\ UNCHANGED <<stdout, held>> /\ at'.reader = at.reader
        /\ UNCHANGED queue \/ (queue # <<>> /\ queue' = Tail(queue))
    BY <1>0, <1>4 DEF Receives, TakesAck, CallerFails, EndCall, Goes, workerVars, pipeVars,
                      threadVars, ChannelTypes, Points
  <2>2. Range(queue') \subseteq Range(queue)
    BY <1>0, <2>1, ChannelLines
  <2>3. QED
    BY <2>1, <2>2 DEF StrayInv
<1>5. CASE LaunchesWorker
  <2>1. UNCHANGED <<stdout, queue, held>> /\ at'.reader = "reading"
    BY <1>0, <1>5 DEF LaunchesWorker, pipeVars, threadVars, ChannelTypes, Points
  <2>2. QED
    BY <2>1 DEF StrayInv
<1>6. CASE WorkerNext /\ UNCHANGED clientVars
  <2>1. UNCHANGED <<queue, held, at>>
    BY <1>6 DEF clientVars
  <2>2. Range(stdout') \subseteq Range(stdout) \cup {a \in LineType : Real(a)} \cup {Junk}
    <3>1. CASE UNCHANGED stdout
      BY <3>1
    <3>2. CASE stdout' = Append(stdout, Junk)
      <4>1. Junk \in LineType
        BY DEF Junk, Answer, LineType
      <4>2. QED
        BY <1>0, <3>2, <4>1, ChannelLines
    <3>3. ASSUME NEW a \in LineType, NEW then, Answers(a), Replies(a, then)
          PROVE  Range(stdout') \subseteq Range(stdout) \cup {b \in LineType : Real(b)}
      <4>1. Real(a)
        BY <1>0, <3>3 DEF Answers, TagInv, TaggedRequest, Real, ChannelTypes
      <4>2. QED
        BY <1>0, <3>3, <4>1, ChannelLines DEF Replies
    <3>4. Takes => UNCHANGED stdout
      BY DEF Takes
    <3>5. QED
      BY <1>6, <3>1, <3>2, <3>3, <3>4, WorkerCases
  <2>3. QED
    BY <2>1, <2>2 DEF StrayInv
<1>7. CASE UNCHANGED <<stdout, queue, held, at.reader>>
  BY <1>7 DEF StrayInv
<1>8. ASSUME NEW t \in {"caller", "stopper", "coord"}, CleanupStep(t)
      PROVE  UNCHANGED <<stdout, queue, held, at.reader>>
  BY <1>0, <1>8 DEF CleanupStep, Kill, Close, Clear, NothingToClean, AfterCleanup, EndCall, Goes,
                    workerVars, pipeVars, ChannelTypes, Points
<1>9. LaunchFails \/ PingLocks \/ PingGivesUp \/ Sends \/ TimesOut \/ WaitsForCleanup \/ Readies
        => UNCHANGED <<stdout, queue, held, at.reader>>
  BY <1>0 DEF LaunchFails, PingLocks, PingGivesUp, Sends, TimesOut, WaitsForCleanup, Readies,
              CallerFails, CallerRaises, EndCall, Goes, workerVars, pipeVars, threadVars,
              ChannelTypes, Points
<1>10. StopLocks \/ ChecksWorker \/ SendsShutdown \/ AwaitsExit \/ Finalizes \/ FinalCloses \/ Stops
        => UNCHANGED <<stdout, queue, held, at.reader>>
  BY <1>0 DEF StopLocks, ChecksWorker, SendsShutdown, AwaitsExit, Finalizes, FinalCloses, Stops,
              Goes, workerVars, pipeVars, threadVars, ChannelTypes, Points
<1>11. Coordinates \/ Starts \/ Pings \/ StopCalled \/ UNCHANGED vars
        => UNCHANGED <<stdout, queue, held, at.reader>>
  BY <1>0 DEF Coordinates, Starts, Pings, StopCalled, vars, clientVars, Goes, workerVars,
              pipeVars, threadVars, ChannelTypes, Points
<1>12. ASSUME NEW op \in Operations \ {"hello", "ping", "shutdown"}, NEW g \in Nat, Calls(op, g)
       PROVE  UNCHANGED <<stdout, queue, held, at.reader>>
  BY <1>0, <1>12 DEF Calls, Goes, workerVars, pipeVars, threadVars, ChannelTypes, Points
<1>13. QED
  BY <1>1, <1>2, <1>3, <1>4, <1>5, <1>6, <1>7, <1>8, <1>9, <1>10, <1>11, <1>12, NextCases

(***************************************************************************)
(* One thing at a time.                                                    *)
(***************************************************************************)

(* At most one answer is left of at most one, none behind an answer, and   *)
(* one more makes one of none.                                             *)
LEMMA OneTaken ==
  ASSUME NEW s \in Seq(LineType), s # <<>>
  PROVE  /\ Silent(s) => ~Real(Head(s)) /\ Silent(Tail(s))
         /\ AtMostOne(s) => AtMostOne(Tail(s))
         /\ AtMostOne(s) /\ Real(Head(s)) => Silent(Tail(s))
<1>1. /\ Head(s) \in Range(s) /\ Tail(s) \in Seq(LineType) /\ Range(Tail(s)) \subseteq Range(s)
      /\ Len(Tail(s)) = Len(s) - 1 /\ Len(s) \in Nat
      /\ Head(s) = s[1] /\ \A i \in 1..Len(Tail(s)) : Tail(s)[i] = s[i + 1]
  BY LinesTaken
<1>2. Silent(s) => ~Real(Head(s)) /\ Silent(Tail(s))
  BY <1>1 DEF Silent
<1>3. AtMostOne(s) => AtMostOne(Tail(s))
  <2>1. SUFFICES ASSUME AtMostOne(s), NEW i \in 1..Len(Tail(s)), NEW j \in 1..Len(Tail(s)),
                        Real(Tail(s)[i]), Real(Tail(s)[j])
                 PROVE  i = j
    BY DEF AtMostOne
  <2>2. Real(s[i + 1]) /\ Real(s[j + 1]) /\ i + 1 \in 1..Len(s) /\ j + 1 \in 1..Len(s)
    BY <1>1, <2>1
  <2>3. QED
    BY <2>1, <2>2 DEF AtMostOne
<1>4. AtMostOne(s) /\ Real(Head(s)) => Silent(Tail(s))
  <2>0. Range(Tail(s)) = {Tail(s)[i] : i \in 1..Len(Tail(s))}
    BY <1>1, RangeEquality
  <2>1. SUFFICES ASSUME AtMostOne(s), Real(Head(s)), NEW i \in 1..Len(Tail(s)), Real(Tail(s)[i])
                 PROVE  FALSE
    BY <2>0 DEF Silent
  <2>2. Real(s[i + 1]) /\ i + 1 \in 1..Len(s) /\ Real(s[1]) /\ 1 \in 1..Len(s) /\ i + 1 # 1
    BY <1>1, <2>1
  <2>3. QED
    BY <2>1, <2>2 DEF AtMostOne
<1>5. QED
  BY <1>2, <1>3, <1>4

(* A stray line changes nothing, an answer in a silent pipe is the one.    *)
LEMMA OneAppended ==
  ASSUME NEW s \in Seq(LineType), NEW a \in LineType
  PROVE  /\ Silent(s) /\ ~Real(a) => Silent(Append(s, a))
         /\ Silent(s) => AtMostOne(s) /\ AtMostOne(Append(s, a))
         /\ AtMostOne(s) /\ ~Real(a) => AtMostOne(Append(s, a))
<1>1. /\ Append(s, a) \in Seq(LineType) /\ Len(s) \in Nat /\ Len(Append(s, a)) = Len(s) + 1
      /\ Append(s, a)[Len(s) + 1] = a
      /\ \A i \in 1..Len(s) : Append(s, a)[i] = s[i]
  BY AppendProperties
<1>2. Silent(s) => \A i \in 1..Len(s) : ~Real(s[i])
  BY RangeEquality DEF Silent
<1>3. Silent(s) /\ ~Real(a) => Silent(Append(s, a))
  BY LinesAppended DEF Silent
<1>4. \A i \in 1..Len(Append(s, a)) : i \in 1..Len(s) \/ i = Len(s) + 1
  BY <1>1
<1>5. Silent(s) => AtMostOne(s) /\ AtMostOne(Append(s, a))
  BY <1>1, <1>2, <1>4 DEF AtMostOne
<1>6. AtMostOne(s) /\ ~Real(a) => AtMostOne(Append(s, a))
  BY <1>1, <1>4 DEF AtMostOne
<1>7. QED
  BY <1>3, <1>5, <1>6

(* The reader moves an answer on, or drops it, and never makes two.        *)
LEMMA ReaderTraffic ==
  ASSUME ChannelTypes, Reads \/ Puts \/ Overflows
  PROVE  /\ UNCHANGED <<stdin, serving, state, request>> /\ at'.caller = at.caller
         /\ NoAnswer => NoAnswer'
         /\ OneAnswer => OneAnswer'
<1>0. ~Real(None) /\ ~Real(EOF) /\ None \in LineType /\ EOF \in LineType /\ held \in LineType
      /\ stdout \in Seq(LineType) /\ queue \in Seq(LineType)
  BY DEF Real, None, EOF, Answer, LineType, ChannelTypes
<1>1. CASE Reads
  <2>1. /\ UNCHANGED <<stdin, serving, state, request, queue>> /\ at'.caller = at.caller
        /\ \/ stdout # <<>> /\ held' = Head(stdout) /\ stdout' = Tail(stdout)
           \/ held' = EOF /\ UNCHANGED stdout
    BY <1>1 DEF Reads, Goes, ChannelTypes, Points
  <2>2. NoAnswer => NoAnswer'
    BY <1>0, <2>1, ChannelLines DEF NoAnswer, Wire
  <2>3. OneAnswer => OneAnswer'
    BY <1>0, <2>1, OneTaken DEF OneAnswer
  <2>4. QED
    BY <2>1, <2>2, <2>3
<1>2. CASE Puts
  <2>1. /\ UNCHANGED <<stdin, serving, state, request, stdout>> /\ at'.caller = at.caller
        /\ \/ queue' = Append(queue, held) /\ held' \in {None, EOF}
           \/ UNCHANGED <<queue, held>>
    BY <1>2 DEF Puts, Goes, ChannelTypes, Points, workerVars, pipeVars
  <2>2. NoAnswer => NoAnswer'
    BY <1>0, <2>1, ChannelLines DEF NoAnswer, Wire
  <2>3. OneAnswer => OneAnswer'
    BY <1>0, <2>1, OneAppended DEF OneAnswer
  <2>4. QED
    BY <2>1, <2>2, <2>3
<1>3. CASE Overflows
  <2>1. /\ UNCHANGED <<stdin, serving, state, request, stdout, queue>> /\ at'.caller = at.caller
        /\ held' = None
    BY <1>3 DEF Overflows, ChannelTypes, Points, workerVars, pipeVars
  <2>2. QED
    BY <1>0, <2>1 DEF NoAnswer, Wire, OneAnswer
<1>4. QED
  BY <1>1, <1>2, <1>3

(* The worker takes the request, answers it, or loses it.                  *)
LEMMA WorkerTraffic ==
  ASSUME TypeOK, Control, TagInv, WorkerNext, UNCHANGED clientVars
  PROVE  (Quiet => Quiet') /\ (InFlight => InFlight')
<1>0. ChannelTypes
  BY ClientAssumption DEF TypeOK, WorkerTypeOK, ChannelTypes
<1>1. UNCHANGED <<request, queue, held>>
  BY DEF clientVars
<1>2. CASE Takes
  <2>1. /\ stdin # <<>> /\ serving' = Head(stdin) /\ stdin' = Tail(stdin) /\ UNCHANGED stdout
    BY <1>2 DEF Takes
  <2>2. Head(<<request>>) = request /\ Tail(<<request>>) = <<>>
    OBVIOUS
  <2>3. serving = Nothing
    BY <1>2 DEF Takes, TagInv
  <2>4. InFlight => stdin = <<request>> /\ NoAnswer
    BY <2>1 DEF InFlight
  <2>5. QED
    BY <1>1, <2>1, <2>2, <2>4 DEF Quiet, InFlight, NoAnswer, Wire
<1>3. ASSUME NEW a \in LineType, NEW then \in {"take", "leave"}, Answers(a), Replies(a, then)
      PROVE  (Quiet => Quiet') /\ (InFlight => InFlight')
  <2>1. /\ serving # Nothing /\ serving' = Nothing /\ stdout' = Append(stdout, a)
        /\ UNCHANGED stdin
    BY <1>3 DEF Replies, Answers
  <2>2. NoAnswer => OneAnswer'
    BY <1>0, <1>1, <2>1, OneAppended DEF NoAnswer, OneAnswer, Wire, Silent, ChannelTypes
  <2>3. QED
    BY <1>1, <2>1, <2>2 DEF Quiet, InFlight
<1>4. CASE /\ UNCHANGED <<serving, stdin, stdout>>
           /\ stage' = stage \/ (serving # Nothing /\ stage' = "await")
  BY <1>1, <1>4 DEF Quiet, InFlight, NoAnswer, OneAnswer, Wire
<1>5. CASE UNCHANGED <<serving, stage, stdin>> /\ stdout' = Append(stdout, Junk)
  <2>1. Junk \in LineType /\ ~Real(Junk)
    BY DEF Junk, Answer, LineType, Real
  <2>2. (NoAnswer => NoAnswer') /\ (OneAnswer => OneAnswer')
    BY <1>0, <1>1, <1>5, <2>1, ChannelLines, OneAppended
       DEF NoAnswer, OneAnswer, Wire, ChannelTypes
  <2>3. QED
    BY <1>1, <1>5, <2>2 DEF Quiet, InFlight
<1>6. CASE Vanishes /\ UNCHANGED stdout
  BY <1>1, <1>6 DEF Vanishes, Quiet, InFlight, NoAnswer, OneAnswer, Wire
<1>7. QED
  BY <1>2, <1>3, <1>4, <1>5, <1>6, WorkerCases

(* The steps that end a session, or are only taken when it is over.        *)
LEMMA OverSteps ==
  ASSUME TypeOK, Control,
         \/ LaunchFails \/ WaitsForCleanup \/ Coordinates \/ StopCalled
         \/ StopLocks \/ ChecksWorker \/ SendsShutdown \/ TakesAck \/ AwaitsExit \/ Finalizes
         \/ FinalCloses \/ Stops
         \/ \E t \in {"caller", "stopper", "coord"} : CleanupStep(t)
  PROVE  state' \notin Serving
<1>0. at \in Points /\ state \in SessionStates
  BY DEF TypeOK
<1>1. LaunchFails \/ WaitsForCleanup \/ Coordinates \/ StopCalled => state' \notin Serving
  BY <1>0 DEF LaunchFails, WaitsForCleanup, Coordinates, StopCalled, CallerRaises, CallerFails,
              ToFailed, Control, TeardownInv, Over, Serving, SessionStates, Points, Cleaning
<1>2. StopLocks \/ ChecksWorker \/ SendsShutdown \/ TakesAck \/ AwaitsExit \/ Finalizes
        \/ FinalCloses \/ Stops => state' \notin Serving
  BY <1>0 DEF StopLocks, ChecksWorker, SendsShutdown, TakesAck, AwaitsExit, Finalizes, FinalCloses,
              Stops, Control, StartInv, Serving
<1>3. ASSUME NEW t \in {"caller", "stopper", "coord"}, CleanupStep(t)
      PROVE  state' \notin Serving
  BY <1>0, <1>3 DEF CleanupStep, Kill, Close, Clear, NothingToClean, Control, TeardownInv, StartInv,
                    Over, Serving, Cleaning, Points
<1>4. QED
  BY <1>1, <1>2, <1>3

(* Until the session is over, one thing is on its way at most, and none    *)
(* between two requests.                                                   *)
LEMMA TrafficStep ==
  ASSUME TypeOK, Control, TagInv, StrayInv, TrafficInv, [Next]_vars
  PROVE  TrafficInv'
<1>0. ChannelTypes /\ state \in SessionStates /\ alive \in BOOLEAN /\ proc \in BOOLEAN
  BY ClientAssumption DEF TypeOK, WorkerTypeOK, ChannelTypes
<1>1. CASE state' \notin Serving
  BY <1>1 DEF TrafficInv
<1>2. CASE WorkerNext /\ UNCHANGED clientVars
  BY <1>2, WorkerTraffic DEF TrafficInv, clientVars
<1>3. CASE Reads \/ Puts \/ Overflows
  BY <1>0, <1>3, ReaderTraffic DEF TrafficInv, Quiet, InFlight
<1>4. CASE Sends
  <2>1. ~closed \/ state' \notin Serving
    BY <1>0, <1>4 DEF Sends, CallerFails, CallerRaises, EndCall, ToFailed, Control, TeardownInv,
                      Over, Serving
  <2>2. CASE state' \in Serving
    <3>1. UNCHANGED <<serving, stdout, queue, held, state>> /\ at.caller = "send"
      BY <1>0, <1>4, <2>2 DEF Sends, CallerFails, CallerRaises, EndCall, ToFailed, threadVars,
                              Serving
    <3>2. \/ at'.caller = "overflow"
          \/ /\ at'.caller = "receive" /\ UNCHANGED request
             /\ stdin' = Append(stdin, request) \/ UNCHANGED stdin
      BY <1>0, <1>4, <2>1, <2>2
         DEF Sends, Written, CallerFails, CallerRaises, EndCall, ToFailed, Goes, Points,
             ChannelTypes, Serving
    <3>3. Quiet
      BY <2>2, <3>1 DEF TrafficInv
    <3>4. Append(<<>>, request) = <<request>>
      OBVIOUS
    <3>5. QED
      BY <3>1, <3>2, <3>3, <3>4 DEF TrafficInv, Quiet, InFlight, NoAnswer, Wire
  <2>3. QED
    BY <1>1, <2>2
<1>5. CASE Receives
  <2>1. /\ UNCHANGED <<stdin, serving, stdout, held>> /\ at.caller = "receive"
        /\ queue # <<>> /\ queue' = Tail(queue)
    BY <1>5 DEF Receives, workerVars, pipeVars, threadVars
  <2>2. CASE state' \in Serving
    <3>1. UNCHANGED state
      BY <1>0, <1>5, <2>2 DEF Receives, CallerFails, ToFailed, Serving
    <3>2. CASE ~Refused(Head(queue)) /\ ~(Head(queue) # EOF /\ readerErr)
      <4>1. Real(Head(queue))
        BY <1>0, <2>1, <3>2, <1>5 DEF Refused, Real, Control, CallInv, Nothing, Request,
                                      ChannelTypes
      <4>2. stdin = <<>> /\ serving = Nothing /\ OneAnswer
        <5>1. InFlight /\ ~NoAnswer
          BY <1>0, <2>1, <2>2, <3>1, <4>1, ChannelLines DEF TrafficInv, NoAnswer, Wire
        <5>2. QED
          BY <5>1 DEF InFlight
      <4>3. Silent(stdout) /\ ~Real(held) /\ Silent(Tail(queue))
        BY <1>0, <2>1, <4>1, <4>2, OneTaken DEF OneAnswer, ChannelTypes
      <4>4. Quiet'
        BY <2>1, <4>2, <4>3 DEF Quiet, NoAnswer, Wire, Silent
      <4>5. at'.caller \in {"idle", "readying"}
        BY <1>0, <1>5, <3>2 DEF Receives, EndCall, Goes, ChannelTypes, Points
      <4>6. QED
        BY <4>4, <4>5 DEF TrafficInv
    <3>3. CASE Refused(Head(queue)) /\ ~(Head(queue) # EOF /\ readerErr)
      BY <1>0, <1>5, <2>2, <3>3 DEF Receives, CallerFails, ToFailed, Serving, SessionStates
    <3>4. CASE Head(queue) # EOF /\ readerErr
      <4>1. at'.caller = "overflow"
        BY <1>0, <1>5, <3>4 DEF Receives, Goes, ChannelTypes, Points
      <4>2. QED
        BY <4>1 DEF TrafficInv
    <3>5. QED
      BY <3>2, <3>3, <3>4
  <2>3. QED
    BY <1>1, <2>2
<1>6. CASE TimesOut
  <2>1. CASE readerErr
    <3>1. at'.caller = "overflow"
      BY <1>0, <1>6, <2>1 DEF TimesOut, Goes, ChannelTypes, Points
    <3>2. QED
      BY <3>1 DEF TrafficInv
  <2>2. CASE ~readerErr
    BY <1>0, <1>1, <1>6, <2>2 DEF TimesOut, CallerFails, ToFailed, Serving, SessionStates
  <2>3. QED
    BY <2>1, <2>2
<1>7. CASE \/ LaunchesWorker \/ PingLocks \/ PingGivesUp \/ Readies \/ Starts \/ Pings
           \/ \E op \in Operations \ {"hello", "ping", "shutdown"}, g \in Nat : Calls(op, g)
           \/ UNCHANGED vars
  <2>0. SUFFICES ASSUME state' \in Serving
                 PROVE  TrafficInv'
    BY <1>1
  <2>1. UNCHANGED <<stdin, serving, stdout, queue, held>>
    BY <1>0, <1>7, <2>0
       DEF LaunchesWorker, PingLocks, PingGivesUp, Readies, Starts, Pings, Calls, vars, clientVars,
           workerVars, pipeVars, threadVars
  <2>2. CASE LaunchesWorker \/ Starts
    <3>1. Pristine /\ at'.caller \in {"send", "popen"}
      BY <1>0, <2>2 DEF LaunchesWorker, Starts, Control, StartInv, Goes, ChannelTypes, Points
    <3>2. Quiet
      BY <3>1, NoLines DEF Pristine, Quiet, NoAnswer, Wire, Real, None, Answer
    <3>3. QED
      BY <2>1, <3>1, <3>2 DEF TrafficInv, Quiet, NoAnswer, Wire
  <2>3. CASE \/ PingLocks \/ PingGivesUp \/ Readies \/ Pings
             \/ \E op \in Operations \ {"hello", "ping", "shutdown"}, g \in Nat : Calls(op, g)
    <3>1. /\ at.caller \in {"idle", "lock", "readying"} /\ at'.caller \in {"idle", "lock", "send"}
      BY <1>0, <1>7, <2>0, <2>3
         DEF PingLocks, PingGivesUp, Readies, Pings, Calls, EndCall, CallerFails, ToFailed, Serving,
             Goes, ChannelTypes, Points
    <3>2. state \in Serving
      BY <1>0, <1>7, <2>0, <2>3
         DEF PingLocks, PingGivesUp, Readies, Pings, Calls, Control, StartInv, TeardownInv, Serving,
             CallerFails, ToFailed, Cleaning
    <3>3. QED
      BY <2>1, <3>1, <3>2 DEF TrafficInv, Quiet, NoAnswer, Wire
  <2>4. CASE UNCHANGED vars
    BY <2>1, <2>4 DEF vars, clientVars, TrafficInv, Quiet, InFlight, NoAnswer, OneAnswer, Wire
  <2>5. QED
    BY <1>7, <2>2, <2>3, <2>4
<1>8. QED
  BY <1>1, <1>2, <1>3, <1>4, <1>5, <1>6, <1>7, OverSteps, NextCases

(***************************************************************************)
(* What the client believes.                                               *)
(***************************************************************************)

(* The parts of the type invariant that beliefs need.                      *)
BeliefTypes ==
  /\ ChannelTypes
  /\ target \in TargetStates /\ generation \in Nat /\ line \in TargetLines \cup {"none"}
  /\ consumed \in BOOLEAN /\ state \in SessionStates

(* A target that ends makes nothing false that was believed or sent: only  *)
(* one that is being terminated was not at rest.                           *)
LEMMA BeliefKept ==
  ASSUME BeliefTypes, UNCHANGED <<local, request, consumed, state>>,
         \/ UNCHANGED target
         \/ target \in {"starting", "running", "terminating"} /\ target' \in Ended
  PROVE  /\ \A l : Believed(l) => Believed(l)'
         /\ Sent => Sent'
         /\ \A a : Truthful(a) => Truthful(a)'
<1>1. \A l : Believed(l) => Believed(l)'
  BY DEF Believed, Ended
<1>2. Sent => Sent'
  BY <1>1 DEF Sent
<1>3. ASSUME NEW a, Truthful(a)
      PROVE  Truthful(a)'
  <2>1. Refused(a) => Refused(a)'
    BY DEF Refused, Malformed
  <2>2. Learned(a)' = Learned(a)
    BY DEF Learned
  <2>3. QED
    BY <1>1, <1>3, <2>1, <2>2 DEF Truthful
<1>4. QED
  BY <1>1, <1>2, <1>3

(* An answer that the client may believe is all it has to expect.          *)
LEMMA ReplyKept ==
  ASSUME BeliefTypes, InFlight, NEW a \in LineType, NEW then \in {"take", "leave"},
         serving # Nothing,
         Replies(a, then), UNCHANGED clientVars, Truthful(a)'
  PROVE  stdin' = <<>> /\ stage' # "handle" /\ \A b \in Wire' : Truthful(b)'
<1>1. /\ stdin = <<>> /\ NoAnswer /\ stdin' = stdin /\ stdout' = Append(stdout, a)
      /\ UNCHANGED <<queue, held>> /\ stage' = then
  BY DEF InFlight, Replies, clientVars
<1>2. Wire' = Wire \cup {a}
  BY <1>1, ChannelLines DEF BeliefTypes, Wire
<1>3. QED
  BY <1>1, <1>2 DEF NoAnswer, Truthful

(* What the worker does while the caller waits: it begins with what was    *)
(* sent being true, and says what is true when it answers.                 *)
LEMMA WorkerExpecting ==
  ASSUME BeliefTypes, TagInv, CallInv, InFlight, Expecting, WorkerNext, UNCHANGED clientVars,
         request.op \in {"run", "start"} => consumed, ~consumed => Untouched,
         request # Nothing
  PROVE  Expecting' /\ (~consumed => Untouched')
<1>0. /\ UNCHANGED <<local, request, consumed, state, queue, held>>
      /\ stage \in {"handle", "await"} =>
           serving = request /\ stdin = <<>> /\ serving # Nothing /\ NoAnswer
      /\ request.op # "shutdown"
  BY DEF clientVars, InFlight, BeliefTypes, ChannelTypes, TagInv, CallInv
<1>1. ASSUME NEW a \in LineType, NEW then \in {"take", "leave"}, Replies(a, then),
             stage \in {"handle", "await"}, Truthful(a)',
             request.op \in Inspections \cup {"hello", "ping", "status"} => Believed(local)',
             ~consumed => Untouched'
      PROVE  Expecting' /\ (~consumed => Untouched')
  BY <1>0, <1>1, ReplyKept DEF Expecting
<1>2. /\ Error \in LineType /\ ~Error.ok /\ Done \in LineType /\ Done.ok
      /\ \A s \in Ended \cup {"idle", "paused"} : Ok(s) \in LineType /\ Ok(s).ok /\ Ok(s).state = s
  BY DEF BeliefTypes, ChannelTypes, Error, Done, Ok, Answer, LineType, RequestType, TargetStates,
         Ended
<1>3. stage = "handle" => Sent
  BY DEF Expecting
<1> USE <1>0, <1>2, <1>3 DEF Handling, Awaiting
<1>4. CASE Greets
  <2>1. PICK a \in LineType : a = Done /\ Replies(a, "take")
    BY <1>4 DEF Greets
  <2>2. /\ stage = "handle" /\ request.op \in {"hello", "ping"} /\ UNCHANGED target
        /\ Believed(local)
    BY <1>4 DEF Greets, targetVars, Sent
  <2>3. Truthful(a)' /\ Believed(local)'
    BY <2>2 DEF Truthful, Learned, Resumes, Believed
  <2>4. QED
    BY <1>1, <2>1, <2>2, <2>3 DEF Untouched
<1>5. CASE Refuses
  <2>1. PICK a \in LineType : a = Error /\ Replies(a, "take")
    BY <1>5 DEF Refuses
  <2>2. /\ stage = "handle" /\ request.op \in {"run", "start"} /\ UNCHANGED target
        /\ target = "idle"
    BY <1>5 DEF Refuses, targetVars, Sent
  <2>3. Truthful(a)'
    BY <2>1, <2>2 DEF Truthful, Learned, Believed
  <2>4. QED
    BY <1>1, <2>1, <2>2, <2>3 DEF Untouched, Inspections
<1>6. CASE RunEnds
  <2>1. PICK a \in LineType, s \in Ended :
          /\ target' = s /\ Replies(a, "take")
          /\ a = Ok(s) \/ (s = "failed" /\ a = Error)
    BY <1>6 DEF RunEnds
  <2>2. stage = "await" /\ request.op = "run"
    BY <1>6 DEF RunEnds
  <2>3. Truthful(a)'
    BY <2>1, <2>2 DEF Truthful, Learned, Believed
  <2>4. QED
    BY <1>1, <2>1, <2>2, <2>3 DEF Inspections
<1>7. CASE Launches \/ Resume \/ BeginsTermination \/ Pauses
  <2>1. /\ UNCHANGED <<stdin, stdout>> /\ stage \in {"handle", "await"} /\ stage' = "await"
        /\ request.op \in {"run", "start", "terminate"} \cup Resumes
        /\ request.op \in {"run", "start"} \/ target # "idle"
    BY <1>7 DEF Launches, Resume, BeginsTermination, Pauses, Waits, Sent, Resumes, pipeVars
  <2>2. \A a \in Wire' : Truthful(a)'
    BY <2>1 DEF NoAnswer, Wire, Truthful
  <2>3. QED
    BY <2>1, <2>2 DEF Expecting, Untouched, Inspections, Resumes
<1>8. CASE AnswersRest
  <2>1. PICK a \in LineType :
          /\ Replies(a, "take") /\ target \in {"paused", "exited", "failed"}
          /\ a = IF target = "failed" THEN Error ELSE Ok(target)
    BY <1>8 DEF AnswersRest, Ended
  <2>2. /\ stage = "await" /\ request.op \in Resumes \cup {"start"} /\ UNCHANGED target
    BY <1>8 DEF AnswersRest, targetVars
  <2>3. Truthful(a)'
    BY <2>1, <2>2 DEF Truthful, Learned, Believed, Resumes, Ended
  <2>4. QED
    BY <1>1, <2>1, <2>2, <2>3 DEF Inspections, Resumes, Untouched
<1>9. CASE AnswersStatus
  <2>1. PICK a \in LineType :
          /\ Replies(a, "take")
          /\ a = IF target \in Ended \cup {"idle", "paused"} THEN Ok(target) ELSE Error
    BY <1>9 DEF AnswersStatus
  <2>2. /\ stage = "handle" /\ request.op = "status" /\ UNCHANGED target /\ Believed(local)
    BY <1>9 DEF AnswersStatus, targetVars, Sent
  <2>3. Truthful(a)' /\ Believed(local)'
    BY <2>1, <2>2 DEF Truthful, Learned, Believed
  <2>4. QED
    BY <1>1, <2>1, <2>2, <2>3 DEF Untouched
<1>10. CASE Inspects
  <2>1. PICK a \in LineType : Replies(a, "take")
    BY <1>10 DEF Inspects
  <2>2. /\ stage = "handle" /\ request.op \in Inspections /\ UNCHANGED target /\ Believed(local)
    BY <1>10 DEF Inspects, targetVars, Sent, Believed
  <2>3. Truthful(a)' /\ Believed(local)'
    BY <2>2 DEF Truthful, Learned, Believed, Inspections, Resumes
  <2>4. QED
    BY <1>1, <2>1, <2>2, <2>3 DEF Untouched
<1>11. CASE NothingToTerminate
  BY <1>11 DEF NothingToTerminate, Sent
<1>12. CASE EndsTermination
  <2>1. PICK a \in LineType :
          /\ Replies(a, "take") /\ target \in Ended
          /\ a = IF target # "terminated" THEN Error ELSE Ok(target)
    BY <1>12 DEF EndsTermination, Ended
  <2>2. /\ stage = "await" /\ request.op = "terminate" /\ UNCHANGED target
    BY <1>12 DEF EndsTermination, targetVars
  <2>3. Truthful(a)'
    BY <2>1, <2>2 DEF Truthful, Learned, Believed, Ended
  <2>4. QED
    BY <1>1, <2>1, <2>2, <2>3 DEF Inspections, Untouched
<1>13. CASE GivesUpTermination
  <2>1. PICK a \in LineType : Replies(a, "leave") /\ a = Error
    BY <1>13 DEF GivesUpTermination
  <2>2. /\ stage = "await" /\ request.op = "terminate" /\ UNCHANGED target /\ target = "terminating"
    BY <1>13 DEF GivesUpTermination, targetVars
  <2>3. Truthful(a)'
    BY <2>1, <2>2 DEF Truthful, Learned, Believed
  <2>4. QED
    BY <1>1, <2>1, <2>2, <2>3 DEF Inspections, Untouched
<1>14. CASE TargetEnds
  <2>1. /\ UNCHANGED <<serving, stage, pipeVars>>
        /\ target \in {"starting", "running", "terminating"} /\ target' \in Ended
    BY <1>14 DEF TargetEnds, Ended
  <2>2. QED
    BY <2>1, BeliefKept DEF Expecting, Untouched, Wire, pipeVars
<1>15. CASE TargetSpawns \/ ChildEnds \/ Leaves \/ Crashes
  <2>1. /\ stdin' \in {stdin, <<>>} /\ stage' \in {stage, "take"} /\ UNCHANGED <<stdout, target>>
    BY <1>15 DEF TargetSpawns, ChildEnds, Leaves, Crashes, Vanishes, targetVars, pipeVars
  <2>2. QED
    BY <2>1, BeliefKept DEF Expecting, Untouched, Wire
<1>16. CASE WritesJunk
  <2>1. /\ UNCHANGED <<stdin, stage, target>> /\ stdout' = Append(stdout, Junk)
    BY <1>16 DEF WritesJunk, targetVars
  <2>2. Junk \in LineType /\ ~Real(Junk)
    BY DEF Junk, Answer, LineType, Real
  <2>3. Wire' = Wire \cup {Junk}
    BY <2>1, <2>2, ChannelLines DEF BeliefTypes, Wire
  <2>4. QED
    BY <2>1, <2>2, <2>3, BeliefKept DEF Expecting, Untouched, Truthful
<1>17. CASE Takes
  <2>1. /\ stdin # <<>> /\ stdin' = Tail(stdin) /\ stage' = "handle" /\ UNCHANGED <<stdout, target>>
    BY <1>17 DEF Takes, targetVars
  <2>2. Sent
    BY <2>1 DEF Expecting
  <2>3. QED
    BY <2>1, <2>2, BeliefKept DEF Expecting, Untouched, Wire
<1>18. QED
  BY <1>4, <1>5, <1>6, <1>7, <1>8, <1>9, <1>10, <1>11, <1>12, <1>13, <1>14, <1>15, <1>16, <1>17
     DEF WorkerNext

(* A worker that has nothing to do only lets its target end.               *)
LEMMA WorkerIdle ==
  ASSUME TagInv, serving = Nothing, WorkerNext, serving \in RequestType
  PROVE  \/ UNCHANGED target
         \/ target \in {"starting", "running", "terminating"} /\ target' \in Ended
<1>1. stage \in {"take", "leave"}
  BY DEF TagInv
<1>2. CASE TargetEnds
  BY <1>2 DEF TargetEnds, Ended
<1>3. CASE Takes \/ TargetSpawns \/ WritesJunk \/ ChildEnds \/ Leaves \/ Crashes
  BY <1>3 DEF Takes, TargetSpawns, WritesJunk, ChildEnds, Leaves, Crashes, targetVars
<1>4. QED
  BY <1>1, <1>2, <1>3
     DEF WorkerNext, Greets, Refuses, Launches, RunEnds, Resume, AnswersRest, AnswersStatus,
         Inspects,
         BeginsTermination, NothingToTerminate, EndsTermination, GivesUpTermination, Pauses,
         Handling, Awaiting

(* The client's beliefs stay true, whoever takes a step.                   *)
LEMMA BeliefStep ==
  ASSUME TypeOK, Control, TagInv, StrayInv, TrafficInv, BeliefInv, [Next]_vars
  PROVE  BeliefInv'
<1>0. BeliefTypes
  BY ClientAssumption, WorkerBoundsAssumption
     DEF TypeOK, WorkerTypeOK, ChannelTypes, BeliefTypes
<1>1. CASE state' \notin Serving
  BY <1>1 DEF BeliefInv
<1>2. CASE WorkerNext /\ UNCHANGED clientVars
  <2>1. UNCHANGED <<state, at, request, consumed, local>>
    BY <1>2 DEF clientVars
  <2>2. CASE at.caller = "receive" /\ state \in Serving
    <3>1. request # Nothing /\ CallInv
      BY <2>2 DEF Control, CallInv
    <3>2. Expecting' /\ (~consumed => Untouched')
      BY <1>0, <1>2, <2>2, <3>1, WorkerExpecting DEF BeliefInv, TrafficInv
    <3>3. QED
      BY <2>1, <2>2, <3>2 DEF BeliefInv
  <2>3. CASE at.caller \notin {"receive", "overflow"} /\ state \in Serving
    <3>1. at.caller \in {"idle", "popen", "lock", "send", "readying"}
      BY <1>0, <2>3 DEF BeliefTypes, ChannelTypes, Points, Control, TeardownInv, Over, Serving
    <3>2. serving = Nothing
      BY <2>3, <3>1 DEF TrafficInv, Quiet
    <3>3. \/ UNCHANGED target
          \/ target \in {"starting", "running", "terminating"} /\ target' \in Ended
      BY <1>0, <1>2, <3>2, WorkerIdle DEF BeliefTypes, ChannelTypes
    <3>4. /\ Believed(local) => Believed(local)'
          /\ Sent => Sent'
      BY <1>0, <2>1, <3>3, BeliefKept DEF Believed
    <3>5. QED
      BY <2>1, <2>3, <3>3, <3>4 DEF BeliefInv, Untouched
  <2>4. CASE at.caller = "overflow"
    BY <2>1, <2>4 DEF BeliefInv
  <2>5. QED
    BY <1>1, <2>1, <2>2, <2>3, <2>4
<1>3. CASE Reads \/ Puts \/ Overflows
  <2>1. /\ UNCHANGED <<state, request, consumed, local, target, stdin, stage>>
        /\ at'.caller = at.caller
    BY <1>0, <1>3 DEF Reads, Puts, Overflows, Goes, workerVars, targetVars, pipeVars, BeliefTypes,
                      ChannelTypes, Points
  <2>2. Wire' \subseteq Wire \cup {None, EOF}
    BY <1>0, <1>3, ChannelLines, ZenonT(40)
       DEF Reads, Puts, Overflows, Wire, workerVars, pipeVars, BeliefTypes,
                      ChannelTypes
  <2>3. ~Real(None) /\ ~Real(EOF)
    BY DEF None, EOF, Real, Answer
  <2>4. /\ Believed(local) => Believed(local)'
        /\ Sent => Sent'
        /\ \A a : Truthful(a) => Truthful(a)'
    BY <1>0, <2>1, BeliefKept DEF Believed
  <2>5. Expecting => Expecting'
    BY <2>1, <2>2, <2>3, <2>4 DEF Expecting, Truthful
  <2>6. QED
    BY <2>1, <2>4, <2>5 DEF BeliefInv, Untouched
<1>4. CASE Sends
  <2>1. ~closed \/ state' \notin Serving
    BY <1>0, <1>4 DEF Sends, CallerFails, CallerRaises, EndCall, ToFailed, Control, TeardownInv,
                      Over, Serving
  <2>2. CASE state' \in Serving
    <3>1. /\ UNCHANGED <<serving, stage, stdout, queue, held, state, target, consumed, request,
                        local>>
          /\ at.caller = "send" /\ at'.caller \in {"overflow", "receive"}
      BY <1>0, <1>4, <2>1, <2>2
         DEF Sends, CallerFails, CallerRaises, EndCall, ToFailed, threadVars, Serving, Goes,
             BeliefTypes, ChannelTypes, Points, targetVars
    <3>2. Sent /\ Quiet
      BY <2>2, <3>1 DEF BeliefInv, TrafficInv
    <3>3. Expecting'
      BY <3>1, <3>2 DEF Sent, Expecting, Quiet, NoAnswer, Wire, Truthful, Believed, Inspections
    <3>4. QED
      BY <2>2, <3>1, <3>3 DEF BeliefInv, Untouched
  <2>3. QED
    BY <1>1, <2>2
<1>5. CASE Receives
  <2>1. /\ UNCHANGED <<target, consumed>> /\ at.caller = "receive" /\ queue # <<>>
        /\ Head(queue) \in Wire
    BY <1>0, <1>5, ChannelLines DEF Receives, workerVars, targetVars, Wire, BeliefTypes
  <2>2. CASE state' \in Serving
    <3>1. UNCHANGED state
      BY <1>0, <1>5, <2>2 DEF Receives, CallerFails, ToFailed, Serving
    <3>2. CASE ~Refused(Head(queue)) /\ ~(Head(queue) # EOF /\ readerErr)
      <4>1. Real(Head(queue))
        BY <1>0, <2>1, <3>2, <1>5
           DEF Refused, Real, Control, CallInv, Nothing, Request, BeliefTypes, ChannelTypes
      <4>2. Expecting /\ (~consumed => Untouched) /\ (request.op \in {"run", "start"} => consumed)
        BY <2>1, <2>2, <3>1 DEF BeliefInv
      <4>3. Believed(Learned(Head(queue)))
        BY <2>1, <3>2, <4>1, <4>2 DEF Expecting, Truthful
      <4>4. CASE request.op = "hello"
        <5>1. UNCHANGED <<local, request>> /\ at'.caller = "readying"
          BY <1>0, <1>5, <3>2, <4>4 DEF Receives, Goes, BeliefTypes, ChannelTypes, Points
        <5>2. QED
          BY <2>1, <3>1, <4>2, <4>4, <5>1 DEF BeliefInv, Expecting, Believed, Untouched
      <4>5. CASE request.op # "hello"
        <5>1. local' = Learned(Head(queue)) /\ request' = Nothing /\ at'.caller = "idle"
          BY <1>0, <1>5, <3>2, <4>5 DEF Receives, EndCall, Goes, BeliefTypes, ChannelTypes, Points
        <5>2. Believed(local)'
          BY <2>1, <4>3, <5>1 DEF Believed
        <5>3. ~consumed => Untouched'
          BY <2>1, <4>2, <4>3, <5>1 DEF Untouched, Believed, Ended
        <5>4. QED
          BY <2>1, <5>1, <5>2, <5>3 DEF BeliefInv, Nothing, Request
      <4>6. QED
        BY <4>4, <4>5
    <3>3. CASE Refused(Head(queue)) /\ ~(Head(queue) # EOF /\ readerErr)
      BY <1>0, <1>5, <2>2, <3>3 DEF Receives, CallerFails, ToFailed, Serving, SessionStates,
                                    BeliefTypes
    <3>4. CASE Head(queue) # EOF /\ readerErr
      <4>1. at'.caller = "overflow" /\ UNCHANGED request
        BY <1>0, <1>5, <3>4 DEF Receives, Goes, BeliefTypes, ChannelTypes, Points
      <4>2. QED
        BY <2>1, <2>2, <3>1, <4>1 DEF BeliefInv
    <3>5. QED
      BY <3>2, <3>3, <3>4
  <2>3. QED
    BY <1>1, <2>2
<1>6. CASE TimesOut
  <2>1. CASE readerErr
    <3>1. at'.caller = "overflow" /\ at.caller = "receive" /\ UNCHANGED <<request, state, consumed>>
      BY <1>0, <1>6, <2>1 DEF TimesOut, Goes, BeliefTypes, ChannelTypes, Points
    <3>2. QED
      BY <3>1 DEF BeliefInv
  <2>2. CASE ~readerErr
    BY <1>0, <1>1, <1>6, <2>2 DEF TimesOut, CallerFails, ToFailed, Serving, SessionStates,
                                  BeliefTypes
  <2>3. QED
    BY <2>1, <2>2
<1>7. CASE LaunchesWorker \/ Starts
  <2>1. /\ Pristine /\ UNCHANGED <<target, consumed, local>>
        /\ \/ at'.caller = "popen" /\ UNCHANGED request
           \/ at'.caller = "send" /\ request'.op = "hello"
    <3>1. CASE LaunchesWorker
      BY <1>0, <3>1 DEF LaunchesWorker, Control, StartInv, BeliefTypes, ChannelTypes, Points,
                        Request, targetVars
    <3>2. CASE Starts
      BY <1>0, <3>2 DEF Starts, Control, StartInv, Goes, BeliefTypes, ChannelTypes, Points,
                        workerVars, targetVars
    <3>3. QED
      BY <1>7, <3>1, <3>2
  <2>2. \/ request.op = "none" /\ at'.caller = "popen"
        \/ at'.caller = "send"
    BY <1>0, <1>7, <2>1 DEF Control, CallInv, Pristine, Nothing, Request, Starts, Goes, BeliefTypes,
                      ChannelTypes, Points, LaunchesWorker
  <2>3. QED
    BY <2>1, <2>2 DEF Pristine, BeliefInv, Untouched, Sent, Believed, Resumes, Inspections
<1>8. CASE PingLocks \/ PingGivesUp \/ Pings
  <2>1. /\ UNCHANGED <<target, consumed, local, state>> /\ at.caller \in {"idle", "lock"}
        /\ \/ at'.caller \in {"idle", "lock"} /\ request' \in {request, Nothing}
           \/ at'.caller = "send" /\ request'.op = "ping"
    BY <1>0, <1>8 DEF PingLocks, PingGivesUp, Pings, EndCall, Goes, BeliefTypes, ChannelTypes,
                      Points, Request, workerVars, targetVars
  <2>2. QED
    BY <2>1 DEF BeliefInv, Untouched, Sent, Believed, Resumes, Inspections, Nothing, Request
<1>9. CASE Readies
  <2>1. CASE state' \in Serving
    <3>1. /\ UNCHANGED <<target, consumed, local>> /\ at.caller = "readying" /\ at'.caller = "idle"
          /\ request' = Nothing /\ ~readerErr /\ state' = "ready"
      BY <1>0, <1>9, <2>1 DEF Readies, EndCall, CallerFails, ToFailed, Serving, Goes, SessionStates,
                      BeliefTypes, ChannelTypes, Points, workerVars, targetVars
    <3>2. state \in Serving
      BY <3>1 DEF Control, StartInv, TeardownInv, Serving, Cleaning
    <3>3. QED
      BY <3>1, <3>2 DEF BeliefInv, Untouched, Believed, Nothing, Request
  <2>2. QED
    BY <1>1, <2>1
<1>10. ASSUME NEW op \in Operations \ {"hello", "ping", "shutdown"}, NEW g \in Nat, Calls(op, g)
       PROVE  BeliefInv'
  <2>1. /\ UNCHANGED <<target, state>> /\ state = "ready" /\ at.caller = "idle"
        /\ at'.caller = "send"
        /\ request' = Request(nextId, op, g) /\ Allowed(op)
        /\ consumed' = (consumed \/ op \in {"run", "start"})
        /\ local' = IF op = "start" THEN "starting"
                    ELSE IF op \in Resumes THEN "resuming" ELSE local
    BY <1>0, <1>10 DEF Calls, Allowed, Goes, BeliefTypes, ChannelTypes, Points, workerVars,
                       targetVars
  <2>2. Believed(local) /\ (~consumed => Untouched)
    BY <2>1 DEF BeliefInv, Serving
  <2>3. op \in {"run", "start"} => ~consumed /\ Untouched
    BY <2>1, <2>2 DEF Allowed
  <2>4. op \in Resumes \cup Inspections \cup {"terminate"} => target = "paused" /\ local = "paused"
    BY <2>1, <2>2 DEF Allowed, Believed
  <2>5. Sent'
    BY <2>1, <2>2, <2>3, <2>4
       DEF Sent, Untouched, Request, Believed, Operations, Resumes, Inspections
  <2>6. QED
    BY <1>0, <2>1, <2>2, <2>4, <2>5 DEF BeliefInv, Untouched, Request, BeliefTypes
<1>11. CASE UNCHANGED vars
  BY <1>11 DEF vars, clientVars, workerVars, targetVars, pipeVars, BeliefInv, Untouched, Expecting,
               Sent, Believed, Truthful, Refused, Malformed, Learned, Wire
<1>12. QED
  BY <1>1, <1>2, <1>3, <1>4, <1>5, <1>6, <1>7, <1>8, <1>9, <1>10, <1>11, OverSteps, NextCases

(***************************************************************************)
(* Types.                                                                  *)
(***************************************************************************)

(* A step of the worker leaves its variables in their types.               *)
LEMMA WorkerTypeStep ==
  ASSUME TypeOK, TagInv, WorkerNext
  PROVE  WorkerTypeOK'
<1>0. /\ ChannelTypes
      /\ MaxPauses \in Nat /\ MaxJunk \in Nat
  BY ClientAssumption, WorkerBoundsAssumption DEF TypeOK, WorkerTypeOK, ChannelTypes
<1> DEFINE Channels == /\ serving \in RequestType /\ stage \in {"take", "handle", "await", "leave"}
                      /\ stdin \in Seq(RequestType) /\ stdout \in Seq(LineType)
<1>1. Channels'
  <2>1. Nothing \in RequestType /\ Junk \in LineType /\ <<>> \in Seq(RequestType)
    BY DEF Nothing, Request, RequestType, Junk, Answer, LineType
  <2>2. CASE Takes
    BY <1>0, <2>2, ChannelLines DEF Takes, ChannelTypes
  <2>3. ASSUME NEW a \in LineType, NEW then \in {"take", "leave"}, Answers(a), Replies(a, then)
        PROVE  Channels'
    BY <1>0, <2>1, <2>3, ChannelLines DEF Replies, ChannelTypes
  <2>4. CASE /\ UNCHANGED <<serving, stdin, stdout>>
             /\ stage' = stage \/ (serving # Nothing /\ stage' = "await")
    BY <1>0, <2>4 DEF ChannelTypes
  <2>5. CASE UNCHANGED <<serving, stage, stdin>> /\ stdout' = Append(stdout, Junk)
    BY <1>0, <2>1, <2>5, ChannelLines DEF ChannelTypes
  <2>6. CASE Vanishes /\ UNCHANGED stdout
    BY <1>0, <2>1, <2>6 DEF Vanishes, ChannelTypes
  <2>7. QED
    BY <2>2, <2>3, <2>4, <2>5, <2>6, WorkerCases
<1>2. /\ alive' \in BOOLEAN /\ child' \in BOOLEAN /\ junk' \in 0..MaxJunk
      /\ target' \in TargetStates /\ mode' \in {"none", "step"} /\ generation' \in 0..MaxPauses
      /\ line' \in TargetLines \cup {"none"} /\ started' \in BOOLEAN
  <2>0. /\ alive \in BOOLEAN /\ child \in BOOLEAN /\ junk \in 0..MaxJunk
        /\ target \in TargetStates /\ mode \in {"none", "step"} /\ generation \in 0..MaxPauses
        /\ line \in TargetLines \cup {"none"} /\ started \in BOOLEAN
    BY DEF TypeOK, WorkerTypeOK
  <2> USE <1>0, <2>0 DEF targetVars, pipeVars, Replies, Waits, Vanishes, TargetStates, TargetLines,
                         Ended
  <2>1. CASE Takes \/ Greets \/ Refuses \/ Launches \/ RunEnds \/ Resume \/ AnswersRest
    BY <2>1 DEF Takes, Greets, Refuses, Launches, RunEnds, Resume, AnswersRest
  <2>2. CASE \/ AnswersStatus \/ Inspects \/ BeginsTermination \/ NothingToTerminate
             \/ EndsTermination \/ GivesUpTermination
    BY <2>2 DEF AnswersStatus, Inspects, BeginsTermination, NothingToTerminate, EndsTermination,
                GivesUpTermination
  <2>3. CASE Pauses
    BY <2>3 DEF Pauses
  <2>4. CASE TargetEnds
    BY <2>4 DEF TargetEnds
  <2>5. CASE TargetSpawns \/ ChildEnds
    BY <2>5 DEF TargetSpawns, ChildEnds
  <2>6. CASE WritesJunk
    BY <2>6 DEF WritesJunk
  <2>7. CASE Leaves \/ Crashes
    BY <2>7 DEF Leaves, Crashes
  <2>8. QED
    BY <2>1, <2>2, <2>3, <2>4, <2>5, <2>6, <2>7 DEF WorkerNext
<1>3. QED
  BY <1>1, <1>2 DEF WorkerTypeOK

(* What a step of the client does to the worker's end: it may launch it,    *)
(* take it down, write one request or take one line.                       *)
ClientMoves ==
  /\ UNCHANGED <<target, mode, generation, line, started, junk>>
  /\ \/ UNCHANGED <<alive, child, stage, serving, stdin, stdout>>
     \/ alive' = TRUE /\ UNCHANGED <<child, stage, serving, stdin, stdout>>
     \/ Vanishes /\ child' \in {child, FALSE} /\ UNCHANGED stdout
     \/ /\ UNCHANGED <<alive, child, stage, serving, stdout>>
        /\ \/ stdin' = Append(stdin, request)
           \/ stdin' = Append(stdin, Request(nextId, "shutdown", 0))
     \/ /\ UNCHANGED <<alive, child, stage, serving, stdin>>
        /\ stdout # <<>> /\ stdout' = Tail(stdout)

(* Every step of the client is of that kind.                                *)
LEMMA ClientFrame ==
  ASSUME [Next]_vars, ~(WorkerNext /\ UNCHANGED clientVars)
  PROVE  ClientMoves
<1> USE DEF ClientMoves, workerVars, targetVars, pipeVars
<1>1. CASE \/ LaunchFails \/ PingLocks \/ PingGivesUp \/ Receives
           \/ TimesOut \/ WaitsForCleanup \/ Readies
  BY <1>1 DEF LaunchFails, PingLocks, PingGivesUp, Receives, TimesOut, WaitsForCleanup, Readies
<1>2. CASE LaunchesWorker
  BY <1>2 DEF LaunchesWorker
<1>3. CASE Sends
  BY <1>3 DEF Sends, Written
<1>4. ASSUME NEW t \in {"caller", "stopper", "coord"}, CleanupStep(t)
      PROVE  ClientMoves
  BY <1>4 DEF CleanupStep, Kill, Close, Clear, NothingToClean
<1>5. CASE StopLocks \/ ChecksWorker \/ TakesAck \/ AwaitsExit \/ Finalizes \/ FinalCloses \/ Stops
  BY <1>5 DEF StopLocks, ChecksWorker, TakesAck, AwaitsExit, Finalizes, FinalCloses, Stops
<1>6. CASE SendsShutdown
  BY <1>6 DEF SendsShutdown, Written
<1>7. CASE Reads \/ Puts \/ Overflows \/ Coordinates
  BY <1>7 DEF Reads, Puts, Overflows, Coordinates
<1>8. CASE Starts \/ Pings \/ StopCalled
  BY <1>8 DEF Starts, Pings, StopCalled
<1>9. ASSUME NEW op \in Operations \ {"hello", "ping", "shutdown"}, NEW g \in Nat, Calls(op, g)
      PROVE  ClientMoves
  BY <1>9 DEF Calls
<1>10. CASE UNCHANGED vars
  BY <1>10 DEF vars
<1>11. QED
  BY <1>1, <1>2, <1>3, <1>4, <1>5, <1>6, <1>7, <1>8, <1>9, <1>10, NextCases

(* The client's part of the type invariant.                                *)
ClientTypes ==
  /\ state \in SessionStates /\ proc \in BOOLEAN /\ lock \in {"free", "caller", "stopper"}
  /\ nextId \in 1..(MaxRequests + 1) /\ consumed \in BOOLEAN /\ local \in LocalStates
  /\ request \in RequestType
  /\ queue \in Seq(LineType) /\ Len(queue) <= QueueCapacity /\ held \in LineType
  /\ readerErr \in BOOLEAN /\ stopEvent \in BOOLEAN
  /\ closed \in BOOLEAN /\ laddered \in BOOLEAN

(* Every thread is at one of its points.                                   *)
LEMMA PointStep ==
  ASSUME at \in Points, [Next]_vars
  PROVE  at' \in Points
<1> USE DEF Goes, EndCall, CallerFails, CallerRaises, Points, Cleaning
<1>1. CASE \/ LaunchFails \/ LaunchesWorker \/ PingLocks \/ PingGivesUp
           \/ TimesOut \/ WaitsForCleanup \/ Readies
  BY <1>1, ZenonT(40)
     DEF LaunchFails, LaunchesWorker, PingLocks, PingGivesUp, TimesOut, WaitsForCleanup,
              Readies
<1>2. CASE Sends
  BY <1>2 DEF Sends
<1>3. CASE Receives
  BY <1>3 DEF Receives
<1>4. ASSUME NEW t \in {"caller", "stopper", "coord"}, CleanupStep(t)
      PROVE  at' \in Points
  <2>1. CASE t = "caller"
    BY <1>4, <2>1, ZenonT(40) DEF CleanupStep, Kill, Close, Clear, NothingToClean, AfterCleanup
  <2>2. CASE t = "stopper"
    BY <1>4, <2>2, ZenonT(40) DEF CleanupStep, Kill, Close, Clear, NothingToClean, AfterCleanup
  <2>3. CASE t = "coord"
    BY <1>4, <2>3, ZenonT(40) DEF CleanupStep, Kill, Close, Clear, NothingToClean, AfterCleanup
  <2>4. QED
    BY <2>1, <2>2, <2>3
<1>5. CASE StopLocks \/ ChecksWorker \/ AwaitsExit \/ Finalizes \/ FinalCloses \/ Stops
  BY <1>5 DEF StopLocks, ChecksWorker, AwaitsExit, Finalizes, FinalCloses, Stops
<1>6. CASE SendsShutdown \/ TakesAck
  BY <1>6 DEF SendsShutdown, TakesAck
<1>7. CASE Reads \/ Puts
  BY <1>7 DEF Reads, Puts, AfterPut
<1>8. CASE Overflows
  BY <1>8 DEF Overflows
<1>9. CASE Coordinates \/ Starts \/ Pings \/ StopCalled
  BY <1>9 DEF Coordinates, Starts, Pings, StopCalled
<1>10. ASSUME NEW op \in Operations \ {"hello", "ping", "shutdown"}, NEW g \in Nat, Calls(op, g)
       PROVE  at' \in Points
  BY <1>10 DEF Calls
<1>11. CASE (WorkerNext /\ UNCHANGED clientVars) \/ UNCHANGED vars
  BY <1>11 DEF vars, clientVars
<1>12. QED
  BY <1>1, <1>2, <1>3, <1>4, <1>5, <1>6, <1>7, <1>8, <1>9, <1>10, <1>11, NextCases

(* A step of the client leaves the client's variables in their types: ids   *)
(* run up to the shutdown's, answers to belief are states, and the queue    *)
(* never grows over its capacity.                                          *)
LEMMA ClientTypeStep ==
  ASSUME TypeOK, Control, TagInv, [Next]_vars, ~(WorkerNext /\ UNCHANGED clientVars)
  PROVE  ClientTypes'
<1>0. /\ ClientTypes /\ MaxRequests \in Nat /\ MaxRequests > 1 /\ QueueCapacity \in Nat
      /\ ChannelTypes /\ Nothing \in RequestType /\ None \in LineType /\ EOF \in LineType
      /\ \A i \in Nat, op \in Operations, g \in Nat : Request(i, op, g) \in RequestType
  BY ClientAssumption
     DEF TypeOK, WorkerTypeOK, ClientTypes, ChannelTypes, Request, RequestType, Nothing, None, EOF,
         Answer, LineType
<1>1. /\ queue # <<>> => /\ Tail(queue) \in Seq(LineType) /\ Len(Tail(queue)) <= QueueCapacity
                         /\ Head(queue) \in LineType /\ TaggedAnswer(Head(queue))
      /\ stdout # <<>> => Head(stdout) \in LineType
      /\ Append(queue, held) \in Seq(LineType) /\ Len(Append(queue, held)) = Len(queue) + 1
      /\ Len(queue) \in Nat
  <2>1. /\ queue \in Seq(LineType) /\ held \in LineType /\ stdout \in Seq(LineType)
        /\ Len(queue) <= QueueCapacity
    BY <1>0 DEF ClientTypes, ChannelTypes
  <2>2. QED
    BY <1>0, <2>1, LinesTaken, AppendProperties, LenProperties DEF TagInv, Wire
<1> USE <1>0 DEF ClientTypes, ToFailed, CallerFails, CallerRaises, EndCall, Settled, LocalStates,
             SessionStates, threadVars
<1>2. CASE LaunchFails
  BY <1>2 DEF LaunchFails
<1>3. CASE LaunchesWorker
  <2>1. nextId = 1 /\ Request(1, "hello", 0) \in RequestType
    BY <1>3 DEF LaunchesWorker, Control, StartInv, Pristine, Operations
  <2>2. request' \in RequestType /\ nextId' = 2 /\ proc' = TRUE
    BY <1>3, <2>1 DEF LaunchesWorker
  <2>3. QED
    BY <1>3, <2>2 DEF LaunchesWorker
<1>4. CASE PingLocks
  BY <1>4 DEF PingLocks, Operations
<1>5. CASE PingGivesUp
  BY <1>5 DEF PingGivesUp
<1>6. CASE Sends
  BY <1>6 DEF Sends
<1>7. CASE Receives
  <2>1. at.caller = "receive" => request # Nothing
    BY DEF Control, CallInv
  <2>2. Refused(Head(queue)) \/ request.op = "hello" \/ Learned(Head(queue)) \in LocalStates
    BY <1>1, <1>7, <2>1 DEF Refused, Learned, Receives, TaggedAnswer, Ended, Resumes, EOF, Answer
  <2> HIDE DEF LocalStates
  <2>3. QED
    BY <1>1, <1>7, <2>2 DEF Receives
<1>8. CASE TimesOut
  BY <1>8 DEF TimesOut
<1>9. CASE WaitsForCleanup
  BY <1>9 DEF WaitsForCleanup
<1>10. CASE Readies
  BY <1>10 DEF Readies
<1>11. ASSUME NEW t \in {"caller", "stopper", "coord"}, CleanupStep(t)
       PROVE  ClientTypes'
  <2>1. CASE t = "caller"
    BY <1>11, <2>1, ZenonT(40) DEF CleanupStep, Kill, Close, Clear, NothingToClean, AfterCleanup
  <2>2. CASE t = "stopper"
    BY <1>11, <2>2, ZenonT(40) DEF CleanupStep, Kill, Close, Clear, NothingToClean, AfterCleanup
  <2>3. CASE t = "coord"
    BY <1>11, <2>3, ZenonT(40) DEF CleanupStep, Kill, Close, Clear, NothingToClean, AfterCleanup
  <2>4. QED
    BY <2>1, <2>2, <2>3
<1>12. CASE StopLocks \/ ChecksWorker \/ AwaitsExit \/ Finalizes \/ FinalCloses \/ Stops
  BY <1>12, ZenonT(40) DEF StopLocks, ChecksWorker, AwaitsExit, Finalizes, FinalCloses, Stops
<1>13. CASE SendsShutdown
  BY <1>13 DEF SendsShutdown, Control, CallInv
<1>14. CASE TakesAck
  BY <1>1, <1>14 DEF TakesAck
<1>15. CASE Reads
  BY <1>1, <1>15 DEF Reads
<1>16. CASE Puts
  BY <1>1, <1>16 DEF Puts, AfterPut
<1>17. CASE Overflows
  BY <1>17 DEF Overflows
<1>18. CASE Coordinates \/ Starts \/ Pings \/ StopCalled
  BY <1>18, ZenonT(40) DEF Coordinates, Starts, Pings, StopCalled
<1>19. ASSUME NEW op \in Operations \ {"hello", "ping", "shutdown"}, NEW g \in Nat, Calls(op, g)
       PROVE  ClientTypes'
  BY <1>19 DEF Calls
<1>20. CASE UNCHANGED vars
  BY <1>20 DEF vars, clientVars
<1>21. QED
  BY <1>2, <1>3, <1>4, <1>5, <1>6, <1>7, <1>8, <1>9, <1>10, <1>11, <1>12, <1>13, <1>14, <1>15,
     <1>16, <1>17, <1>18, <1>19, <1>20, NextCases

(* Every step leaves every variable in its type.                           *)
LEMMA TypeStep ==
  ASSUME TypeOK, Control, TagInv, [Next]_vars
  PROVE  TypeOK'
<1>1. CASE WorkerNext /\ UNCHANGED clientVars
  <2>1. WorkerTypeOK'
    BY <1>1, WorkerTypeStep
  <2>2. QED
    BY <1>1, <2>1 DEF TypeOK, clientVars
<1>2. CASE ~(WorkerNext /\ UNCHANGED clientVars)
  <2>0. ChannelTypes
    BY ClientAssumption DEF TypeOK, WorkerTypeOK, ChannelTypes
  <2>1. ClientMoves
    BY <1>2, ClientFrame
  <2>2. WorkerTypeOK'
    <3>1. /\ Request(nextId, "shutdown", 0) \in RequestType /\ Nothing \in RequestType
          /\ request \in RequestType
      BY <2>0 DEF Request, RequestType, Nothing, Operations, ChannelTypes
    <3>2. <<>> \in Seq(RequestType)
      BY DEF RequestType
    <3>3. stdin' \in Seq(RequestType) /\ stdout' \in Seq(LineType)
      BY <2>0, <2>1, <3>1, <3>2, ChannelLines DEF ClientMoves, Vanishes, ChannelTypes
    <3>4. QED
      BY <2>1, <3>1, <3>3 DEF ClientMoves, Vanishes, TypeOK, WorkerTypeOK
  <2>3. QED
    BY <1>2, <2>2, ClientTypeStep, PointStep DEF TypeOK, ClientTypes
<1>3. QED
  BY <1>1, <1>2

(***************************************************************************)
(* The session, in every state it can reach.                                *)
(***************************************************************************)

(* A session that was not started satisfies the inductive invariant.       *)
LEMMA IInvInit == Init => IInv
<1> SUFFICES ASSUME Init PROVE IInv
  OBVIOUS
<1> USE DEF Init, WorkerInit
<1>1. TypeOK
  <2>1. Nothing \in RequestType /\ None \in LineType
    BY DEF Nothing, Request, RequestType, None, Answer, LineType
  <2>2. at \in Points
    BY DEF Points
  <2>3. <<>> \in Seq(RequestType) /\ <<>> \in Seq(LineType) /\ Len(<<>>) = 0
    BY DEF RequestType, LineType
  <2>4. stdin \in Seq(RequestType) /\ stdout \in Seq(LineType) /\ queue \in Seq(LineType)
    BY <2>3, Zenon
  <2>5. /\ generation \in 0..MaxPauses /\ junk \in 0..MaxJunk /\ nextId \in 1..(MaxRequests + 1)
        /\ Len(queue) <= QueueCapacity
    BY <2>3, WorkerBoundsAssumption, ClientAssumption
  <2>6. WorkerTypeOK
    BY <2>1, <2>4, <2>5, Zenon DEF WorkerTypeOK, TargetStates
  <2>7. QED
    BY <2>1, <2>2, <2>4, <2>5, <2>6, Zenon DEF TypeOK, SessionStates, LocalStates
<1>2. Control
  BY ClientAssumption
     DEF Control, StartInv, Pristine, TeardownInv, Buried, CallInv, Cleaning, Nothing, Request, Over
<1>3. TagInv
  BY NoLines DEF TagInv, Wire, TaggedAnswer, None, Answer
<1>4. StrayInv
  BY NoLines DEF StrayInv
<1>5. TrafficInv /\ BeliefInv
  BY DEF TrafficInv, BeliefInv, Serving
<1>6. QED
  BY <1>1, <1>2, <1>3, <1>4, <1>5 DEF IInv

(* Every step preserves it.                                                *)
LEMMA IInvStep == IInv /\ [Next]_vars => IInv'
<1> SUFFICES ASSUME IInv, [Next]_vars PROVE IInv'
  OBVIOUS
<1>1. TypeOK /\ Control /\ TagInv /\ StrayInv /\ TrafficInv /\ BeliefInv
  BY DEF IInv
<1>2. TypeOK' /\ Control' /\ TagInv'
  BY <1>1, TypeStep, ControlStep, TagStep
<1>3. StrayInv'
  BY <1>1, StrayStep
<1>4. TrafficInv'
  BY <1>1, TrafficStep
<1>5. BeliefInv'
  BY <1>1, BeliefStep
<1>6. QED
  BY <1>2, <1>3, <1>4, <1>5 DEF IInv

(* IInv holds throughout: of control, of what is on its way, of belief.    *)
THEOREM SessionInvariant == Spec => []IInv
<1>1. QED
  BY IInvInit, IInvStep, PTL DEF Spec

(* The variables of the client and of its worker keep to their types; in    *)
(* particular the response queue never holds more than its capacity and no  *)
(* request id is given out after that of the shutdown.                     *)
THEOREM TypeCorrect == Spec => []TypeOK
<1>1. IInv => TypeOK
  BY DEF IInv
<1>2. QED
  BY <1>1, SessionInvariant, PTL

(* Whichever of the three threads takes the worker down, and whatever it    *)
(* interrupts: a live worker can be reached through the session's handle,   *)
(* and none survives a stop, or a failure that nobody is still cleaning up. *)
THEOREM NoWorkerLeaks == Spec => []NoLeakedWorker
<1>1. IInv => NoLeakedWorker
  BY DEF IInv, Control, TeardownInv, Buried, NoLeakedWorker
<1>2. QED
  BY <1>1, SessionInvariant, PTL

(* A ready session that nobody is using has no request to make and is not  *)
(* waiting for one.                                                        *)
LEMMA AtRest ==
  ASSUME IInv, state = "ready", lock = "free"
  PROVE  at.caller \in {"idle", "lock"} /\ request = Nothing
<1>1. request = Nothing
  BY DEF IInv, Control, StartInv, CallInv
<1>2. QED
  BY <1>1 DEF IInv, Control, StartInv, CallInv

(* When the request lock of a ready session is free no answer to an earlier *)
(* request is in either pipe, in the worker, in the queue or in the hands   *)
(* of the reader, so the next answer is the next request's.                *)
THEOREM QuietChannel == Spec => []ChannelQuiet
<1>1. IInv => ChannelQuiet
  <2> SUFFICES ASSUME IInv, state = "ready", lock = "free"
               PROVE  /\ stdin = <<>> /\ serving = Nothing
                      /\ \A i \in 1..Len(stdout) : stdout[i] = Junk
                      /\ \A i \in 1..Len(queue) : queue[i] \in {Junk, EOF}
                      /\ held \in {None, Junk, EOF}
    BY DEF ChannelQuiet
  <2>1. Quiet
    BY AtRest DEF IInv, TrafficInv, Serving
  <2>2. /\ stdout \in Seq(LineType) /\ queue \in Seq(LineType)
        /\ Range(stdout) = {stdout[i] : i \in 1..Len(stdout)}
        /\ Range(queue) = {queue[i] : i \in 1..Len(queue)}
    BY RangeEquality DEF IInv, TypeOK, WorkerTypeOK
  <2>3. StrayInv
    BY DEF IInv
  <2>4. QED
    BY <2>1, <2>2, <2>3 DEF Quiet, NoAnswer, Wire, StrayInv
<1>2. QED
  BY <1>1, SessionInvariant, PTL

(* Between two requests the life cycle that the client goes by, to allow or *)
(* refuse the next one, is the one the worker's target is in.              *)
THEOREM BeliefTrue == Spec => []BeliefIsTrue
<1>1. IInv => BeliefIsTrue
  BY AtRest DEF BeliefIsTrue, IInv, BeliefInv, Serving, Believed
<1>2. QED
  BY <1>1, SessionInvariant, PTL

(* Neither a request that ends late nor the overflow coordinator writes     *)
(* over a stop or a failure: a stopped session stays stopped, one that is   *)
(* being stopped only becomes that, a failed one can only be stopped.      *)
THEOREM NeverRevives == Spec => NeverRevived
<1>1. ASSUME IInv, [Next]_vars
      PROVE  /\ state \in {"stopping", "stopped"} => state' \in {"stopping", "stopped"}
             /\ state = "stopped" => state' = "stopped"
             /\ state = "failed" => state' \in {"failed", "stopping"}
  <2> USE DEF ToFailed, CallerFails, CallerRaises, EndCall, threadVars
  <2>0. StartInv /\ TeardownInv /\ CallInv /\ at \in Points /\ state \in SessionStates
    BY <1>1 DEF IInv, Control, TypeOK
  <2>1. CASE UNCHANGED state
    BY <2>1
  <2>2. CASE ToFailed
    BY <2>2
  <2>3. CASE Starts
    BY <2>3 DEF Starts
  <2>4. CASE StopCalled
    BY <2>4 DEF StopCalled
  <2>5. CASE Stops
    BY <2>0, <2>5 DEF Stops, StartInv
  <2>6. CASE Readies
    BY <2>0, <2>6 DEF Readies, StartInv, TeardownInv, Cleaning
  <2>7. Starts \/ StopCalled \/ Stops \/ Readies \/ ToFailed \/ UNCHANGED state
    <3>1. CASE LaunchFails \/ LaunchesWorker \/ PingLocks \/ PingGivesUp
      BY <3>1 DEF LaunchFails, LaunchesWorker, PingLocks, PingGivesUp
    <3>2. CASE Sends \/ Receives \/ TimesOut \/ WaitsForCleanup
      BY <3>2 DEF Sends, Receives, TimesOut, WaitsForCleanup
    <3>3. ASSUME NEW t \in {"caller", "stopper", "coord"}, CleanupStep(t) PROVE UNCHANGED state
      BY <3>3 DEF CleanupStep, Kill, Close, Clear, NothingToClean
    <3>4. CASE StopLocks \/ ChecksWorker \/ SendsShutdown \/ TakesAck \/ AwaitsExit
      BY <3>4 DEF StopLocks, ChecksWorker, SendsShutdown, TakesAck, AwaitsExit
    <3>5. CASE Finalizes \/ FinalCloses \/ Reads \/ Puts \/ Overflows \/ Coordinates \/ Pings
      BY <3>5 DEF Finalizes, FinalCloses, Reads, Puts, Overflows, Coordinates, Pings
    <3>6. ASSUME NEW op \in Operations \ {"hello", "ping", "shutdown"}, NEW g \in Nat, Calls(op, g)
          PROVE  UNCHANGED state
      BY <3>6 DEF Calls
    <3>7. CASE (WorkerNext /\ UNCHANGED clientVars) \/ UNCHANGED vars
      BY <3>7 DEF vars, clientVars
    <3>8. QED
      BY <1>1, <3>1, <3>2, <3>3, <3>4, <3>5, <3>6, <3>7, NextCases
  <2>8. QED
    BY <2>1, <2>2, <2>3, <2>4, <2>5, <2>6, <2>7
<1>2. QED
  BY <1>1, SessionInvariant, PTL DEF Spec, NeverRevived
=============================================================================
