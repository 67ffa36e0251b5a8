----------------------------- MODULE PdbWorker -----------------------------
(***************************************************************************)
(* The PDB worker process: runtime/pdb_worker.py over pdb_worker_lifecycle, *)
(* pdb_worker_execution, pdb_worker_runners and pdb_worker_inspection.      *)
(*                                                                         *)
(* A control thread takes one request at a time from stdin and answers on   *)
(* a duplicate of descriptor 1.  The debugged target runs in a thread of    *)
(* its own (start_paused_target) or on the control thread (the one-shot     *)
(* runs); it pauses in user_line, ends, or never ends.  The target, and     *)
(* any process it started, still hold descriptor 1: what they write there   *)
(* arrives between the answers, and the pipe stays open while one of them   *)
(* lives.  PdbSession owns the other ends.                                  *)
(***************************************************************************)
EXTENDS Integers, Sequences

CONSTANTS
  MaxPauses,   \* bound: pauses of one target
  MaxJunk      \* bound: lines that are not answers

ASSUME WorkerBoundsAssumption == MaxPauses \in Nat /\ MaxJunk \in Nat

VARIABLES
  alive,       \* the worker process exists and is not a zombie
  serving,     \* the request the control thread is at, or Nothing
  stage,       \* what it does: take the next, handle it, await, leave
  target,      \* lifecycle['state']
  mode,        \* lifecycle['_resume_mode'], of which step stands for next too
  generation,  \* lifecycle['pause_generation']
  line,        \* lifecycle['line']: a breakpoint, or another line
  started,     \* _target_started
  child,       \* a process the target started lives and holds the pipe
  junk,        \* the lines written that are not answers
  stdin, stdout

targetVars == <<target, mode, generation, line, started>>
pipeVars   == <<stdin, stdout>>
workerVars == <<alive, serving, stage, targetVars, child, junk, pipeVars>>

(* run stands for run_to_breakpoint and run_post_mortem, step for next as  *)
(* well, frame for the three inspections that name a pause generation,     *)
(* stack for the one that does not.                                        *)
Resumes     == {"continue", "step"}
Inspections == {"stack", "frame"}
Operations  == {"hello", "ping", "shutdown", "run", "start", "status", "terminate"}
                 \cup Resumes \cup Inspections
Request(id, op, g) == [id |-> id, op |-> op, generation |-> g]
Nothing == Request(0, "none", 0)

TargetStates == {"idle", "starting", "running", "paused", "terminating",
                 "exited", "failed", "terminated"}
Ended        == {"exited", "failed", "terminated"}
TargetLines  == {"breakpoint", "other"}

(* A line of the protocol channel: an answer with the target's state, or   *)
(* something that does not decode.                                         *)
Answer(id, ok, s, l, g) == [id |-> id, ok |-> ok, state |-> s, line |-> l, generation |-> g]
Ok(s)  == IF s = "paused" THEN Answer(serving.id, TRUE, s, line, generation)
                          ELSE Answer(serving.id, TRUE, s, "none", 0)
Done   == Answer(serving.id, TRUE, "none", "none", 0)
Error  == Answer(serving.id, FALSE, "none", "none", 0)
Junk   == Answer(0, FALSE, "junk", "none", 0)

RequestType == [id : Nat, op : Operations \cup {"none"}, generation : Nat]
LineType    == [id : Nat, ok : BOOLEAN, state : TargetStates \cup {"none", "junk", "eof"},
                line : TargetLines \cup {"none"}, generation : Nat]

WorkerTypeOK ==
  /\ alive \in BOOLEAN /\ serving \in RequestType
  /\ stage \in {"take", "handle", "await", "leave"}
  /\ target \in TargetStates /\ mode \in {"none", "step"}
  /\ generation \in 0..MaxPauses /\ line \in TargetLines \cup {"none"}
  /\ started \in BOOLEAN /\ child \in BOOLEAN /\ junk \in 0..MaxJunk
  /\ stdin \in Seq(RequestType) /\ stdout \in Seq(LineType)

WorkerInit ==
  /\ alive = FALSE /\ serving = Nothing /\ stage = "take"
  /\ target = "idle" /\ mode = "none" /\ generation = 0 /\ line = "none"
  /\ started = FALSE /\ child = FALSE /\ junk = 0
  /\ stdin = <<>> /\ stdout = <<>>

(* Somebody can still write to the channel.                                *)
PipeOpen == alive \/ child

----------------------------------------------------------------------------
(* The control thread.  Replies(a, then) sends a and goes on with then.     *)

Replies(answer, then) ==
  /\ stdout' = Append(stdout, answer)
  /\ serving' = Nothing /\ stage' = then
  /\ UNCHANGED <<alive, child, junk, stdin>>

Waits ==
  /\ stage' = "await"
  /\ UNCHANGED <<alive, serving, child, junk, pipeVars>>

Handling(operations) == alive /\ stage = "handle" /\ serving.op \in operations
Awaiting(operations) == alive /\ stage = "await"  /\ serving.op \in operations

(* The loop of run(): the next line of stdin is the request to handle.     *)
Takes ==
  /\ alive /\ stage = "take" /\ stdin # <<>>
  /\ serving' = Head(stdin) /\ stdin' = Tail(stdin) /\ stage' = "handle"
  /\ UNCHANGED <<alive, targetVars, child, junk, stdout>>

Greets ==
  /\ Handling({"hello", "ping"})
  /\ Replies(Done, "take")
  /\ UNCHANGED targetVars

(* A second execution is refused; so is a script that stopped being what   *)
(* the client validated.                                                   *)
Refuses ==
  /\ Handling({"run", "start"})
  /\ Replies(Error, "take")
  /\ UNCHANGED targetVars

Launches ==
  /\ Handling({"run", "start"}) /\ ~started
  /\ started' = TRUE /\ target' = "starting"
  /\ UNCHANGED <<mode, generation, line>>
  /\ Waits

(* A one-shot run ends at a breakpoint ("terminated"), by itself, or with  *)
(* an error, which the post-mortem reports as a success.  The response is  *)
(* sent before the life cycle is set; nothing looks in between, since it   *)
(* is this thread that would.                                              *)
RunEnds ==
  /\ Awaiting({"run"})
  /\ \E s \in Ended :
       /\ target' = s
       /\ \/ Replies(Ok(s), "take")
          \/ s = "failed" /\ Replies(Error, "take")
  /\ UNCHANGED <<mode, generation, line, started>>

(* _handle_resume_paused_target up to its wait.                            *)
Resume ==
  /\ Handling(Resumes)
  /\ IF target # "paused"
       THEN Replies(Error, "take") /\ UNCHANGED targetVars
       ELSE /\ target' = "running"
            /\ mode' = IF serving.op = "step" THEN "step" ELSE "none"
            /\ UNCHANGED <<generation, line, started>>
            /\ Waits

(* The started or resumed target has come to rest.                         *)
AnswersRest ==
  /\ Awaiting(Resumes \cup {"start"}) /\ target \in {"paused", "exited", "failed"}
  /\ Replies(IF target = "failed" THEN Error ELSE Ok(target), "take")
  /\ UNCHANGED targetVars

AnswersStatus ==
  /\ Handling({"status"})
  /\ Replies(IF target \in Ended \cup {"idle", "paused"} THEN Ok(target) ELSE Error, "take")
  /\ UNCHANGED targetVars

(* inspection_snapshot: only of a paused target, only of the pause named.  *)
Inspects ==
  /\ Handling(Inspections)
  /\ Replies(IF /\ target = "paused"
                /\ serving.op = "frame" => serving.generation = generation
               THEN Ok("paused") ELSE Error, "take")
  /\ UNCHANGED targetVars

(* terminate and shutdown end a paused target first                        *)
(* (_request_target_termination); without one a shutdown is acknowledged   *)
(* and a terminate refused.                                                *)
BeginsTermination ==
  /\ Handling({"terminate", "shutdown"}) /\ target = "paused"
  /\ target' = "terminating"
  /\ UNCHANGED <<mode, generation, line, started>>
  /\ Waits

NothingToTerminate ==
  /\ Handling({"terminate", "shutdown"}) /\ target # "paused"
  /\ IF serving.op = "shutdown" THEN Replies(Done, "leave") ELSE Replies(Error, "take")
  /\ UNCHANGED targetVars

(* The target may have caught the sentinel and ended otherwise: an error.  *)
EndsTermination ==
  /\ Awaiting({"terminate", "shutdown"}) /\ target \in Ended
  /\ LET then == IF serving.op = "shutdown" THEN "leave" ELSE "take"
     IN  Replies(IF target # "terminated" THEN Error
                 ELSE IF serving.op = "shutdown" THEN Done ELSE Ok(target), then)
  /\ UNCHANGED targetVars

(* It may also not have ended after three seconds: the worker is unsafe    *)
(* and leaves its loop.                                                    *)
GivesUpTermination ==
  /\ Awaiting({"terminate", "shutdown"}) /\ target = "terminating"
  /\ Replies(Error, "leave")
  /\ UNCHANGED targetVars

----------------------------------------------------------------------------
(* The target, and the processes it starts.                                *)

(* user_line: at a breakpoint, or where a step or a next pauses; each      *)
(* pause is a new generation and uses the pending resume mode up.          *)
Pauses ==
  /\ alive /\ Awaiting(Resumes \cup {"start"}) /\ target \in {"starting", "running"}
  /\ generation < MaxPauses
  /\ line' \in IF mode = "none" THEN {"breakpoint"} ELSE TargetLines
  /\ target' = "paused" /\ generation' = generation + 1 /\ mode' = "none"
  /\ UNCHANGED <<alive, serving, stage, started, child, junk, pipeVars>>

(* The finally of run_persistent_target publishes how it ended; only the   *)
(* sentinel of a termination ends as "terminated".                         *)
TargetEnds ==
  /\ alive /\ serving.op # "run" /\ target \in {"starting", "running", "terminating"}
  /\ target' \in IF target = "terminating" THEN Ended ELSE {"exited", "failed"}
  /\ mode' = "none"
  /\ UNCHANGED <<alive, serving, stage, generation, line, started, child, junk, pipeVars>>

Executing == alive /\ target \in {"starting", "running", "terminating"}

TargetSpawns ==
  /\ Executing /\ ~child
  /\ child' = TRUE
  /\ UNCHANGED <<alive, serving, stage, targetVars, junk, pipeVars>>

(* The target or its child writes to descriptor 1.                         *)
WritesJunk ==
  /\ Executing \/ child
  /\ junk < MaxJunk
  /\ junk' = junk + 1 /\ stdout' = Append(stdout, Junk)
  /\ UNCHANGED <<alive, serving, stage, targetVars, child, stdin>>

ChildEnds ==
  /\ child /\ child' = FALSE
  /\ UNCHANGED <<alive, serving, stage, targetVars, junk, pipeVars>>

----------------------------------------------------------------------------
(* The process: what a dead one was doing and would have read goes; what   *)
(* it wrote stays in the pipe.                                             *)
Vanishes ==
  /\ alive' = FALSE /\ serving' = Nothing /\ stage' = "take" /\ stdin' = <<>>

(* The loop was left.  A target whose own threads keep the interpreter up  *)
(* may never get there.                                                    *)
Leaves ==
  /\ alive /\ stage = "leave" /\ Vanishes
  /\ UNCHANGED <<targetVars, child, junk, stdout>>

(* os._exit or a fatal signal while the target's code runs.                *)
Crashes ==
  /\ Executing /\ Vanishes
  /\ UNCHANGED <<targetVars, child, junk, stdout>>

WorkerNext ==
  \/ Takes \/ Greets \/ Refuses \/ Launches \/ RunEnds
  \/ Resume \/ AnswersRest \/ AnswersStatus \/ Inspects
  \/ BeginsTermination \/ NothingToTerminate \/ EndsTermination \/ GivesUpTermination
  \/ Pauses \/ TargetEnds \/ TargetSpawns \/ WritesJunk \/ ChildEnds
  \/ Leaves \/ Crashes
=============================================================================
