---------------------------- MODULE CommandGroups ---------------------------
(***************************************************************************)
(* The process groups of the commands that a session worker runs, one after *)
(* another, on its main thread (POSIX): requests to the model command       *)
(* (application/command_transport.py, with the group registry of            *)
(* process_tree.py) and the project's test commands                         *)
(* (runtime/command_runner.py).  A command is the leader of a group of its   *)
(* own, in which it may leave children.  The user may cancel, and the        *)
(* supervisor may end the worker, at any point of this.                      *)
(***************************************************************************)
EXTENDS Naturals

CONSTANT MaxCommands   \* bound: commands run by one worker

ASSUME BoundAssumption == MaxCommands \in Nat \ {0}

VARIABLES
  at,         \* where the main thread is; kept when the worker ends
  count,      \* commands started: the group id of the last one
  kind,       \* of each group's command
  outcome,    \* how each command ended
  members,    \* the live processes of each group
  registered, \* _REQUEST_GROUP_IDS
  cancelled,  \* the token of the session
  ended       \* how the worker ended: no, terminated (SIGTERM), killed

vars == <<at, count, kind, outcome, members, registered, cancelled, ended>>

Groups == 1 .. MaxCommands

(* A polled test command has a cancel_check (baseline, verifier), a blocking *)
(* one has none (the reproduction and regression tools).                    *)
Kinds     == {"none", "model", "polled", "blocking"}
Processes == {"leader", "child"}
Locations == {"idle", "launch", "forked", "writing", "joining", "waiting", "polling",
              "signalled", "closing", "confirming", "unregistering"}

TypeOK ==
  /\ at \in Locations /\ count \in 0 .. MaxCommands
  /\ kind \in [Groups -> Kinds]
  /\ outcome \in [Groups -> {"none", "done", "timeout", "cancelled"}]
  /\ members \in [Groups -> SUBSET Processes]
  /\ registered \subseteq Groups /\ registered \subseteq {count}
  /\ cancelled \in BOOLEAN /\ ended \in {"no", "terminated", "killed"}

Init ==
  /\ at = "idle" /\ count = 0 /\ registered = {} /\ cancelled = FALSE /\ ended = "no"
  /\ kind = [g \in Groups |-> "none"] /\ outcome = [g \in Groups |-> "none"]
  /\ members = [g \in Groups |-> {}]

----------------------------------------------------------------------------
(* The main thread.                                                        *)
Forks(k) ==
  /\ count < MaxCommands /\ count' = count + 1
  /\ kind' = [kind EXCEPT ![count + 1] = k]
  /\ members' = [members EXCEPT ![count + 1] = {"leader"}]
  /\ UNCHANGED <<outcome, registered, cancelled, ended>>

(* A request is not started once the session is cancelled; the check and    *)
(* the Popen are two steps.                                                 *)
Requests ==
  /\ ended = "no" /\ at = "idle" /\ count < MaxCommands /\ ~cancelled
  /\ at' = "launch"
  /\ UNCHANGED <<count, kind, outcome, members, registered, cancelled, ended>>

Spawns     == ended = "no" /\ at = "launch" /\ Forks("model") /\ at' = "forked"
SpawnFails ==
  /\ ended = "no" /\ at = "launch" /\ at' = "idle"
  /\ UNCHANGED <<count, kind, outcome, members, registered, cancelled, ended>>

Registers ==
  /\ ended = "no" /\ at = "forked" /\ at' = "writing"
  /\ registered' = registered \cup {count}
  /\ UNCHANGED <<count, kind, outcome, members, cancelled, ended>>

RunsTests ==
  /\ ended = "no" /\ at = "idle"
  /\ \/ Forks("polled")   /\ at' = "waiting"
     \/ Forks("blocking") /\ at' = "polling"

(* killpg(SIGTERM): who in the group dies of it is up to the command.       *)
Signals ==
  \E left \in SUBSET members[count] : members' = [members EXCEPT ![count] = left]

Empties == members' = [members EXCEPT ![count] = {}]

(* The ladder of a cancelled or timed out command begins.                   *)
Interrupts(why) ==
  /\ outcome' = [outcome EXCEPT ![count] = why]
  /\ Signals /\ at' = "signalled"

(* Mutant: only the wait for the answer polls the token, the wait for the   *)
(* request to be written does not.                                          *)
ChecksAnswerOnly ==
  /\ ended = "no" /\ at \in {"writing", "waiting"}
  /\ IF cancelled /\ at = "waiting"
       THEN Interrupts("cancelled")
       ELSE at' = (IF at = "writing" THEN "joining" ELSE "polling") /\ UNCHANGED <<outcome, members>>
  /\ UNCHANGED <<count, kind, registered, cancelled, ended>>

(* The top of both loops: cancel_check, then one slice of waiting, for the  *)
(* writer thread or for the process.                                        *)
Checks ==
  /\ ended = "no" /\ at \in {"writing", "waiting"}
  /\ IF cancelled
       THEN Interrupts("cancelled")
       ELSE at' = (IF at = "writing" THEN "joining" ELSE "polling") /\ UNCHANGED <<outcome, members>>
  /\ UNCHANGED <<count, kind, registered, cancelled, ended>>

(* The writer thread is done, or it is still blocked on the pipe.           *)
Joins ==
  /\ ended = "no" /\ at = "joining" /\ at' \in {"writing", "waiting"}
  /\ UNCHANGED <<count, kind, outcome, members, registered, cancelled, ended>>

(* A slice of a blocking wait is the whole wait.                            *)
PollsAgain ==
  /\ ended = "no" /\ at = "polling" /\ kind[count] # "blocking" /\ at' = "waiting"
  /\ UNCHANGED <<count, kind, outcome, members, registered, cancelled, ended>>

(* The inactivity watchdog of a request, the deadline of a test command.    *)
TimesOut ==
  /\ ended = "no"
  /\ at = "joining" \/ (at = "polling" /\ "leader" \in members[count])
  /\ Interrupts("timeout")
  /\ UNCHANGED <<count, kind, registered, cancelled, ended>>

(* Only the finally clause of a request cleans its group.                   *)
Leaves == at' = IF kind[count] = "model" THEN "closing" ELSE "idle"

(* Mutant: the cleanup of the group is only in the ladder.                  *)
ReapsOnly ==
  /\ ended = "no" /\ at = "polling" /\ "leader" \notin members[count]
  /\ outcome' = [outcome EXCEPT ![count] = "done"]
  /\ at' = IF kind[count] = "model" THEN "unregistering" ELSE "idle"
  /\ UNCHANGED <<count, kind, members, registered, cancelled, ended>>

(* The command itself has ended: answered, or failed.                       *)
Reaps ==
  /\ ended = "no" /\ at = "polling" /\ "leader" \notin members[count]
  /\ outcome' = [outcome EXCEPT ![count] = "done"] /\ Leaves
  /\ UNCHANGED <<count, kind, members, registered, cancelled, ended>>

(* Two seconds later: killpg(SIGKILL), and the leader is reaped.            *)
Escalates ==
  /\ ended = "no" /\ at = "signalled" /\ Empties /\ Leaves
  /\ UNCHANGED <<count, kind, outcome, registered, cancelled, ended>>

(* Mutant: the group is unregistered before it is cleaned.                  *)
ClosesUnregistered ==
  /\ ended = "no" /\ at = "closing" /\ registered' = registered \ {count}
  /\ \/ members[count] = {} /\ at' = "unregistering" /\ UNCHANGED members
     \/ members[count] # {} /\ at' = "confirming" /\ Signals
  /\ UNCHANGED <<count, kind, outcome, cancelled, ended>>

(* terminate_request_group_id, by the id known from the spawn.              *)
Closes ==
  /\ ended = "no" /\ at = "closing"
  /\ \/ members[count] = {} /\ at' = "unregistering" /\ UNCHANGED members
     \/ members[count] # {} /\ at' = "confirming" /\ Signals
  /\ UNCHANGED <<count, kind, outcome, registered, cancelled, ended>>

Confirms ==
  /\ ended = "no" /\ at = "confirming" /\ Empties /\ at' = "unregistering"
  /\ UNCHANGED <<count, kind, outcome, registered, cancelled, ended>>

Unregisters ==
  /\ ended = "no" /\ at = "unregistering" /\ at' = "idle"
  /\ registered' = registered \ {count}
  /\ UNCHANGED <<count, kind, outcome, members, cancelled, ended>>

MainStep ==
  \/ Spawns \/ SpawnFails \/ Registers \/ Checks \/ Joins \/ PollsAgain \/ TimesOut
  \/ Reaps \/ Escalates \/ Closes \/ Confirms \/ Unregisters

----------------------------------------------------------------------------
(* The commands, the user and the supervisor.                              *)
ChildSpawns(g) ==
  /\ members[g] # {} /\ members' = [members EXCEPT ![g] = Processes]
  /\ UNCHANGED <<at, count, kind, outcome, registered, cancelled, ended>>

Exits(g, p) ==
  /\ p \in members[g] /\ members' = [members EXCEPT ![g] = @ \ {p}]
  /\ UNCHANGED <<at, count, kind, outcome, registered, cancelled, ended>>

Cancel ==
  /\ ended = "no" /\ ~cancelled /\ cancelled' = TRUE
  /\ UNCHANGED <<at, count, kind, outcome, members, registered, ended>>

(* SIGTERM interrupts the main thread wherever it is: the handler kills the *)
(* registered groups, then the worker dies.                                 *)
Terminated ==
  /\ ended = "no" /\ ended' = "terminated"
  /\ members' = [g \in Groups |-> IF g \in registered THEN {} ELSE members[g]]
  /\ UNCHANGED <<at, count, kind, outcome, registered, cancelled>>

(* SIGKILL, or a crash: nobody cleans anything.                             *)
Killed ==
  /\ ended = "no" /\ ended' = "killed"
  /\ UNCHANGED <<at, count, kind, outcome, members, registered, cancelled>>

Next ==
  \/ Requests \/ RunsTests \/ MainStep
  \/ \E g \in Groups : ChildSpawns(g) \/ \E p \in Processes : Exits(g, p)
  \/ Cancel \/ Terminated \/ Killed

Spec     == Init /\ [][Next]_vars
FairSpec == Spec /\ WF_vars(MainStep)

----------------------------------------------------------------------------
(* When a request is over, however it ended, nothing it started is left in  *)
(* its group; nor of a test command that was cancelled or timed out.  (One  *)
(* that ended by itself may leave children behind.)                         *)
NoGroupOutlives ==
  ended = "no" =>
    \A g \in Groups :
      /\ kind[g] = "model" \/ outcome[g] \in {"timeout", "cancelled"}
      /\ g < count \/ at = "idle"
      => members[g] = {}

(* A worker ended by SIGTERM, at whatever point of a request, leaves none   *)
(* of its model commands running, except one hit between its Popen and its  *)
(* registration.                                                            *)
OrphanOnlyInLaunch ==
  ended = "terminated" =>
    \A g \in Groups :
      kind[g] = "model" /\ members[g] # {} => g = count /\ at = "forked"

(* A cancelled session gets its main thread back, also while the command    *)
(* neither reads its request nor ends: no wait is without a check or a      *)
(* deadline.                                                                *)
CancelEndsCommand == cancelled /\ at # "idle" ~> at = "idle" \/ ended # "no"
=============================================================================
