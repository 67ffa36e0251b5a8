--------------------------- MODULE SessionEvents ---------------------------
(***************************************************************************)
(* The vocabulary of one session's durable journal, and what its readers   *)
(* make of it: application/event_contracts.py (statuses, reasons, legal    *)
(* transitions), events.py (the complete-stream contract), journal.py (how *)
(* a file is classified after a crash), session.py (what a SessionResult   *)
(* may claim) and history.py (how a finished session is listed).           *)
(*                                                                         *)
(* An event keeps the fields these readers look at: its sequence number,   *)
(* its kind, the status and reason of a status_changed or terminal event,  *)
(* the "verified" flag of cleanup.completed, and whether it carries the    *)
(* session's run_id.  Session, task and source identity are constant in    *)
(* one worker and are left out.  "progress" stands for every kind the      *)
(* lifecycle rules ignore (controller, debugger, patch, verifier events).  *)
(***************************************************************************)
EXTENDS Naturals, Sequences, FiniteSets, SequencesExt

EndStatuses == {"succeeded", "unresolved", "failed", "cancelled",
                "timed_out", "interrupted", "cleanup_failed"}

Statuses == {"created", "starting", "running"} \cup EndStatuses

(* _SESSION_TRANSITIONS: a terminal status has no successor. *)
NextStatuses ==
  [s \in Statuses |->
     CASE s = "created"  -> {"starting", "cancelled", "failed",
                             "interrupted", "timed_out"}
       [] s = "starting" -> {"running", "cancelled", "failed", "timed_out",
                             "interrupted", "cleanup_failed"}
       [] s = "running"  -> {"running"} \cup EndStatuses
       [] OTHER          -> {}]

Reasons == {"done", "unresolved", "controller_failed", "journal_error",
            "cancelled", "timeout", "interrupted", "cleanup_failed"}

(* "controller_failed" stands for the six reasons of "failed" that no      *)
(* reader tells apart; only journal_error is told apart from them.         *)
CompatibleReasons ==
  [s \in EndStatuses |->
     CASE s = "succeeded" -> {"done"}
       [] s = "timed_out" -> {"timeout"}
       [] s = "failed"    -> {"controller_failed", "journal_error"}
       [] OTHER           -> {s}]

TerminalKinds == {"session.completed", "session.failed", "session.cancelled"}

Kinds == TerminalKinds \cup
         {"session.created", "session.started", "session.status_changed",
          "session.cancel_requested", "cleanup.started", "cleanup.completed",
          "cleanup.not_required", "progress"}

(* The statuses a terminal kind may carry (enforced at construction).      *)
StatusesOf(kind) ==
  CASE kind = "session.completed" -> {"succeeded", "unresolved"}
    [] kind = "session.failed"    -> {"failed", "timed_out", "interrupted",
                                      "cleanup_failed"}
    [] kind = "session.cancelled" -> {"cancelled"}
    [] OTHER                      -> {"none"}

Event(seq, kind, bound) ==
  [seq |-> seq, kind |-> kind, bound |-> bound,
   status |-> "none", reason |-> "none", verified |-> FALSE]

(* What construction lets through (event_payloads.py, _payload_terminal).  *)
EventType ==
  {e \in [seq : Nat, kind : Kinds, bound : BOOLEAN,
          status : EndStatuses \cup {"none"},
          reason : Reasons \cup {"none"}, verified : BOOLEAN] :
     /\ e.status \in StatusesOf(e.kind)
     /\ e.kind \in TerminalKinds => e.reason \in CompatibleReasons[e.status]}

-----------------------------------------------------------------------------
(* validate_session_event_stream: one left-to-right scan of the file.      *)

ScanStart ==
  [ok |-> TRUE, next |-> 0, status |-> "created", started |-> FALSE,
   cancelled |-> FALSE, active |-> FALSE, attempted |-> FALSE,
   last |-> FALSE, ended |-> FALSE]

(* What the scan refuses, kind by kind, in the state sc. *)
Admits(sc, e) ==
  LET verified == ~sc.active /\ sc.last
  IN  CASE e.kind = "session.started" ->
             ~sc.started /\ e.bound /\ "starting" \in NextStatuses[sc.status]
        [] e.kind = "session.status_changed" ->
             "running" \in NextStatuses[sc.status]
        [] e.kind = "session.cancel_requested" -> ~sc.cancelled
        [] e.kind \in {"cleanup.started", "cleanup.not_required"} -> ~sc.active
        [] e.kind = "cleanup.completed" -> sc.active
        [] e.kind \in TerminalKinds ->
             /\ e.status \in NextStatuses[sc.status]
             /\ e.kind = "session.completed" => verified
             /\ e.kind = "session.cancelled" /\ sc.started => verified
             /\ e.status = "cleanup_failed" => sc.attempted /\ ~verified
        [] OTHER -> TRUE

(* Mutant: a verified cycle counts for good.                               *)
EverVerified(sc, e) == sc.last \/ (e.kind = "cleanup.completed" /\ e.verified)

(* The verdict of the most recent cleanup cycle.                           *)
LastVerified(sc, e) == IF e.kind = "cleanup.completed" THEN e.verified ELSE sc.last

ScanStep(sc, e) ==
  [ok        |-> /\ sc.ok /\ ~sc.ended
                 /\ e.seq = sc.next
                 /\ e.kind # "session.started" => e.bound = sc.started
                 /\ Admits(sc, e),
   next      |-> sc.next + 1,
   status    |-> CASE e.kind = "session.started"        -> "starting"
                   [] e.kind = "session.status_changed" -> "running"
                   [] e.kind \in TerminalKinds          -> e.status
                   [] OTHER                             -> sc.status,
   started   |-> sc.started \/ e.kind = "session.started",
   cancelled |-> sc.cancelled \/ e.kind = "session.cancel_requested",
   active    |-> /\ e.kind # "cleanup.completed"
                 /\ sc.active \/ e.kind = "cleanup.started",
   attempted |-> sc.attempted \/ e.kind = "cleanup.started",
   last      |-> LastVerified(sc, e),
   ended     |-> sc.ended \/ e.kind \in TerminalKinds]

(* (Bound to one value before the step, a scan is not evaluated again for   *)
(* each of its fields.)                                                    *)
Scan(events) ==
  FoldLeft(LAMBDA sc, e : CHOOSE next \in {ScanStep(s, e) : s \in {sc}} : TRUE,
           ScanStart, events)

ValidStream(events) ==
  /\ events # <<>>
  /\ events[1].kind = "session.created"
  /\ Scan(events).ok /\ Scan(events).ended

(* _validate_prefix: the weaker rules for a journal without a terminal.    *)
StartedAt(events) == {i \in DOMAIN events : events[i].kind = "session.started"}

(* Mutant: an interrupted session is expected to have started.             *)
StartedPrefix(events) ==
  events[1].kind = "session.created" /\ Cardinality(StartedAt(events)) = 1

ValidPrefix(events) ==
  /\ events[1].kind = "session.created"
  /\ \A i \in DOMAIN events : events[i].seq = i - 1
  /\ Cardinality(StartedAt(events)) <= 1
  /\ \A i \in StartedAt(events) :
       \A j \in i..Len(events) : events[j].bound

-----------------------------------------------------------------------------
(* What follows the last whole record of a file: nothing, bytes without a  *)
(* final newline, or such bytes that end inside a character.               *)
Tails == {"no", "tail", "split"}

(* read_session_journal: what a file says after any crash.  Decoding the   *)
(* rest of a character raises; of the reader's callers none expects that.  *)
ReadState(exists, events, torn) ==
  CASE ~exists                     -> "missing"
    [] exists /\ torn = "split"    -> "unreadable"
    [] exists /\ torn # "split" /\ (torn = "tail" \/ events = <<>>) -> "interrupted"
    [] OTHER ->
         IF Last(events).kind \in TerminalKinds
         THEN IF ValidStream(events) THEN "complete" ELSE "malformed"
         ELSE IF ValidPrefix(events) THEN "interrupted" ELSE "malformed"

(* SessionResult: what one may claim about status, run and cleanup. *)
ResultType == [status : EndStatuses, reason : Reasons,
               run : BOOLEAN, verified : BOOLEAN]

ValidResult(r) ==
  /\ r.reason \in CompatibleReasons[r.status]
  /\ r.status \in {"succeeded", "unresolved"} => r.run /\ r.verified
  /\ r.status = "cancelled" => r.verified = r.run
  /\ r.status = "cleanup_failed" => ~r.verified

(* _result_from_journal_events: the result a complete journal stands for.  *)
HasStarted(events) == StartedAt(events) # {}

(* Mutant: a completed cleanup cycle is taken for a verified one.          *)
CleanupCompleted(events) ==
  \E i \in DOMAIN events : events[i].kind = "cleanup.completed"

LastCleanupVerified(events) ==
  \E i \in DOMAIN events :
    /\ events[i].kind = "cleanup.completed" /\ events[i].verified
    /\ \A j \in (i + 1)..Len(events) : events[j].kind # "cleanup.completed"

ResultOf(events) ==
  [status |-> Last(events).status, reason |-> Last(events).reason,
   run |-> HasStarted(events), verified |-> LastCleanupVerified(events)]

(* _classify, of a directory whose manifest was derived from this journal. *)
Classified(state, events) ==
  IF state = "complete" THEN Last(events).status ELSE state

(* HistoryStore.register, the attempt of a caller that swallows its error. *)
Registered(exists, events, torn) ==
  LET state == ReadState(exists, events, torn)
  IN  IF events = <<>> \/ state = "unreadable"
      THEN "refused" ELSE Classified(state, events)
=============================================================================
