--------------------------- MODULE SessionStreams --------------------------
(***************************************************************************)
(* The contract of a complete event stream as events.py documents it, rule *)
(* by rule, with quantifiers over positions in place of the scan of        *)
(* SessionEvents; and a specification that grows every stream one record   *)
(* at a time, to compare the two.  A stream the scan has already rejected, *)
(* or that does not begin with session.created, is not extended: validator *)
(* and contract both stay false from there.                                *)
(***************************************************************************)
EXTENDS SessionEvents

CONSTANT MaxEvents      \* longest stream enumerated

VARIABLE stream

Bodies ==
  {[status |-> "none", reason |-> "none", verified |-> v, kind |-> k] :
     k \in Kinds \ TerminalKinds, v \in BOOLEAN}
  \cup UNION {{[status |-> s, reason |-> CHOOSE r \in CompatibleReasons[s] : TRUE,
                verified |-> FALSE, kind |-> k] : s \in StatusesOf(k)} :
              k \in TerminalKinds}

Candidates(n) ==
  {[kind |-> b.kind, status |-> b.status, reason |-> b.reason,
    verified |-> b.verified, seq |-> q, bound |-> u] :
     b \in {c \in Bodies : c.verified => c.kind = "cleanup.completed"},
     q \in {n, n + 1}, u \in BOOLEAN}

StreamInit == stream = <<>>

StreamNext ==
  /\ Len(stream) < MaxEvents
  /\ Scan(stream).ok
  /\ stream # <<>> => stream[1].kind = "session.created"
  /\ \E e \in Candidates(Len(stream)) : stream' = Append(stream, e)

StreamSpec == StreamInit /\ [][StreamNext]_stream
-----------------------------------------------------------------------------
(* The rules, of the stream f and the position i in it.                    *)

Pos(f, kinds) == {i \in DOMAIN f : f[i].kind \in kinds}
Before(f, i, kinds) == {j \in Pos(f, kinds) : j < i}

(* The records that move a session to another status, and where to.        *)
StatusMarks == TerminalKinds \cup {"session.started", "session.status_changed"}

TargetStatus(e) ==
  CASE e.kind = "session.started"        -> "starting"
    [] e.kind = "session.status_changed" -> "running"
    [] OTHER                             -> e.status

(* The status in force just before position i. *)
StatusBefore(f, i) ==
  LET marks == Before(f, i, StatusMarks)
      m == CHOOSE k \in marks : \A j \in marks : j <= k
  IN  IF marks = {} THEN "created" ELSE TargetStatus(f[m])

(* A cleanup cycle is open before i when the last cleanup mark opened one. *)
CycleOpen(f, i) ==
  \E j \in Before(f, i, {"cleanup.started"}) :
    \A k \in Before(f, i, {"cleanup.completed"}) : k < j

(* The terminal cleanup cycle is verified before i. *)
CycleVerified(f, i) ==
  /\ ~CycleOpen(f, i)
  /\ \E j \in Before(f, i, {"cleanup.completed"}) :
       /\ f[j].verified
       /\ \A k \in Before(f, i, {"cleanup.completed"}) : k <= j

ContiguousFromZero(f) == \A i \in DOMAIN f : f[i].seq = i - 1
CreatedFirst(f) == f # <<>> /\ f[1].kind = "session.created"
StartBindsRun(f) ==
  /\ Cardinality(Pos(f, {"session.started"})) <= 1
  /\ \A i \in DOMAIN f :
       f[i].bound <=> \E j \in Pos(f, {"session.started"}) : j <= i
LegalTransitions(f) ==
  \A i \in Pos(f, StatusMarks) : TargetStatus(f[i]) \in NextStatuses[StatusBefore(f, i)]
OneCancelRequest(f) == Cardinality(Pos(f, {"session.cancel_requested"})) <= 1
CleanupCycles(f) ==
  /\ \A i \in Pos(f, {"cleanup.started", "cleanup.not_required"}) : ~CycleOpen(f, i)
  /\ \A i \in Pos(f, {"cleanup.completed"}) : CycleOpen(f, i)
TerminalLast(f) == Pos(f, TerminalKinds) = {Len(f)}
TerminalCleanup(f) ==
  \A i \in Pos(f, TerminalKinds) :
    /\ f[i].kind = "session.completed" => CycleVerified(f, i)
    /\ f[i].kind = "session.cancelled" /\ Before(f, i, {"session.started"}) # {}
         => CycleVerified(f, i)
    /\ f[i].status = "cleanup_failed" =>
         Before(f, i, {"cleanup.started"}) # {} /\ ~CycleVerified(f, i)

Contract(f) ==
  /\ CreatedFirst(f) /\ ContiguousFromZero(f) /\ StartBindsRun(f) /\ LegalTransitions(f)
  /\ OneCancelRequest(f) /\ CleanupCycles(f) /\ TerminalLast(f) /\ TerminalCleanup(f)

(* The scan of validate_session_event_stream accepts exactly the streams   *)
(* that satisfy every rule its documentation states.                       *)
ValidatorMeetsContract == ValidStream(stream) <=> Contract(stream)

(* However a crash cuts a journal that would have been complete -- after   *)
(* any record, or between two characters of one -- the reader reports it   *)
(* as interrupted: not as malformed, and never as complete.                *)
CutJournalIsInterrupted ==
  ValidStream(stream) =>
    \A n \in 0..(Len(stream) - 1), torn \in {"no", "tail"} :
      ReadState(TRUE, SubSeq(stream, 1, n), torn) = "interrupted"

(* A complete journal with at most one cleanup cycle, begun only after     *)
(* session.started, always yields a SessionResult that construction        *)
(* accepts; the supervisor then never needs its "derivation failed"        *)
(* fallback, which would report a recorded terminal as INTERRUPTED.        *)
CompleteJournalHasResult ==
  /\ ValidStream(stream)
  /\ Cardinality(Pos(stream, {"cleanup.started"})) <= 1
  /\ \A i \in Pos(stream, {"cleanup.started"}) :
       Before(stream, i, {"session.started"}) # {}
  => ValidResult(ResultOf(stream))
=============================================================================
