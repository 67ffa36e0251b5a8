-------------------------- MODULE SessionVerdict ---------------------------
(***************************************************************************)
(* What the worker boundary promises about one session, with no worker,    *)
(* pipe or thread in it: a durable outcome that is recorded at most once,  *)
(* and a verdict that is given at most once and never contradicts it.      *)
(* A verdict other than the recorded outcome may only be "failed" (the     *)
(* session could not be started, or its journal could not be trusted) or,  *)
(* when nothing was recorded and nothing ever will be, "interrupted".      *)
(***************************************************************************)
CONSTANT Outcomes       \* the terminal statuses of a session

VARIABLES recorded,     \* the outcome a complete journal shows, or "none"
          verdict       \* the status the supervisor reported, or "none"

Init == recorded = "none" /\ verdict = "none"

Record ==
  /\ recorded = "none" /\ verdict \in {"none", "failed"}
  /\ recorded' \in Outcomes
  /\ UNCHANGED verdict

Report ==
  /\ verdict = "none" /\ recorded \in Outcomes
  /\ verdict' = recorded
  /\ UNCHANGED recorded

GiveUp ==
  /\ verdict = "none"
  /\ \/ verdict' = "failed"
     \/ verdict' = "interrupted" /\ recorded = "none"
  /\ UNCHANGED recorded

Next == Record \/ Report \/ GiveUp

Spec == Init /\ [][Next]_<<recorded, verdict>>
=============================================================================
