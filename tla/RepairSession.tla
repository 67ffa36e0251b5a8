--------------------------- MODULE RepairSession ---------------------------
(***************************************************************************)
(* One repair run of a Local Project session: the controller loop           *)
(* (agent/controller.py), the pipeline that follows a patch without asking  *)
(* the model (agent/controller_post_patch.py), the tools that change what    *)
(* the session knows (application/local_project_tools.py), and what the     *)
(* source does with the run when it is over (local_project_source.py).      *)
(*                                                                         *)
(* The workspace is PatchStore, which Patcher implements.  The model may    *)
(* answer anything, the commands may come out any way, the user may cancel  *)
(* at any moment.  Four things have to agree all the time: the tree, what    *)
(* the tools remember of it (the candidate and the evidence), what the      *)
(* journal tells of the patch attempts, and where the controller stands.    *)
(***************************************************************************)
EXTENDS PatchStore, Integers, Sequences

CONSTANTS
  PatchBudget,   \* max_patch_attempts
  TestBudget,    \* max_test_runs
  MaxRevisions   \* _MAX_COMMAND_REVISIONS

ASSUME LimitsAssumption == PatchBudget \in Nat /\ TestBudget \in Nat /\ MaxRevisions \in Nat

VARIABLES
  phase,         \* ControllerState
  pc,            \* where the run is
  stage,         \* the step of the pipeline that is next or running, or none
  tool,          \* the tool whose handler runs, or none
  proposal,      \* the patch of the last APPLY_PATCH
  used,          \* budget_state
  candidate,     \* candidate_patch, which patch_applied goes with
  evidence,      \* post_patch_f2p_passed and regression_passed, and of what
  revisions,     \* repro_revisions and verify_revisions
  attempts,      \* the patch attempts as the journal reduces to them
  stop,          \* the stop reason of the run
  cancelled,     \* the token
  disposition    \* what the source returns

sessionVars == <<phase, pc, stage, tool, proposal, used, candidate, evidence, revisions,
                 attempts, stop, cancelled, disposition>>
vars == <<storeVars, sessionVars>>

Phases == {"reproduce", "understand", "runtime_evidence", "patch", "validate", "done", "failed"}

(* TRANSITION_GRAPH.                                                       *)
Transitions ==
  [reproduce        |-> {"understand", "failed"},
   understand       |-> {"understand", "runtime_evidence", "patch", "failed"},
   runtime_evidence |-> {"understand", "runtime_evidence", "patch", "failed"},
   patch            |-> {"patch", "understand", "validate", "failed"},
   validate         |-> {"done", "understand", "runtime_evidence", "patch", "failed"},
   done             |-> {},
   failed           |-> {}]

(* The tools that change the session, where they are allowed, and what     *)
(* they cost.  All others only look.                                       *)
Tools == {"apply", "revert", "syntax", "reproduction", "regression", "classify", "revise"}
AllowedTools ==
  [p \in Phases |->
     CASE p = "reproduce" -> {"reproduction", "revise"}
       [] p = "patch"     -> {"apply", "syntax", "revert"}
       [] p = "validate"  -> {"reproduction", "regression", "classify", "revert", "revise"}
       [] OTHER           -> {}]

BudgetKinds == {"patches", "tests"}
Limit == [patches |-> PatchBudget, tests |-> TestBudget]
BudgetOf(t) == CASE t = "apply" -> {"patches"}
                 [] t \in {"reproduction", "regression"} -> {"tests"}
                 [] OTHER -> {}
Affordable(t) == \A k \in BudgetOf(t) : used[k] < Limit[k]

(* The pipeline: tools and transitions in this order.                      *)
NextStage  == [syntax |-> "advance", advance |-> "reproduce", reproduce |-> "regress",
               regress |-> "classify", classify |-> "complete"]
StageTool  == [syntax |-> "syntax", reproduce |-> "reproduction", regress |-> "regression",
               classify |-> "classify"]
Stages     == DOMAIN NextStage \cup {"complete"}

(* A test result, with the tree and the revision of the command it is of.  *)
Checks == {"f2p", "p2p"}
Result(passed, t, r) == [passed |-> passed, tree |-> t, revision |-> r]
NoResult == Result(FALSE, NoPatch, -1)
NoEvidence == [c \in Checks |-> NoResult]
Resolved == \A c \in Checks : evidence[c].passed

Attempt(outcome, p) == [outcome |-> outcome, patch |-> p]
Outcomes == {"proposed", "rejected", "apply_failed", "applied", "reverted"}

Over == {"raised", "cancelled", "ended"}

TypeOK ==
  /\ StoreTypeOK
  /\ phase \in Phases /\ stage \in Stages \cup {"none"}
  /\ pc \in {"loop", "model", "tool", "applying", "pipeline", "returned", "verify"} \cup Over
  /\ tool \in Tools \cup {"none"} /\ proposal \in Patches \cup {NoPatch}
  /\ used \in [BudgetKinds -> Nat] /\ \A k \in BudgetKinds : used[k] <= Limit[k]
  /\ candidate \in Patches \cup {NoPatch}
  /\ evidence \in [Checks -> [passed : BOOLEAN, tree : Patches \cup {NoPatch, Damaged},
                              revision : -1..MaxRevisions]]
  /\ revisions \in [Checks -> 0..MaxRevisions]
  /\ attempts \in Seq([outcome : Outcomes, patch : Patches]) /\ Len(attempts) <= PatchBudget
  /\ stop \in {"none", "done", "failed", "transport"} /\ cancelled \in BOOLEAN
  /\ disposition \in {"none", "FIXED", "UNRESOLVED"}

Init ==
  /\ StoreInit
  /\ phase \in {"reproduce", "understand"}   \* with and without a command
  /\ pc = "loop" /\ stage = "none" /\ tool = "none" /\ proposal = NoPatch
  /\ used = [k \in BudgetKinds |-> 0]
  /\ candidate = NoPatch /\ evidence = NoEvidence /\ revisions = [c \in Checks |-> 0]
  /\ attempts = <<>> /\ stop = "none" /\ cancelled = FALSE /\ disposition = "none"

----------------------------------------------------------------------------
(* The loop.                                                               *)

known == <<storeVars, candidate, evidence, revisions, attempts>>  \* what tools change
inputs == <<cancelled, disposition>>

(* Mutant: nobody looks at the token.                                      *)
NeverAsked == TRUE

(* _check_cancelled passes.                                                *)
NotCancelled == ~cancelled

Returns(reason) ==
  /\ pc' = "returned" /\ stop' = reason /\ stage' = "none" /\ tool' = "none"
  /\ phase' = IF reason = "done" THEN "done" ELSE "failed"

Requests ==
  /\ pc = "loop" /\ NotCancelled
  /\ pc' = "model"
  /\ UNCHANGED <<known, phase, stage, tool, proposal, used, stop, inputs>>

(* The request fails, by its transport or by what it answers: no check of  *)
(* the token comes first.                                                  *)
ModelFails ==
  /\ pc = "model"
  /\ \E reason \in {"failed", "transport"} : Returns(reason)
  /\ UNCHANGED <<known, proposal, used, inputs>>

(* A tool or a transition that the phase does not allow.                   *)
Rejects ==
  /\ pc = "model" /\ NotCancelled
  /\ Returns("failed")
  /\ UNCHANGED <<known, proposal, used, inputs>>

(* A tool that only looks, a hypothesis, or arguments that never reach a   *)
(* handler.                                                                *)
Looks ==
  /\ pc = "model" /\ NotCancelled
  /\ pc' = "loop"
  /\ UNCHANGED <<known, phase, stage, tool, proposal, used, stop, inputs>>

Moves(target) ==
  /\ pc = "model" /\ NotCancelled /\ target \in Transitions[phase]
  /\ IF target \in {"done", "failed"}
       THEN Returns(target)
       ELSE /\ phase' = target /\ pc' = "loop"
            /\ UNCHANGED <<stage, tool, stop>>
  /\ UNCHANGED <<known, proposal, used, inputs>>

(* Dispatch, by the loop and by the pipeline alike.                        *)
Dispatches(t) ==
  IF Affordable(t)
    THEN /\ pc' = "tool" /\ tool' = t
         /\ UNCHANGED <<phase, stage, stop>>
    ELSE Returns("failed")

Acts(t, p) ==
  /\ pc = "model" /\ NotCancelled /\ t \in AllowedTools[phase]
  /\ Dispatches(t)
  /\ proposal' = IF t = "apply" THEN p ELSE proposal
  /\ UNCHANGED <<known, used, inputs>>

----------------------------------------------------------------------------
(* The pipeline after a patch.                                             *)

(* Mutant: the pipeline does not look at the token before a tool.          *)
PipelineActsAnyway ==
  /\ pc = "pipeline" /\ stage \in DOMAIN StageTool
  /\ Dispatches(StageTool[stage])
  /\ UNCHANGED <<known, proposal, used, inputs>>

PipelineActs ==
  /\ pc = "pipeline" /\ stage \in DOMAIN StageTool /\ NotCancelled
  /\ Dispatches(StageTool[stage])
  /\ UNCHANGED <<known, proposal, used, inputs>>

Advances ==
  /\ pc = "pipeline" /\ stage = "advance" /\ NotCancelled
  /\ phase' = "validate" /\ stage' = NextStage[stage]
  /\ UNCHANGED <<known, pc, tool, proposal, used, stop, inputs>>

Completes ==
  /\ pc = "pipeline" /\ stage = "complete" /\ NotCancelled
  /\ Returns("done")
  /\ UNCHANGED <<known, proposal, used, inputs>>

----------------------------------------------------------------------------
(* The handlers.                                                           *)

Running(t) == pc = "tool" /\ tool = t

(* What the loop and the pipeline make of an observation: the budget, then *)
(* a fatal failure ends the run, a good result lets the pipeline go on,    *)
(* and anything else is for the model.                                     *)
Observes(result) ==
  /\ used' = [k \in BudgetKinds |-> used[k] + IF k \in BudgetOf(tool) THEN 1 ELSE 0]
  /\ IF result = "fatal" THEN Returns("failed")
     ELSE /\ IF result = "ok" /\ stage # "none"
               THEN pc' = "pipeline" /\ stage' = NextStage[stage]
               ELSE pc' = "loop" /\ stage' = "none"
          /\ tool' = "none"
          /\ UNCHANGED <<phase, stop>>
  /\ UNCHANGED <<proposal, inputs>>

(* The commands run in the workspace as it is.  In Reproduce a run is of   *)
(* the original and leaves no evidence; one that cannot be launched leaves *)
(* none either.                                                            *)
Runs(t, check) ==
  /\ Running(t)
  /\ \/ /\ phase = "validate"
        /\ \E passed \in BOOLEAN :
             evidence' = [evidence EXCEPT ![check] = Result(passed, tree, revisions[check])]
        /\ Observes("ok")
     \/ evidence' = evidence /\ Observes(IF phase = "reproduce" THEN "ok" ELSE "abort")
  /\ UNCHANGED <<storeVars, candidate, revisions, attempts>>

(* Mutant: any classification lets the pipeline complete.                  *)
ClassifiesAny ==
  /\ Running("classify") /\ Observes("ok")
  /\ UNCHANGED known

(* Only RESOLVED lets the pipeline complete; incomplete evidence is an     *)
(* error.                                                                  *)
Classifies ==
  /\ Running("classify")
  /\ Observes(IF Resolved THEN "ok" ELSE "abort")
  /\ UNCHANGED known

(* The files of the active patch compile, or do not, or cannot be read.    *)
ChecksSyntax ==
  /\ Running("syntax")
  /\ \E result \in IF active = NoPatch THEN {"fatal"} ELSE {"ok", "abort", "fatal"} : Observes(result)
  /\ UNCHANGED known

(* Mutant: the evidence of before stays.                                   *)
ClearsNothing == evidence' = evidence

(* clear_validation_evidence.                                              *)
Clears == evidence' = NoEvidence

Revises(check) ==
  /\ Running("revise")
  /\ \/ /\ revisions[check] < MaxRevisions
        /\ revisions' = [revisions EXCEPT ![check] = @ + 1]
        /\ Clears
     \/ UNCHANGED <<revisions, evidence>>
  /\ Observes("ok")
  /\ UNCHANGED <<storeVars, candidate, attempts>>

(* The journal: _upsert_patch_attempt, of the latest attempt.              *)
Marked(outcome)  == [attempts EXCEPT ![Len(attempts)] = Attempt(outcome, @.patch)]
Records(outcome) == attempts' = Marked(outcome)

(* A failed operation of the patch manager: the tree is as it was, or what *)
(* was written of it could not be undone.                                  *)
LeavesTree == UNCHANGED storeVars \/ Breaks

(* Mutant: a revert on the model's own request is not put on record.       *)
RevertSucceedsUnrecorded ==
  /\ Running("revert") /\ Reverts
  /\ Clears /\ candidate' = NoPatch
  /\ Observes("ok")
  /\ UNCHANGED <<revisions, attempts>>

RevertSucceeds ==
  /\ Running("revert") /\ Reverts
  /\ Records("reverted") /\ Clears /\ candidate' = NoPatch
  /\ Observes("ok")
  /\ UNCHANGED revisions

(* Also when there is nothing to revert.                                   *)
RevertFails ==
  /\ Running("revert")
  /\ IF active = NoPatch THEN UNCHANGED storeVars ELSE LeavesTree
  /\ Observes("fatal")
  /\ UNCHANGED <<candidate, evidence, revisions, attempts>>

(* handle_apply_patch, in the order of its two changes of the tree.        *)
Duplicate ==
  /\ Running("apply") /\ active # NoPatch /\ candidate = proposal
  /\ Clears /\ Observes("abort")
  /\ UNCHANGED <<storeVars, candidate, revisions, attempts>>

AutoReverts ==
  /\ Running("apply") /\ candidate # proposal /\ Reverts
  /\ attempts' = Append(Marked("reverted"), Attempt("proposed", proposal))
  /\ Clears /\ pc' = "applying"
  /\ UNCHANGED <<candidate, revisions, phase, stage, tool, proposal, used, stop, inputs>>

AutoRevertFails ==
  /\ Running("apply") /\ active # NoPatch /\ candidate # proposal
  /\ LeavesTree
  /\ attempts' = Append(attempts, Attempt("apply_failed", proposal))
  /\ Clears /\ Observes("fatal")
  /\ UNCHANGED <<candidate, revisions>>

Proposes ==
  /\ Running("apply") /\ active = NoPatch
  /\ attempts' = Append(attempts, Attempt("proposed", proposal))
  /\ Clears /\ pc' = "applying"
  /\ UNCHANGED <<storeVars, candidate, revisions, phase, stage, tool, proposal, used, stop, inputs>>

ApplySucceeds ==
  /\ pc = "applying" /\ Applies(proposal)
  /\ Records("applied") /\ candidate' = proposal
  /\ used' = [used EXCEPT !["patches"] = @ + 1]
  /\ pc' = "pipeline" /\ stage' = "syntax" /\ tool' = "none"
  /\ UNCHANGED <<evidence, revisions, phase, proposal, stop, inputs>>

(* A diff that is malformed or does not fit the source can be corrected by *)
(* the model; one that is not authorised ends the run.                     *)
ApplyRefused ==
  /\ pc = "applying"
  /\ \E outcome \in {"rejected", "apply_failed"} : Records(outcome)
  /\ \E result \in {"abort", "fatal"} : Observes(result)
  /\ UNCHANGED <<storeVars, candidate, evidence, revisions>>

ApplyFails ==
  /\ pc = "applying"
  /\ LeavesTree /\ Records("apply_failed")
  /\ Observes("fatal")
  /\ UNCHANGED <<candidate, evidence, revisions>>

----------------------------------------------------------------------------
(* After the run.                                                          *)

Ends(point) ==
  /\ pc' = point
  /\ UNCHANGED <<known, phase, stage, tool, proposal, used, stop, cancelled>>

(* A run that did not complete is an operational failure, unless it left a *)
(* candidate; one without any is unresolved.                               *)
Concludes ==
  /\ pc = "returned" /\ NotCancelled
  /\ \/ stop # "done" /\ (stop = "transport" \/ candidate = NoPatch)
        /\ Ends("raised") /\ UNCHANGED disposition
     \/ (stop = "done" \/ stop = "failed") /\ candidate # NoPatch
        /\ Ends("verify") /\ UNCHANGED disposition
     \/ stop = "done" /\ candidate = NoPatch
        /\ Ends("ended") /\ disposition' = "UNRESOLVED"

(* The independent verifier, on a clone of its own, of the candidate.      *)
Verifies ==
  /\ pc = "verify" /\ NotCancelled
  /\ Ends("ended") /\ disposition' \in {"FIXED", "UNRESOLVED"}

(* CancellationError, from a check of the loop, the transport, the         *)
(* pipeline, the verifier or the source.  One that comes out of the         *)
(* controller is an exception like any other to the source, which makes    *)
(* "controller failed" of it; only the later ones leave as what they are.  *)
Aborts ==
  /\ cancelled
  /\ \/ pc \in {"loop", "model", "pipeline"} /\ Ends("raised")
     \/ pc \in {"returned", "verify"} /\ Ends("cancelled")
  /\ UNCHANGED disposition

Cancel ==
  /\ ~cancelled /\ pc \notin Over
  /\ cancelled' = TRUE
  /\ UNCHANGED <<storeVars, phase, pc, stage, tool, proposal, used, candidate, evidence,
                 revisions, attempts, stop, disposition>>

ModelStep ==
  \/ ModelFails \/ Rejects \/ Looks
  \/ \E target \in Phases : Moves(target)
  \/ \E t \in Tools, p \in Patches : Acts(t, p)

HandlerStep ==
  \/ Runs("reproduction", "f2p") \/ Runs("regression", "p2p")
  \/ Classifies \/ ChecksSyntax \/ (\E c \in Checks : Revises(c))
  \/ RevertSucceeds \/ RevertFails
  \/ Duplicate \/ AutoReverts \/ AutoRevertFails \/ Proposes
  \/ ApplySucceeds \/ ApplyRefused \/ ApplyFails

RunStep ==
  \/ Requests \/ ModelStep \/ HandlerStep
  \/ PipelineActs \/ Advances \/ Completes
  \/ Concludes \/ Verifies \/ Aborts

Next == RunStep \/ Cancel

Spec     == Init /\ [][Next]_vars
FairSpec == Spec /\ WF_vars(RunStep)

----------------------------------------------------------------------------
(* active_candidate_attempt: the latest attempt that is applied, unless it *)
(* was reverted.                                                           *)
ActiveCandidate ==
  LET applied == {i \in 1..Len(attempts) : attempts[i].outcome = "applied"}
  IN  IF applied = {} THEN NoPatch
      ELSE attempts[CHOOSE i \in applied : \A j \in applied : j <= i].patch

(* Evidence is of the tree that is there and of the command that would run *)
(* now: no patch, revert or revision leaves an older result for a          *)
(* classification to use.                                                  *)
EvidenceIsCurrent ==
  phase # "failed" =>
    \A c \in Checks : evidence[c] # NoResult
       => evidence[c].tree = tree /\ evidence[c].revision = revisions[c]

(* The pipeline completes a run only for the patch that is in the tree and *)
(* is the candidate, after both commands passed on just that tree.         *)
PipelineCompletesResolved ==
  stage = "complete" =>
    /\ candidate # NoPatch /\ candidate = active /\ tree = active
    /\ \A c \in Checks : evidence[c] = Result(TRUE, candidate, revisions[c])

(* Between two tools the journal's active candidate is the patch that the  *)
(* patch manager would revert, after any history of attempts.              *)
JournalMatchesStore == tool = "none" => ActiveCandidate = active

(* A tree that could not be cleaned up is never worked on again.           *)
DamageEndsTheRun == tree = Damaged => phase = "failed"

(* Once cancelled, a run starts no tool, and nothing changes but by the    *)
(* handler that was already running.                                       *)
CancelIsFinal ==
  [][cancelled /\ tool = "none"
       => tool' = "none" /\ phase' \in {phase, "failed"} /\ UNCHANGED <<known, used, disposition>>]_vars

(* A cancelled run ends, although one that is not has no bound on how      *)
(* often it asks the model.                                                *)
CancelEndsRun == cancelled ~> pc \in Over

----------------------------------------------------------------------------
(* What local_project_source.py:326 says it retains is an active candidate. *)
RetainedCandidateIsActive == pc = "verify" => candidate = active

(* What cancellation.py:50 says of its error: it never becomes an ordinary *)
(* failure.                                                                *)
CancelledRunIsCancelled == cancelled /\ pc \in Over => pc = "cancelled"
=============================================================================
