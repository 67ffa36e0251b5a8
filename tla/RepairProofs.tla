---------------------------- MODULE RepairProofs ---------------------------
(***************************************************************************)
(* Theorems of RepairSession, for any patches, budgets, revisions, answers  *)
(* of the model and results of the commands.                                *)
(*                                                                         *)
(* What the four records of the session say of each other is not inductive  *)
(* by itself.  Control says where the loop can be and what the tool that    *)
(* runs was dispatched for, Store how the tree and the candidate follow the *)
(* active patch, Pipeline what a stage relies on, and Journal which attempt *)
(* is the applied one.                                                      *)
(***************************************************************************)
EXTENDS RepairSession, SequenceTheorems, TLAPS

Control ==
  /\ (tool # "none") <=> (pc \in {"tool", "applying"})
  /\ stage # "none" => pc \in {"pipeline", "tool", "raised"} /\ phase \notin {"done", "failed"}
  /\ pc = "pipeline" => stage # "none"
  /\ pc = "tool" /\ stage # "none" => stage \in DOMAIN StageTool /\ tool = StageTool[stage]
  /\ pc = "applying" => tool = "apply"
  /\ pc \in {"tool", "applying"} => Affordable(tool)
  /\ tool = "apply" => proposal # NoPatch
  /\ phase \in {"done", "failed"} => pc \in {"returned", "verify"} \cup Over

Store ==
  /\ pc = "applying" => active = NoPatch /\ evidence = NoEvidence
  /\ active # NoPatch => candidate = active
  /\ tree = active \/ (tree = Damaged /\ phase = "failed")

Pipeline ==
  /\ stage # "none" => active # NoPatch
  /\ stage = "complete" => Resolved

Applied(i) == attempts[i].outcome = "applied"

Journal ==
  /\ active = NoPatch => \A i \in 1..Len(attempts) : ~Applied(i)
  /\ active # NoPatch =>
       \E k \in 1..Len(attempts) :
         /\ Applied(k) /\ attempts[k].patch = active
         /\ \A i \in 1..Len(attempts) : Applied(i) => i = k
         /\ phase # "failed" => k = Len(attempts)
  /\ pc = "applying" => Len(attempts) > 0 /\ attempts[Len(attempts)].patch = proposal
  /\ Len(attempts) <= used["patches"] + (IF pc = "applying" THEN 1 ELSE 0)

IInv == TypeOK /\ Control /\ Store /\ Pipeline /\ EvidenceIsCurrent /\ Journal

USE StoreAssumption, LimitsAssumption

(* The steps that leave alone what the tools change.                       *)
ControlStep ==
  \/ Requests \/ ModelStep \/ PipelineActs \/ Advances \/ Completes
  \/ Concludes \/ Verifies \/ Aborts \/ Cancel

----------------------------------------------------------------------------
(* The initial states.                                                     *)
LEMMA InitIInv == Init => IInv
<1> SUFFICES ASSUME Init PROVE IInv
  OBVIOUS
<1>1. NoEvidence \in [Checks -> [passed : BOOLEAN, tree : Patches \cup {NoPatch, Damaged},
                                 revision : -1..MaxRevisions]]
  BY DEF NoEvidence, NoResult, Result
<1>2. TypeOK
  <2>1. used \in [BudgetKinds -> Nat] /\ \A k \in BudgetKinds : used[k] <= Limit[k]
    BY DEF Init, Limit, BudgetKinds
  <2>2. evidence \in [Checks -> [passed : BOOLEAN, tree : Patches \cup {NoPatch, Damaged},
                                revision : -1..MaxRevisions]]
    BY <1>1 DEF Init
  <2>3. attempts \in Seq([outcome : Outcomes, patch : Patches]) /\ Len(attempts) <= PatchBudget
    BY DEF Init
  <2>4. revisions \in [Checks -> 0..MaxRevisions]
    BY DEF Init
  <2>5. /\ StoreTypeOK /\ phase \in Phases /\ pc = "loop" /\ stage = "none" /\ tool = "none"
        /\ proposal = NoPatch /\ candidate = NoPatch /\ stop = "none"
        /\ cancelled = FALSE /\ disposition = "none"
    BY DEF Init, StoreInit, StoreTypeOK, Phases
  <2> QED BY <2>1, <2>2, <2>3, <2>4, <2>5 DEF TypeOK
<1>3. Control /\ Store /\ Pipeline
  BY DEF Init, StoreInit, Control, Store, Pipeline
<1>4. EvidenceIsCurrent /\ Journal
  BY DEF Init, StoreInit, EvidenceIsCurrent, Journal, NoEvidence, BudgetKinds
<1> QED BY <1>2, <1>3, <1>4 DEF IInv

(* The loop, the pipeline and what comes after the run.                    *)
LEMMA ControlIInv == ASSUME IInv, ControlStep PROVE IInv'
<1> USE DEF IInv, inputs, known, storeVars
<1>1. CASE Requests
  BY <1>1 DEF Requests, TypeOK, StoreTypeOK, Control, Store, Pipeline, EvidenceIsCurrent, Journal, Applied, Over, Resolved, Affordable
<1>2. ASSUME NEW reason \in {"done", "failed", "transport"}, Returns(reason), pc \in {"model", "pipeline"},
             UNCHANGED <<known, proposal, used, inputs>>
      PROVE  IInv'
  <2>1. phase \in Phases /\ phase # "failed" /\ phase' \in {"done", "failed"} /\ tool = "none" /\ tool' = "none"
        /\ stage' = "none" /\ pc' = "returned" /\ stop' \in {"done", "failed", "transport"}
    BY <1>2 DEF Returns, TypeOK, Control, Over
  <2>2. TypeOK' /\ Control'
    BY <1>2, <2>1 DEF TypeOK, StoreTypeOK, Control, Over, Phases
  <2>3. Store' /\ Pipeline' /\ EvidenceIsCurrent'
    BY <1>2, <2>1 DEF Store, Pipeline, EvidenceIsCurrent
  <2>4. Journal'
    BY <1>2, <2>1 DEF Journal, Applied
  <2> QED BY <2>2, <2>3, <2>4
<1>11. CASE ModelFails \/ Rejects \/ Completes
  BY <1>2, <1>11 DEF ModelFails, Rejects, Completes
<1>3. CASE Looks
  BY <1>3 DEF Looks, TypeOK, StoreTypeOK, Control, Store, Pipeline, EvidenceIsCurrent, Journal, Applied, Over, Resolved, Affordable
<1>4. ASSUME NEW target \in Phases, Moves(target) PROVE IInv'
  BY <1>4 DEF Moves, Returns, TypeOK, StoreTypeOK, Control, Store, Pipeline, EvidenceIsCurrent, Journal, Applied, Over, Resolved, Affordable, Phases
<1>5. ASSUME NEW t \in Tools, NEW p \in Patches, Acts(t, p) PROVE IInv'
  BY <1>5 DEF Acts, Dispatches, Returns, TypeOK, StoreTypeOK, Control, Store, Pipeline, EvidenceIsCurrent, Journal, Applied, Over, Resolved, Affordable, Phases, Tools
<1>6. CASE PipelineActs
  BY <1>6 DEF PipelineActs, Dispatches, Returns, TypeOK, StoreTypeOK, Control, Store, Pipeline, EvidenceIsCurrent, Journal, Applied, Over, Resolved, Affordable, Phases, Tools, StageTool
<1>7. CASE Advances
  BY <1>7 DEF Advances, NextStage, TypeOK, StoreTypeOK, Control, Store, Pipeline, EvidenceIsCurrent, Journal, Applied, Over, Resolved, Affordable, Phases, Stages
<1>8. ASSUME NEW point \in {"raised", "ended", "verify", "cancelled"}, Ends(point),
             disposition' \in {"none", "FIXED", "UNRESOLVED"},
             point = "raised" \/ pc \in {"returned", "verify"},
             pc \in {"loop", "model", "pipeline", "returned", "verify"}
      PROVE  IInv'
  BY <1>8 DEF Ends, TypeOK, StoreTypeOK, Control, Store, Pipeline, EvidenceIsCurrent, Journal,
              Applied, Over, Resolved, Affordable
<1>10. CASE Concludes \/ Verifies \/ Aborts
  <2>1. CASE Concludes
    BY <1>8, <2>1 DEF Concludes, TypeOK
  <2>2. CASE Verifies
    BY <1>8, <2>2 DEF Verifies
  <2>3. CASE Aborts
    BY <1>8, <2>3 DEF Aborts, TypeOK
  <2> QED BY <1>10, <2>1, <2>2, <2>3
<1>9. CASE Cancel
  BY <1>9 DEF Cancel, TypeOK, StoreTypeOK, Control, Store, Pipeline, EvidenceIsCurrent, Journal, Applied, Over, Resolved, Affordable
<1> QED BY <1>1, <1>3, <1>4, <1>5, <1>6, <1>7, <1>9, <1>10, <1>11 DEF ControlStep, ModelStep

----------------------------------------------------------------------------
(* What an observation does to the loop and to the budget.                 *)
LEMMA Observed ==
  ASSUME IInv, pc \in {"tool", "applying"},
         NEW result \in {"ok", "abort", "fatal"}, Observes(result)
  PROVE  /\ used' \in [BudgetKinds -> Nat] /\ \A k \in BudgetKinds : used'[k] <= Limit[k]
         /\ used'["patches"] = used["patches"] + IF tool = "apply" THEN 1 ELSE 0
         /\ tool' = "none" /\ stop' \in {"none", "done", "failed", "transport"}
         /\ proposal' = proposal /\ cancelled' = cancelled /\ disposition' = disposition
         /\ \/ result = "fatal" /\ pc' = "returned" /\ stage' = "none" /\ phase' = "failed"
            \/ /\ result = "ok" /\ stage # "none" /\ pc' = "pipeline"
               /\ stage \in DOMAIN StageTool /\ tool = StageTool[stage]
               /\ stage' = NextStage[stage] /\ phase' = phase
            \/ /\ result # "fatal" /\ pc' = "loop" /\ stage' = "none" /\ phase' = phase
<1>1. \A k \in BudgetKinds :
        IF k \in BudgetOf(tool) THEN used'[k] = used[k] + 1 /\ used[k] < Limit[k]
                               ELSE used'[k] = used[k]
  <2>1. \A k \in BudgetKinds : used[k] \in Nat
    BY DEF IInv, TypeOK
  <2>2. \A k \in BudgetKinds : used'[k] = used[k] + IF k \in BudgetOf(tool) THEN 1 ELSE 0
    BY DEF Observes
  <2>3. \A k \in BudgetOf(tool) : used[k] < Limit[k]
    BY DEF IInv, Control, Affordable
  <2> QED BY <2>1, <2>2, <2>3
<1>2. used' \in [BudgetKinds -> Nat]
  <2>1. \A k \in BudgetKinds : used[k] + (IF k \in BudgetOf(tool) THEN 1 ELSE 0) \in Nat
    BY DEF IInv, TypeOK
  <2> QED BY <2>1 DEF Observes
<1>3. \A k \in BudgetKinds : used[k] \in Nat /\ Limit[k] \in Nat /\ used[k] <= Limit[k]
  BY DEF IInv, TypeOK, Limit, BudgetKinds
<1>4. \A k \in BudgetKinds : used'[k] <= Limit[k]
  <2> TAKE k \in BudgetKinds
  <2>0. used[k] \in Nat /\ Limit[k] \in Nat /\ used[k] <= Limit[k]
    BY <1>3
  <2>1. CASE k \in BudgetOf(tool)
    <3>1. used'[k] = used[k] + 1 /\ used[k] < Limit[k]
      BY <1>1, <2>1
    <3> QED BY <2>0, <3>1
  <2>2. CASE k \notin BudgetOf(tool)
    BY <1>1, <1>3, <2>2
  <2> QED BY <2>1, <2>2
<1>5. used'["patches"] = used["patches"] + IF tool = "apply" THEN 1 ELSE 0
  <2>1. "patches" \in BudgetKinds /\ used["patches"] \in Nat
    BY <1>3 DEF BudgetKinds
  <2>2. "patches" \in BudgetOf(tool) <=> tool = "apply"
    BY DEF BudgetOf
  <2>3. CASE tool = "apply"
    <3>1. used'["patches"] = used["patches"] + 1
      BY <1>1, <2>1, <2>2, <2>3
    <3> QED BY <2>3, <3>1
  <2>4. CASE tool # "apply"
    <3>1. used'["patches"] = used["patches"]
      BY <1>1, <2>1, <2>2, <2>4
    <3> QED BY <2>1, <2>4, <3>1
  <2> QED BY <2>3, <2>4
<1>6. stop' \in {"none", "done", "failed", "transport"} /\ tool' = "none"
      /\ proposal' = proposal /\ cancelled' = cancelled /\ disposition' = disposition
  BY DEF Observes, Returns, inputs, IInv, TypeOK
<1>7. pc = "applying" => stage = "none"
  BY DEF IInv, Control
<1>8. \/ result = "fatal" /\ pc' = "returned" /\ stage' = "none" /\ phase' = "failed"
      \/ /\ result = "ok" /\ stage # "none" /\ pc' = "pipeline"
         /\ stage \in DOMAIN StageTool /\ tool = StageTool[stage]
         /\ stage' = NextStage[stage] /\ phase' = phase
      \/ /\ result # "fatal" /\ pc' = "loop" /\ stage' = "none" /\ phase' = phase
  BY <1>7 DEF Observes, Returns, IInv, Control
<1> QED BY <1>2, <1>4, <1>5, <1>6, <1>8

(* After an observation the loop is where Control allows, provided that    *)
(* the pipeline goes on only when it may.                                  *)
LEMMA ObservedControl ==
  ASSUME IInv, pc \in {"tool", "applying"},
         NEW result \in {"ok", "abort", "fatal"}, Observes(result)
  PROVE  /\ Control'
         /\ phase' \in Phases /\ stage' \in Stages \cup {"none"}
         /\ pc' \in {"loop", "pipeline", "returned"}
         /\ phase' = "failed" <=> result = "fatal"
         /\ stage' = "complete" => tool = "classify" /\ result = "ok"
         /\ stage' # "none" => stage # "none" /\ tool \in {"syntax", "reproduction", "regression", "classify"}
<1>1. phase \notin {"done", "failed"} /\ phase \in Phases
  BY DEF IInv, Control, TypeOK, Over
<1>2. stage \in DOMAIN StageTool /\ tool = StageTool[stage]
        => /\ NextStage[stage] \in Stages /\ tool \in {"syntax", "reproduction", "regression", "classify"}
           /\ NextStage[stage] # "none"
           /\ NextStage[stage] = "complete" => tool = "classify"
  BY DEF StageTool, NextStage, Stages
<1> QED BY <1>1, <1>2, Observed DEF Control, Phases, Over, IInv

EvidenceType == [Checks -> [passed : BOOLEAN, tree : Patches \cup {NoPatch, Damaged},
                            revision : -1..MaxRevisions]]

LEMMA NoEvidenceType == NoEvidence \in EvidenceType
BY DEF NoEvidence, NoResult, Result, EvidenceType

(* A handler that leaves the tree, the candidate and the journal alone.    *)
LEMMA QuietIInv ==
  ASSUME IInv, pc = "tool", UNCHANGED <<storeVars, candidate, attempts>>,
         evidence' \in EvidenceType, revisions' \in [Checks -> 0..MaxRevisions],
         NEW result \in {"ok", "abort", "fatal"}, Observes(result),
         tool = "classify" /\ result = "ok" => Resolved /\ evidence' = evidence,
         phase' # "failed" =>
           \A c \in Checks : evidence'[c] # NoResult
              => evidence'[c].tree = tree /\ evidence'[c].revision = revisions'[c]
  PROVE  IInv'
<1> USE DEF storeVars
<1>1. TypeOK'
  BY Observed, ObservedControl DEF IInv, TypeOK, StoreTypeOK, EvidenceType
<1>2. Control' /\ Store'
  BY ObservedControl DEF IInv, Store, Control, Over
<1>3. Pipeline'
  BY ObservedControl DEF IInv, Pipeline, Resolved
<1>4. EvidenceIsCurrent'
  BY DEF EvidenceIsCurrent
<1>5. Journal'
  <2>1. used'["patches"] >= used["patches"] /\ pc' # "applying" /\ phase # "failed"
    BY Observed, ObservedControl DEF IInv, TypeOK, BudgetKinds, Control, Over
  <2>2. used["patches"] \in Nat /\ used'["patches"] \in Nat /\ Len(attempts) \in Nat
    BY Observed DEF IInv, TypeOK, BudgetKinds
  <2> QED BY <2>1, <2>2 DEF IInv, Journal, Applied
<1> QED BY <1>1, <1>2, <1>3, <1>4, <1>5 DEF IInv

LEMMA RunsIInv ==
  ASSUME IInv, NEW t \in {"reproduction", "regression"}, NEW check \in Checks, Runs(t, check)
  PROVE  IInv'
<1>1. pc = "tool" /\ tool = t /\ UNCHANGED <<storeVars, candidate, revisions, attempts>>
  BY DEF Runs, Running
<1>2. CASE evidence' = evidence
  <2>1. \E result \in {"ok", "abort", "fatal"} : Observes(result)
    BY DEF Runs
  <2>2. phase # "failed"
    BY <1>1 DEF IInv, Control, Over
  <2> QED BY <1>1, <1>2, <2>1, <2>2, QuietIInv
          DEF IInv, TypeOK, EvidenceType, EvidenceIsCurrent, storeVars
<1>3. ASSUME NEW passed \in BOOLEAN, Observes("ok"),
             evidence' = [evidence EXCEPT ![check] = Result(passed, tree, revisions[check])]
      PROVE  IInv'
  <2>1. phase # "failed"
    BY <1>1 DEF IInv, Control, Over
  <2>2. evidence' \in EvidenceType
    BY <1>3 DEF IInv, TypeOK, StoreTypeOK, EvidenceType, Result
  <2>3. \A c \in Checks : evidence'[c] # NoResult
          => evidence'[c].tree = tree /\ evidence'[c].revision = revisions[c]
    BY <1>3, <2>1 DEF IInv, TypeOK, EvidenceIsCurrent, Result
  <2> QED BY <1>1, <1>3, <2>2, <2>3, QuietIInv DEF IInv, TypeOK
<1> QED BY <1>2, <1>3 DEF Runs

LEMMA ClassifiesIInv == ASSUME IInv, Classifies PROVE IInv'
<1>1. pc = "tool" /\ UNCHANGED known /\ phase # "failed"
  BY DEF Classifies, Running, IInv, Control, Over
<1>2. PICK result \in {"ok", "abort"} : Observes(result) /\ (result = "ok" => Resolved)
  BY DEF Classifies
<1> QED BY <1>1, <1>2, QuietIInv
        DEF IInv, TypeOK, EvidenceType, EvidenceIsCurrent, known, storeVars

LEMMA SyntaxIInv == ASSUME IInv, ChecksSyntax PROVE IInv'
<1>1. pc = "tool" /\ tool = "syntax" /\ UNCHANGED known /\ phase # "failed"
  BY DEF ChecksSyntax, Running, IInv, Control, Over
<1>2. PICK result \in {"ok", "abort", "fatal"} : Observes(result)
  BY DEF ChecksSyntax
<1> QED BY <1>1, <1>2, QuietIInv
        DEF IInv, TypeOK, EvidenceType, EvidenceIsCurrent, known, storeVars

LEMMA RevisesIInv == ASSUME IInv, NEW check \in Checks, Revises(check) PROVE IInv'
<1>1. pc = "tool" /\ tool = "revise" /\ UNCHANGED <<storeVars, candidate, attempts>>
      /\ Observes("ok") /\ phase # "failed"
  BY DEF Revises, Running, IInv, Control, Over
<1>2. CASE UNCHANGED <<revisions, evidence>>
  BY <1>1, <1>2, QuietIInv DEF IInv, TypeOK, EvidenceType, EvidenceIsCurrent, storeVars
<1>3. CASE /\ revisions[check] < MaxRevisions
           /\ revisions' = [revisions EXCEPT ![check] = @ + 1] /\ Clears
  <2>1. revisions' \in [Checks -> 0..MaxRevisions]
    BY <1>3 DEF IInv, TypeOK
  <2>2. \A c \in Checks : evidence'[c] = NoResult
    BY <1>3 DEF Clears, NoEvidence
  <2> QED BY <1>1, <1>3, <2>1, <2>2, QuietIInv, NoEvidenceType DEF Clears
<1> QED BY <1>2, <1>3 DEF Revises

(* A sequence with another last element.                                   *)
LEMMA EditsLast ==
  ASSUME NEW S, NEW s \in Seq(S), Len(s) > 0, NEW e \in S
  PROVE  /\ s[Len(s)] \in S
         /\ [s EXCEPT ![Len(s)] = e] \in Seq(S)
         /\ Len([s EXCEPT ![Len(s)] = e]) = Len(s)
         /\ [s EXCEPT ![Len(s)] = e][Len(s)] = e
         /\ \A i \in 1..(Len(s) - 1) : [s EXCEPT ![Len(s)] = e][i] = s[i]
<1>1. Len(s) \in Nat /\ Len(s) \in 1..Len(s)
  BY LenProperties
<1> QED BY <1>1, ElementOfSeq, ExceptSeq

(* What the latest attempt becomes.                                        *)
AttemptType == [outcome : Outcomes, patch : Patches]

LEMMA MarksLast ==
  ASSUME IInv, Len(attempts) > 0, NEW outcome \in Outcomes
  PROVE  /\ Marked(outcome) \in Seq(AttemptType)
         /\ Len(Marked(outcome)) = Len(attempts)
         /\ Marked(outcome)[Len(attempts)].outcome = outcome
         /\ Marked(outcome)[Len(attempts)].patch = attempts[Len(attempts)].patch
         /\ \A i \in 1..(Len(attempts) - 1) : Marked(outcome)[i] = attempts[i]
<1> DEFINE last == Attempt(outcome, attempts[Len(attempts)].patch)
<1>1. attempts \in Seq(AttemptType)
  BY DEF IInv, TypeOK, AttemptType
<1>2. attempts[Len(attempts)] \in AttemptType
  BY <1>1, ElementOfSeq, LenProperties
<1>3. last \in AttemptType /\ last.outcome = outcome /\ last.patch = attempts[Len(attempts)].patch
  BY <1>2 DEF Attempt, AttemptType
<1>4. Marked(outcome) = [attempts EXCEPT ![Len(attempts)] = last]
  BY DEF Marked
<1> HIDE DEF last
<1> QED BY <1>1, <1>3, <1>4, EditsLast

(* A fatal observation: the run is over, and the tree may be damaged.      *)
LEMMA FatalIInv ==
  ASSUME IInv, pc \in {"tool", "applying"}, Observes("fatal"), LeavesTree,
         UNCHANGED <<candidate, revisions>>, evidence' \in EvidenceType,
         attempts' \in Seq(AttemptType), Len(attempts') \in Nat,
         Len(attempts') <= used["patches"] + (IF tool = "apply" THEN 1 ELSE 0),
         active = NoPatch => \A i \in 1..Len(attempts') : ~Applied(i)',
         active # NoPatch =>
           \E k \in 1..Len(attempts') :
             /\ Applied(k)' /\ attempts'[k].patch = active
             /\ \A i \in 1..Len(attempts') : Applied(i)' => i = k
  PROVE  IInv'
<1>0. /\ active' = active /\ tree' \in {tree, Damaged} /\ phase' = "failed" /\ pc' = "returned"
      /\ stage' = "none"
  BY Observed DEF LeavesTree, Breaks, storeVars
<1>1. Len(attempts') <= used'["patches"] /\ used'["patches"] <= PatchBudget
      /\ used'["patches"] \in Nat
  BY Observed DEF Limit, BudgetKinds
<1>2. TypeOK'
  BY <1>0, <1>1, Observed, ObservedControl, SMTT(20)
     DEF IInv, TypeOK, StoreTypeOK, EvidenceType, AttemptType
<1>3. Control'
  BY ObservedControl
<1>4. Store' /\ Pipeline'
  BY <1>0 DEF IInv, Store, Pipeline, Control, Over
<1>5. EvidenceIsCurrent'
  BY <1>0 DEF EvidenceIsCurrent
<1>6. Journal'
  BY <1>0, <1>1 DEF Journal
<1> QED BY <1>2, <1>3, <1>4, <1>5, <1>6 DEF IInv

LEMMA RevertSucceedsIInv == ASSUME IInv, RevertSucceeds PROVE IInv'
<1>0. /\ pc = "tool" /\ tool = "revert" /\ active # NoPatch /\ active' = NoPatch
      /\ candidate' = NoPatch /\ evidence' = NoEvidence /\ revisions' = revisions
      /\ tree = active /\ tree' = NoPatch /\ phase # "failed"
  BY DEF RevertSucceeds, Running, Reverts, Clears, IInv, Store, Control, Over
<1>1. PICK k \in 1..Len(attempts) :
        Applied(k) /\ k = Len(attempts) /\ \A i \in 1..Len(attempts) : Applied(i) => i = k
  BY <1>0 DEF IInv, Journal
<1>2. Len(attempts) > 0 /\ Len(attempts) \in Nat
  BY <1>1 DEF IInv, TypeOK
<1>3. /\ attempts' \in Seq(AttemptType)
      /\ Len(attempts') = Len(attempts)
      /\ attempts'[Len(attempts)].outcome = "reverted"
      /\ \A i \in 1..(Len(attempts) - 1) : attempts'[i] = attempts[i]
  BY <1>2, MarksLast DEF RevertSucceeds, Records, Outcomes
<1>4. \A i \in 1..Len(attempts') : ~Applied(i)'
  <2> SUFFICES ASSUME NEW i \in 1..Len(attempts') PROVE attempts'[i].outcome # "applied"
    BY DEF Applied
  <2>1. CASE i = Len(attempts)
    BY <1>3, <2>1
  <2>2. CASE i # Len(attempts)
    BY <1>1, <1>2, <1>3, <2>2 DEF Applied
  <2> QED BY <2>1, <2>2
<1>5. Observes("ok")
  BY DEF RevertSucceeds
<1>6. TypeOK'
  BY <1>0, <1>3, <1>5, Observed, ObservedControl, NoEvidenceType
     DEF IInv, TypeOK, StoreTypeOK, EvidenceType, AttemptType
<1>7. Control' /\ Store' /\ Pipeline'
  BY <1>0, <1>5, Observed, ObservedControl DEF IInv, Store, Pipeline
<1>8. EvidenceIsCurrent'
  BY <1>0 DEF EvidenceIsCurrent, NoEvidence
<1>9. Journal'
  <2>1. used'["patches"] = used["patches"] /\ used["patches"] \in Nat
    BY <1>0, <1>5, Observed DEF IInv, TypeOK, BudgetKinds
  <2>2. pc' # "applying"
    BY <1>0, <1>5, ObservedControl
  <2> QED BY <1>0, <1>2, <1>3, <1>4, <2>1, <2>2 DEF Journal, IInv
<1> QED BY <1>6, <1>7, <1>8, <1>9 DEF IInv

LEMMA RevertFailsIInv == ASSUME IInv, RevertFails PROVE IInv'
<1>1. /\ pc = "tool" /\ tool = "revert" /\ Observes("fatal") /\ LeavesTree
      /\ UNCHANGED <<candidate, evidence, revisions, attempts>>
  BY DEF RevertFails, Running, LeavesTree
<1>2. Len(attempts) <= used["patches"] /\ Len(attempts) \in Nat
  BY <1>1 DEF IInv, Journal, TypeOK, BudgetKinds
<1> QED BY <1>1, <1>2, FatalIInv DEF IInv, TypeOK, EvidenceType, AttemptType, Journal, Applied

LEMMA DuplicateIInv == ASSUME IInv, Duplicate PROVE IInv'
<1>1. /\ pc = "tool" /\ tool = "apply" /\ UNCHANGED <<storeVars, candidate, revisions, attempts>>
      /\ evidence' = NoEvidence /\ Observes("abort")
  BY DEF Duplicate, Running, Clears
<1>2. \A c \in Checks : NoEvidence[c] = NoResult
  BY DEF NoEvidence
<1> QED BY <1>1, <1>2, QuietIInv, NoEvidenceType DEF IInv, TypeOK

(* A proposal is on record, and no patch is in the tree.                   *)
LEMMA ProposalIInv ==
  ASSUME IInv, Running("apply"), tree' = NoPatch, active' = NoPatch, evidence' = NoEvidence,
         attempts' \in Seq(AttemptType), Len(attempts') = Len(attempts) + 1,
         attempts'[Len(attempts) + 1].patch = proposal,
         \A i \in 1..Len(attempts') : ~Applied(i)', pc' = "applying",
         UNCHANGED <<candidate, revisions, phase, stage, tool, proposal, used, stop, inputs>>
  PROVE  IInv'
<1>1. pc = "tool" /\ tool = "apply" /\ Affordable("apply") /\ stage = "none" /\ phase # "failed"
  BY DEF Running, IInv, Control, Over, StageTool
<1>2. used["patches"] < PatchBudget /\ Len(attempts) <= used["patches"]
      /\ used["patches"] \in Nat /\ Len(attempts) \in Nat
  BY <1>1 DEF Affordable, BudgetOf, Limit, IInv, Journal, TypeOK, BudgetKinds
<1>3. TypeOK'
  BY <1>2, NoEvidenceType DEF IInv, TypeOK, StoreTypeOK, EvidenceType, AttemptType, inputs
<1>4. Control'
  <2>1. \A k \in BudgetOf(tool') : used'[k] < Limit[k]
    BY <1>1 DEF Affordable
  <2>2. phase' \notin {"done", "failed"}
    BY <1>1 DEF IInv, Control, Over, Running
  <2> QED BY <1>1, <2>1, <2>2 DEF IInv, Control, Affordable
<1>5. Store' /\ Pipeline' /\ EvidenceIsCurrent'
  BY <1>1 DEF Store, Pipeline, EvidenceIsCurrent, NoEvidence
<1>6. Journal'
  BY <1>2 DEF Journal
<1> QED BY <1>3, <1>4, <1>5, <1>6 DEF IInv

(* One more attempt.                                                       *)
LEMMA Appends ==
  ASSUME NEW s \in Seq(AttemptType), NEW e \in AttemptType
  PROVE  /\ Append(s, e) \in Seq(AttemptType) /\ Len(Append(s, e)) = Len(s) + 1
         /\ Append(s, e)[Len(s) + 1] = e
         /\ \A i \in 1..Len(s) : Append(s, e)[i] = s[i]
         /\ Len(s) \in Nat
BY AppendProperties, LenProperties

LEMMA AutoRevertsIInv == ASSUME IInv, AutoReverts PROVE IInv'
<1> DEFINE marked == Marked("reverted")
           e      == Attempt("proposed", proposal)
<1>0. /\ Running("apply") /\ pc = "tool" /\ tool = "apply" /\ active # NoPatch
      /\ active' = NoPatch /\ tree' = NoPatch /\ evidence' = NoEvidence /\ phase # "failed"
      /\ proposal \in Patches
  BY DEF AutoReverts, Running, Reverts, Clears, IInv, Store, Control, Over, TypeOK
<1>1. PICK k \in 1..Len(attempts) :
        k = Len(attempts) /\ \A i \in 1..Len(attempts) : Applied(i) => i = k
  BY <1>0 DEF IInv, Journal
<1>2. Len(attempts) > 0 /\ Len(attempts) \in Nat
  BY <1>1 DEF IInv, TypeOK
<1>3. /\ marked \in Seq(AttemptType) /\ Len(marked) = Len(attempts)
      /\ marked[Len(attempts)].outcome = "reverted"
      /\ \A i \in 1..(Len(attempts) - 1) : marked[i] = attempts[i]
  BY <1>2, MarksLast DEF Outcomes
<1>4. e \in AttemptType /\ e.patch = proposal /\ e.outcome = "proposed"
  BY <1>0 DEF Attempt, AttemptType, Outcomes
<1>5. attempts' = Append(marked, e)
  BY DEF AutoReverts
<1> HIDE DEF marked, e
<1>6. /\ attempts' \in Seq(AttemptType) /\ Len(attempts') = Len(attempts) + 1
      /\ attempts'[Len(attempts) + 1] = e
      /\ \A i \in 1..Len(attempts) : attempts'[i] = marked[i]
  BY <1>3, <1>4, <1>5, Appends
<1>7. \A i \in 1..Len(attempts') : ~Applied(i)'
  <2> SUFFICES ASSUME NEW i \in 1..Len(attempts') PROVE attempts'[i].outcome # "applied"
    BY DEF Applied
  <2>1. CASE i = Len(attempts) + 1
    BY <1>4, <1>6, <2>1
  <2>2. CASE i = Len(attempts)
    BY <1>2, <1>3, <1>6, <2>2
  <2>3. CASE i \in 1..(Len(attempts) - 1)
    <3>1. attempts'[i] = attempts[i] /\ i # Len(attempts) /\ i \in 1..Len(attempts)
      BY <1>2, <1>3, <1>6, <2>3
    <3> QED BY <1>1, <3>1 DEF Applied
  <2> QED BY <1>2, <1>6, <2>1, <2>2, <2>3
<1>8. pc' = "applying" /\ UNCHANGED <<candidate, revisions, phase, stage, tool, proposal, used, stop, inputs>>
  BY DEF AutoReverts
<1> QED BY <1>0, <1>4, <1>6, <1>7, <1>8, ProposalIInv

LEMMA ProposesIInv == ASSUME IInv, Proposes PROVE IInv'
<1> DEFINE e == Attempt("proposed", proposal)
<1>0. /\ Running("apply") /\ pc = "tool" /\ tool = "apply" /\ active = NoPatch
      /\ UNCHANGED storeVars /\ evidence' = NoEvidence /\ phase # "failed"
      /\ proposal \in Patches
  BY DEF Proposes, Running, Clears, IInv, Control, Over, TypeOK
<1>1. active' = NoPatch /\ tree' = NoPatch
  BY <1>0 DEF storeVars, IInv, Store
<1>2. e \in AttemptType /\ e.patch = proposal /\ e.outcome = "proposed"
  BY <1>0 DEF Attempt, AttemptType, Outcomes
<1>3. attempts' = Append(attempts, e) /\ attempts \in Seq(AttemptType)
  BY DEF Proposes, IInv, TypeOK, AttemptType
<1> HIDE DEF e
<1>4. /\ attempts' \in Seq(AttemptType) /\ Len(attempts') = Len(attempts) + 1
      /\ attempts'[Len(attempts) + 1] = e /\ Len(attempts) \in Nat
      /\ \A i \in 1..Len(attempts) : attempts'[i] = attempts[i]
  BY <1>2, <1>3, Appends
<1>5. \A i \in 1..Len(attempts') : ~Applied(i)'
  <2> SUFFICES ASSUME NEW i \in 1..Len(attempts') PROVE attempts'[i].outcome # "applied"
    BY DEF Applied
  <2>1. CASE i = Len(attempts) + 1
    BY <1>2, <1>4, <2>1
  <2>2. CASE i \in 1..Len(attempts)
    BY <1>0, <1>4, <2>2 DEF IInv, Journal, Applied
  <2> QED BY <1>4, <2>1, <2>2
<1>6. pc' = "applying" /\ UNCHANGED <<candidate, revisions, phase, stage, tool, proposal, used, stop, inputs>>
  BY DEF Proposes
<1> QED BY <1>0, <1>1, <1>2, <1>4, <1>5, <1>6, ProposalIInv

(* How an attempt that is in hand goes on record.                          *)
LEMMA Outcome ==
  ASSUME IInv, pc = "applying", NEW outcome \in Outcomes, Records(outcome)
  PROVE  /\ attempts' \in Seq(AttemptType) /\ Len(attempts') = Len(attempts)
         /\ Len(attempts) \in Nat /\ Len(attempts) > 0
         /\ Len(attempts) <= used["patches"] + 1
         /\ attempts'[Len(attempts)].outcome = outcome
         /\ attempts'[Len(attempts)].patch = proposal
         /\ \A i \in 1..Len(attempts') : Applied(i)' => i = Len(attempts) /\ outcome = "applied"
         /\ tool = "apply" /\ active = NoPatch /\ evidence = NoEvidence /\ phase # "failed"
         /\ proposal \in Patches /\ stage = "none" /\ Affordable("apply") /\ tree = NoPatch
<1>1. /\ tool = "apply" /\ active = NoPatch /\ evidence = NoEvidence /\ phase # "failed"
      /\ proposal \in Patches /\ stage = "none" /\ Affordable("apply") /\ tree = NoPatch
  BY DEF IInv, Control, Store, Over, TypeOK
<1>2. Len(attempts) \in Nat /\ Len(attempts) > 0 /\ Len(attempts) <= used["patches"] + 1
      /\ attempts[Len(attempts)].patch = proposal
  BY DEF IInv, TypeOK, Journal
<1>3. /\ attempts' \in Seq(AttemptType) /\ Len(attempts') = Len(attempts)
      /\ attempts'[Len(attempts)].outcome = outcome
      /\ attempts'[Len(attempts)].patch = proposal
      /\ \A i \in 1..(Len(attempts) - 1) : attempts'[i] = attempts[i]
  BY <1>2, MarksLast DEF Records
<1>4. ASSUME NEW i \in 1..Len(attempts'), Applied(i)'
      PROVE  i = Len(attempts) /\ outcome = "applied"
  <2>1. CASE i = Len(attempts)
    BY <1>3, <1>4, <2>1 DEF Applied
  <2>2. CASE i # Len(attempts)
    <3>1. i \in 1..(Len(attempts) - 1) /\ i \in 1..Len(attempts)
      BY <1>2, <1>3, <2>2
    <3>2. attempts[i].outcome = "applied"
      BY <1>3, <1>4, <3>1 DEF Applied
    <3> QED BY <1>1, <3>1, <3>2 DEF IInv, Journal, Applied
  <2> QED BY <2>1, <2>2
<1> QED BY <1>1, <1>2, <1>3, <1>4

LEMMA ApplySucceedsIInv == ASSUME IInv, ApplySucceeds PROVE IInv'
<1>0. /\ pc = "applying" /\ Records("applied") /\ candidate' = proposal
      /\ used' = [used EXCEPT !["patches"] = @ + 1]
      /\ pc' = "pipeline" /\ stage' = "syntax" /\ tool' = "none"
      /\ UNCHANGED <<evidence, revisions, phase, proposal, stop, inputs>>
  BY DEF ApplySucceeds
<1>1. /\ attempts' \in Seq(AttemptType) /\ Len(attempts') = Len(attempts)
      /\ Len(attempts) \in Nat /\ Len(attempts) > 0
      /\ Len(attempts) <= used["patches"] + 1
      /\ attempts'[Len(attempts)].outcome = "applied"
      /\ attempts'[Len(attempts)].patch = proposal
      /\ \A i \in 1..Len(attempts') : Applied(i)' => i = Len(attempts)
      /\ evidence = NoEvidence /\ phase # "failed" /\ proposal \in Patches
      /\ Affordable("apply") /\ active = NoPatch /\ tree = NoPatch
  BY <1>0, Outcome DEF Outcomes
<1>2. active' = proposal /\ tree' = proposal /\ proposal # NoPatch
  BY <1>1 DEF ApplySucceeds, Applies
<1>3. /\ used' \in [BudgetKinds -> Nat] /\ used'["patches"] = used["patches"] + 1
      /\ \A k \in BudgetKinds : used'[k] <= Limit[k]
  <2>1. used \in [BudgetKinds -> Nat] /\ "patches" \in BudgetKinds /\ used["patches"] < Limit["patches"]
        /\ Limit["patches"] \in Nat
    BY <1>1 DEF IInv, TypeOK, Affordable, BudgetOf, BudgetKinds, Limit
  <2>2. \A k \in BudgetKinds : used[k] <= Limit[k]
    BY DEF IInv, TypeOK
  <2>3. used' \in [BudgetKinds -> Nat] /\ used'["patches"] = used["patches"] + 1
        /\ \A k \in BudgetKinds : k # "patches" => used'[k] = used[k]
    BY <1>0, <2>1
  <2>4. used["patches"] + 1 <= Limit["patches"]
    BY <2>1
  <2> QED BY <2>2, <2>3, <2>4
<1>4. TypeOK'
  <2>1. Len(attempts') <= PatchBudget
    BY <1>1 DEF IInv, TypeOK
  <2> QED BY <1>0, <1>1, <1>2, <1>3, <2>1 DEF IInv, TypeOK, StoreTypeOK, AttemptType, Stages, NextStage, inputs
<1>5. Control'
  BY <1>0, <1>1 DEF IInv, Control, Over
<1>6. Store' /\ Pipeline' /\ EvidenceIsCurrent'
  BY <1>0, <1>1, <1>2 DEF Store, Pipeline, EvidenceIsCurrent, NoEvidence
<1>7. Journal'
  <2>1. Len(attempts') <= used'["patches"] /\ pc' # "applying" /\ active' # NoPatch
    BY <1>0, <1>1, <1>2, <1>3
  <2>2. Len(attempts) \in 1..Len(attempts') /\ Applied(Len(attempts))'
    BY <1>1 DEF Applied
  <2>3. \E k \in 1..Len(attempts') :
          /\ Applied(k)' /\ attempts'[k].patch = active'
          /\ \A i \in 1..Len(attempts') : Applied(i)' => i = k
          /\ phase' # "failed" => k = Len(attempts')
    BY <1>1, <1>2, <2>2
  <2>4. used'["patches"] \in Nat
    BY <1>3 DEF BudgetKinds
  <2> QED BY <1>1, <2>1, <2>3, <2>4 DEF Journal
<1> QED BY <1>4, <1>5, <1>6, <1>7 DEF IInv

LEMMA ApplyRefusedIInv == ASSUME IInv, ApplyRefused PROVE IInv'
<1>0. pc = "applying" /\ UNCHANGED <<storeVars, candidate, evidence, revisions>>
  BY DEF ApplyRefused
<1>1. PICK outcome \in {"rejected", "apply_failed"} : Records(outcome)
  BY DEF ApplyRefused
<1>2. /\ attempts' \in Seq(AttemptType) /\ Len(attempts') = Len(attempts)
      /\ Len(attempts) \in Nat /\ Len(attempts) <= used["patches"] + 1
      /\ \A i \in 1..Len(attempts') : ~Applied(i)'
      /\ tool = "apply" /\ active = NoPatch /\ evidence = NoEvidence /\ phase # "failed"
      /\ tree = NoPatch
  BY <1>0, <1>1, Outcome DEF Outcomes
<1>3. evidence \in EvidenceType
  BY DEF IInv, TypeOK, EvidenceType
<1>4. CASE Observes("fatal")
  BY <1>0, <1>2, <1>3, <1>4, FatalIInv DEF LeavesTree
<1>5. CASE Observes("abort")
  <2>1. /\ used'["patches"] = used["patches"] + 1 /\ pc' = "loop" /\ stage' = "none"
        /\ phase' = phase /\ used'["patches"] <= PatchBudget /\ used'["patches"] \in Nat
    BY <1>0, <1>2, <1>5, Observed DEF Limit, BudgetKinds
  <2>2. Len(attempts') <= used'["patches"] /\ Len(attempts') <= PatchBudget
    BY <1>2, <2>1
  <2>3. TypeOK'
    BY <1>0, <1>2, <1>5, <2>2, Observed, ObservedControl
       DEF IInv, TypeOK, StoreTypeOK, AttemptType, storeVars
  <2>4. Control'
    BY <1>0, <1>5, ObservedControl
  <2>5. Store' /\ Pipeline' /\ EvidenceIsCurrent'
    BY <1>0, <1>2, <2>1 DEF Store, Pipeline, EvidenceIsCurrent, NoEvidence, storeVars
  <2>6. Journal'
    BY <1>0, <1>2, <2>1, <2>2 DEF Journal, storeVars
  <2> QED BY <2>3, <2>4, <2>5, <2>6 DEF IInv
<1> QED BY <1>4, <1>5 DEF ApplyRefused

LEMMA ApplyFailsIInv == ASSUME IInv, ApplyFails PROVE IInv'
<1>0. /\ pc = "applying" /\ Records("apply_failed") /\ LeavesTree /\ Observes("fatal")
      /\ UNCHANGED <<candidate, evidence, revisions>>
  BY DEF ApplyFails
<1>1. /\ attempts' \in Seq(AttemptType) /\ Len(attempts') = Len(attempts)
      /\ Len(attempts) \in Nat /\ Len(attempts) <= used["patches"] + 1
      /\ \A i \in 1..Len(attempts') : ~Applied(i)'
      /\ tool = "apply" /\ active = NoPatch
  BY <1>0, Outcome DEF Outcomes
<1>2. evidence \in EvidenceType
  BY DEF IInv, TypeOK, EvidenceType
<1> QED BY <1>0, <1>1, <1>2, FatalIInv

LEMMA AutoRevertFailsIInv == ASSUME IInv, AutoRevertFails PROVE IInv'
<1> DEFINE e == Attempt("apply_failed", proposal)
<1>0. /\ pc = "tool" /\ tool = "apply" /\ active # NoPatch /\ LeavesTree /\ Observes("fatal")
      /\ evidence' = NoEvidence /\ proposal \in Patches /\ UNCHANGED <<candidate, revisions>>
  BY DEF AutoRevertFails, Running, Clears, IInv, Control, TypeOK
<1>1. e \in AttemptType /\ e.outcome = "apply_failed"
  BY <1>0 DEF Attempt, AttemptType, Outcomes
<1>2. attempts' = Append(attempts, e) /\ attempts \in Seq(AttemptType)
  BY DEF AutoRevertFails, IInv, TypeOK, AttemptType
<1>3. PICK k \in 1..Len(attempts) :
        /\ Applied(k) /\ attempts[k].patch = active
        /\ \A i \in 1..Len(attempts) : Applied(i) => i = k
  BY <1>0 DEF IInv, Journal
<1> HIDE DEF e
<1>4. /\ attempts' \in Seq(AttemptType) /\ Len(attempts') = Len(attempts) + 1
      /\ attempts'[Len(attempts) + 1] = e /\ Len(attempts) \in Nat
      /\ \A i \in 1..Len(attempts) : attempts'[i] = attempts[i]
  BY <1>1, <1>2, Appends
<1>5. ASSUME NEW i \in 1..Len(attempts'), Applied(i)' PROVE i = k
  <2>1. attempts'[i].outcome = "applied"
    BY <1>5 DEF Applied
  <2>2. i # Len(attempts) + 1
    BY <1>1, <1>4, <2>1
  <2>3. i \in 1..Len(attempts)
    BY <1>4, <2>2
  <2> QED BY <1>3, <1>4, <2>1, <2>3 DEF Applied
<1>6. k \in 1..Len(attempts') /\ Applied(k)' /\ attempts'[k].patch = active
  BY <1>3, <1>4 DEF Applied
<1>7. Len(attempts) <= used["patches"] /\ used["patches"] \in Nat
  BY <1>0 DEF IInv, Journal, TypeOK, BudgetKinds
<1>8. Len(attempts') <= used["patches"] + 1 /\ Len(attempts') \in Nat
  BY <1>4, <1>7
<1> QED BY <1>0, <1>4, <1>5, <1>6, <1>8, FatalIInv, NoEvidenceType

LEMMA StutterIInv == ASSUME IInv, UNCHANGED vars PROVE IInv'
<1>1. TypeOK' /\ Control' /\ Store' /\ Pipeline'
  BY DEF IInv, TypeOK, StoreTypeOK, Control, Affordable, Store, Pipeline, Resolved, vars, storeVars, sessionVars
<1>2. EvidenceIsCurrent' /\ Journal'
  BY DEF IInv, EvidenceIsCurrent, Journal, Applied, vars, storeVars, sessionVars
<1> QED BY <1>1, <1>2 DEF IInv

LEMMA HandlerIInv == ASSUME IInv, HandlerStep PROVE IInv'
<1>1. CASE Runs("reproduction", "f2p") \/ Runs("regression", "p2p")
  BY <1>1, RunsIInv DEF Checks
<1>2. CASE \E c \in Checks : Revises(c)
  BY <1>2, RevisesIInv
<1> QED BY <1>1, <1>2, ClassifiesIInv, SyntaxIInv, RevertSucceedsIInv, RevertFailsIInv,
           DuplicateIInv, AutoRevertsIInv, AutoRevertFailsIInv, ProposesIInv,
           ApplySucceedsIInv, ApplyRefusedIInv, ApplyFailsIInv DEF HandlerStep

LEMMA NextIInv == IInv /\ [Next]_vars => IInv'
<1> SUFFICES ASSUME IInv, [Next]_vars PROVE IInv'
  OBVIOUS
<1>1. CASE ControlStep
  BY <1>1, ControlIInv
<1>2. CASE HandlerStep
  BY <1>2, HandlerIInv
<1>3. CASE UNCHANGED vars
  BY <1>3, StutterIInv
<1> QED BY <1>1, <1>2, <1>3 DEF Next, RunStep, ControlStep

LEMMA SpecIInv == Spec => []IInv
<1> QED BY InitIInv, NextIInv, PTL DEF Spec

----------------------------------------------------------------------------
(* Every variable keeps its type, no budget is overdrawn, and there is at   *)
(* most one attempt on record per patch the budget allows.                 *)
THEOREM TypeCorrect == Spec => []TypeOK
<1>1. IInv => TypeOK
  BY DEF IInv
<1> QED BY <1>1, SpecIInv, PTL

(* No sequence of patches, reverts and revisions leaves a result of another *)
(* tree, or of a command since replaced, for a classification to use.      *)
THEOREM EvidenceCurrent == Spec => []EvidenceIsCurrent
<1>1. IInv => EvidenceIsCurrent
  BY DEF IInv
<1> QED BY <1>1, SpecIInv, PTL

(* A run that the pipeline completes has the tested patch in its tree.     *)
THEOREM CompletedIsResolved == Spec => []PipelineCompletesResolved
<1>1. ASSUME IInv, stage = "complete" PROVE PipelineCompletesResolved
  <2>1. phase # "failed" /\ active # NoPatch /\ candidate = active /\ tree = active
    BY <1>1 DEF IInv, Control, Over, Store, Pipeline
  <2>2. ASSUME NEW c \in Checks PROVE evidence[c] = Result(TRUE, candidate, revisions[c])
    <3>1. evidence[c] \in [passed : BOOLEAN, tree : Patches \cup {NoPatch, Damaged},
                          revision : -1..MaxRevisions]
      BY <1>1 DEF IInv, TypeOK
    <3>2. evidence[c].passed = TRUE
      BY <1>1, <3>1 DEF IInv, Pipeline, Resolved
    <3>3. evidence[c].tree = tree /\ evidence[c].revision = revisions[c]
      BY <1>1, <2>1, <3>2 DEF IInv, EvidenceIsCurrent, NoResult, Result
    <3> QED BY <2>1, <3>1, <3>2, <3>3 DEF Result
  <2> QED BY <2>1, <2>2 DEF PipelineCompletesResolved
<1>2. IInv => PipelineCompletesResolved
  BY <1>1 DEF PipelineCompletesResolved
<1> QED BY <1>2, SpecIInv, PTL

(* What the journal shows as the active candidate is what a revert would    *)
(* take out.                                                               *)
THEOREM JournalCorrect == Spec => []JournalMatchesStore
<1> DEFINE applied == {i \in 1..Len(attempts) : attempts[i].outcome = "applied"}
<1>1. ASSUME IInv, tool = "none" PROVE ActiveCandidate = active
  <2>1. CASE active = NoPatch
    <3>1. applied = {}
      BY <1>1, <2>1 DEF IInv, Journal, Applied
    <3> QED BY <2>1, <3>1 DEF ActiveCandidate
  <2>2. CASE active # NoPatch
    <3>1. PICK k \in 1..Len(attempts) :
            /\ Applied(k) /\ attempts[k].patch = active
            /\ \A i \in 1..Len(attempts) : Applied(i) => i = k
      BY <1>1, <2>2 DEF IInv, Journal
    <3>2. applied = {k} /\ k \in Int
      BY <3>1 DEF Applied, IInv, TypeOK
    <3>3. (CHOOSE i \in applied : \A j \in applied : j <= i) = k
      BY <3>2
    <3> QED BY <3>1, <3>2, <3>3 DEF ActiveCandidate
  <2> QED BY <2>1, <2>2
<1>2. IInv => JournalMatchesStore
  BY <1>1 DEF JournalMatchesStore
<1> QED BY <1>2, SpecIInv, PTL

(* A tree that could not be restored is not worked on again.               *)
THEOREM DamageIsFinal == Spec => []DamageEndsTheRun
<1>1. IInv => DamageEndsTheRun
  <2>1. IInv => active # Damaged
    BY DEF IInv, TypeOK, StoreTypeOK
  <2> QED BY <2>1 DEF IInv, Store, DamageEndsTheRun
<1> QED BY <1>1, SpecIInv, PTL

(* A cancelled run starts nothing new.                                     *)
THEOREM CancelRespected == Spec => CancelIsFinal
<1> DEFINE Step == cancelled /\ tool = "none"
                     => /\ tool' = "none" /\ phase' \in {phase, "failed"}
                        /\ UNCHANGED <<known, used, disposition>>
<1>1. ASSUME IInv, Next, cancelled, tool = "none" PROVE Step
  <2>1. CASE ModelFails
    <3>1. phase' = "failed" /\ tool' = "none" /\ UNCHANGED <<known, used, disposition>>
      BY <2>1 DEF ModelFails, Returns, inputs
    <3> QED BY <3>1
  <2>2. CASE Aborts
    BY <1>1, <2>2 DEF Aborts, Ends
  <2>3. ~HandlerStep
    BY <1>1 DEF IInv, Control, HandlerStep, Runs, Classifies, ChecksSyntax, Revises, RevertSucceeds,
                RevertFails, Duplicate, AutoReverts, AutoRevertFails, Proposes, ApplySucceeds,
                ApplyRefused, ApplyFails, Running
  <2>4. ~(Requests \/ PipelineActs \/ Advances \/ Completes \/ Concludes \/ Verifies \/ Cancel)
    BY <1>1 DEF Requests, PipelineActs, Advances, Completes, Concludes, Verifies, Cancel, NotCancelled
  <2>5. ModelStep => ModelFails
    BY <1>1 DEF ModelStep, Rejects, Looks, Moves, Acts, NotCancelled
  <2> QED BY <1>1, <2>1, <2>2, <2>3, <2>4, <2>5 DEF Next, RunStep
<1>2. UNCHANGED vars => Step
  BY DEF vars, storeVars, sessionVars, known
<1>3. IInv /\ [Next]_vars => [Step]_vars
  BY <1>1
<1> QED BY <1>3, SpecIInv, PTL DEF Spec, CancelIsFinal
=============================================================================
