--------------------------- MODULE PatcherProofs ---------------------------
(***************************************************************************)
(* Theorems of Patcher, for any files, patches and failures: the type       *)
(* invariant, the exactness of the tree, of a rollback and of a revert, and *)
(* that Patcher implements PatchStore.                                      *)
(*                                                                         *)
(* TreeIsExact only speaks of the moments between two operations.  What is  *)
(* inductive is where an operation stands with each file: still as found,   *)
(* replaced, or put back (Progress), and that what it would put back is the *)
(* tree the snapshot describes (Recorded).                                  *)
(***************************************************************************)
EXTENDS Patcher, TLAPS

Expected == IF active = NoPatch THEN Original ELSE Patched(active)

Progress ==
  op # "idle" =>
    /\ \A f \in Files \ Touches[patch] : content[f] = before[f]
    /\ phase = "write" =>
         /\ sound /\ todo \cap replaced = {} /\ todo \cup replaced = Touches[patch]
         /\ \A f \in replaced : content[f] = Target(f)
         /\ \A f \in todo : content[f] = before[f]
    /\ phase = "undo" /\ sound => \A f \in Files \ todo : content[f] = before[f]

Recorded ==
  ~damaged =>
    /\ active # NoPatch => \A f \in Touches[active] : snapshot[f] = NoPatch
    /\ IF op = "idle" THEN content = Expected ELSE before = Expected

IInv == TypeOK /\ Progress /\ Recorded

USE PatchAssumption

(* An original tree and a patched one are trees.                           *)
LEMMA Trees ==
  /\ Original \in [Files -> Versions]
  /\ \A p \in Patches : Patched(p) \in [Files -> Versions] /\ Patched(p) # Original
<1>1. Original \in [Files -> Versions]
  BY DEF Original, Versions
<1>2. ASSUME NEW p \in Patches
      PROVE  Patched(p) \in [Files -> Versions] /\ Patched(p) # Original
  <2>1. Patched(p) \in [Files -> Versions]
    BY DEF Patched, Versions
  <2>2. PICK f \in Touches[p] : TRUE
    BY <1>2
  <2>3. f \in Files /\ Patched(p)[f] = p /\ Original[f] = NoPatch
    BY <2>2 DEF Patched, Original
  <2> QED BY <2>1, <2>3
<1> QED BY <1>1, <1>2

(* The initial states.                                                     *)
LEMMA InitIInv == Init => IInv
<1> SUFFICES ASSUME Init PROVE IInv
  OBVIOUS
<1>1. TypeOK
  BY Trees DEF Init, TypeOK
<1>2. Progress
  BY DEF Init, Progress
<1>3. Recorded
  BY DEF Init, Recorded, Expected
<1> QED BY <1>1, <1>2, <1>3 DEF IInv

(* An operation starts with every file as it found it.                     *)
LEMMA BeginIInv ==
  ASSUME IInv, NEW p \in Patches, NEW operation \in {"apply", "revert"},
         op = "idle", active = IF operation = "apply" THEN NoPatch ELSE p,
         Begins(operation, p)
  PROVE  IInv'
<1> USE DEF IInv, Begins
<1>1. TypeOK'
  BY DEF TypeOK
<1>2. Progress'
  BY DEF Progress, TypeOK, Target
<1>3. Recorded'
  BY DEF Recorded, Expected, Original, Patched, TypeOK
<1> QED BY <1>1, <1>2, <1>3

(* A replacement, or the failure of one.                                   *)
LEMMA WritesIInv ==
  ASSUME IInv, NEW f \in Files, Writes(f)
  PROVE  IInv'
<1> USE DEF IInv, Writes
<1>0. Target(f) \in Versions
  BY DEF TypeOK, Target, Versions
<1>1. TypeOK'
  BY <1>0 DEF TypeOK
<1>2. Progress'
  <2>1. \A g \in Files \ Touches[patch] : content'[g] = before[g]
    BY DEF Progress, TypeOK
  <2>2. todo' \cap replaced' = {} /\ todo' \cup replaced' = Touches[patch]
    BY DEF Progress, TypeOK
  <2>3. \A g \in replaced' : content'[g] = Target(g)
    BY DEF Progress, TypeOK
  <2>4. \A g \in todo' : content'[g] = before[g]
    BY DEF Progress, TypeOK
  <2> QED BY <2>1, <2>2, <2>3, <2>4 DEF Progress, Target
<1>3. Recorded'
  BY DEF Recorded, Expected, Original, Patched
<1> QED BY <1>1, <1>2, <1>3

LEMMA WriteFailsIInv ==
  ASSUME IInv, NEW f \in Files, WriteFails(f) \/ VerifyFails(f)
  PROVE  IInv'
<1> USE DEF IInv, WriteFails, VerifyFails
<1>0. Target(f) \in Versions /\ Damaged \in Versions
  BY DEF TypeOK, Target, Versions
<1>1. TypeOK'
  BY <1>0 DEF TypeOK
<1>2. Progress'
  <2>1. op' # "idle" /\ phase' = "undo" /\ patch' = patch /\ before' = before
    OBVIOUS
  <2>2. \A g \in Files \ Touches[patch] : content'[g] = before[g]
    BY DEF Progress, TypeOK
  <2>3. \A g \in Files \ todo' : content'[g] = before[g]
    BY DEF Progress, TypeOK
  <2> QED BY <2>1, <2>2, <2>3 DEF Progress
<1>3. Recorded'
  BY DEF Recorded, Expected, Original, Patched
<1> QED BY <1>1, <1>2, <1>3

(* A file put back, or not.                                                *)
LEMMA UndoIInv ==
  ASSUME IInv, NEW f \in Files, Restores(f) \/ RestoreFails(f)
  PROVE  IInv'
<1> USE DEF IInv
<1>0. Damaged \in Versions /\ before[f] \in Versions /\ content[f] \in Versions
  BY DEF TypeOK, Versions
<1>1. /\ op # "idle" /\ phase = "undo" /\ f \in todo /\ todo' = todo \ {f}
      /\ UNCHANGED <<active, snapshot, op, patch, phase, replaced, before, damaged>>
  BY DEF Restores, RestoreFails
<1>2. PICK v \in Versions :
        /\ content' = [content EXCEPT ![f] = v]
        /\ (v = before[f] /\ sound' = sound) \/ sound' = FALSE
  BY <1>0 DEF Restores, RestoreFails
<1>3. TypeOK'
  BY <1>1, <1>2 DEF TypeOK
<1>4. Progress'
  <2>1. f \in Touches[patch]
    BY <1>1 DEF TypeOK
  <2>2. \A g \in Files \ {f} : content'[g] = content[g]
    BY <1>2 DEF TypeOK
  <2>3. \A g \in Files \ Touches[patch] : content'[g] = before[g]
    BY <1>1, <2>1, <2>2 DEF Progress
  <2>4. sound' => \A g \in Files \ todo' : content'[g] = before[g]
    <3>1. SUFFICES ASSUME sound', NEW g \in Files \ todo'
                   PROVE  content'[g] = before[g]
      OBVIOUS
    <3>2. sound /\ v = before[f]
      BY <1>2, <3>1
    <3>3. CASE g = f
      BY <1>2, <3>2, <3>3 DEF TypeOK
    <3>4. CASE g # f
      BY <1>1, <2>2, <3>1, <3>2, <3>4 DEF Progress
    <3> QED BY <3>3, <3>4
  <2> QED BY <1>1, <2>3, <2>4 DEF Progress
<1>5. Recorded'
  BY <1>1 DEF Recorded, Expected, Original, Patched
<1> QED BY <1>3, <1>4, <1>5

(* When nothing is left to write every file of the patch is replaced, and  *)
(* when nothing is left to undo every file is as it was found.             *)
LEMMA Written ==
  ASSUME IInv, op # "idle", phase = "write", todo = {}
  PROVE  /\ \A f \in Touches[patch] : content[f] = Target(f)
         /\ \A f \in Files \ Touches[patch] : content[f] = before[f]
BY DEF IInv, Progress

LEMMA Undone ==
  ASSUME IInv, op # "idle", phase = "undo", todo = {}, sound
  PROVE  content = before
<1>1. \A f \in Files : content[f] = before[f]
  BY DEF IInv, Progress
<1>2. content \in [Files -> Versions] /\ before \in [Files -> Versions]
  BY DEF IInv, TypeOK
<1> QED BY <1>1, <1>2

(* The ends of an operation.                                               *)
LEMMA ApplySucceedsIInv ==
  ASSUME IInv, ApplySucceeds
  PROVE  IInv'
<1> USE DEF ApplySucceeds, Ends
<1>1. TypeOK'
  BY DEF IInv, TypeOK
<1>2. Progress'
  BY DEF Progress
<1>3. ASSUME ~damaged PROVE content = Patched(patch) /\ before = Original
  <2>1. before = Original
    BY <1>3 DEF IInv, Recorded, Expected, TypeOK
  <2>2. patch \in Patches /\ content \in [Files -> Versions]
    BY DEF IInv, TypeOK
  <2>3. \A f \in Files : content[f] = IF f \in Touches[patch] THEN patch ELSE NoPatch
    BY <2>1, Written DEF Target, Original
  <2> QED BY <2>1, <2>2, <2>3 DEF Patched
<1>4. patch \in Patches /\ patch # NoPatch
  BY DEF IInv, TypeOK
<1>5. Recorded'
  BY <1>3, <1>4 DEF Recorded, Expected, Original, Patched
<1> QED BY <1>1, <1>2, <1>5 DEF IInv

LEMMA RevertSucceedsIInv ==
  ASSUME IInv, RevertSucceeds
  PROVE  IInv'
<1> USE DEF RevertSucceeds, Ends
<1>1. TypeOK'
  BY DEF IInv, TypeOK
<1>2. Progress'
  BY DEF Progress
<1>3. ASSUME ~damaged PROVE content = Original
  <2>1. patch \in Patches /\ active = patch /\ content \in [Files -> Versions]
    BY DEF IInv, TypeOK
  <2>2. before = Patched(patch) /\ \A f \in Touches[patch] : snapshot[f] = NoPatch
    BY <1>3, <2>1 DEF IInv, Recorded, Expected
  <2>3. \A f \in Files : content[f] = NoPatch
    BY <2>1, <2>2, Written DEF Target, Patched
  <2> QED BY <2>1, <2>3 DEF Original
<1>4. Recorded'
  BY <1>3 DEF Recorded, Expected, Original, Patched
<1> QED BY <1>1, <1>2, <1>4 DEF IInv

LEMMA FailsIInv ==
  ASSUME IInv, Fails \/ RevertUnconfirmed
  PROVE  IInv'
<1> USE DEF Fails, RevertUnconfirmed, Ends
<1>1. TypeOK'
  BY DEF IInv, TypeOK
<1>2. Progress'
  BY DEF Progress
<1>3. ASSUME ~damaged' PROVE content = before /\ ~damaged
  BY <1>3, Undone
<1>4. Recorded'
  BY <1>3 DEF IInv, Recorded, Expected, Original, Patched
<1> QED BY <1>1, <1>2, <1>4 DEF IInv

LEMMA StutterIInv == ASSUME IInv, UNCHANGED vars PROVE IInv'
<1> USE DEF vars
<1>1. TypeOK'
  BY DEF IInv, TypeOK
<1>2. Progress'
  BY DEF IInv, Progress, Target
<1>3. Recorded'
  BY DEF IInv, Recorded, Expected, Original, Patched
<1> QED BY <1>1, <1>2, <1>3 DEF IInv

LEMMA NextIInv == IInv /\ [Next]_vars => IInv'
<1> SUFFICES ASSUME IInv, [Next]_vars PROVE IInv'
  OBVIOUS
<1>1. ASSUME NEW p \in Patches, BeginApply(p) PROVE IInv'
  BY <1>1, BeginIInv DEF BeginApply
<1>2. CASE BeginRevert
  <2>1. active \in Patches
    BY <1>2 DEF BeginRevert, IInv, TypeOK
  <2> QED BY <1>2, <2>1, BeginIInv DEF BeginRevert
<1>3. ASSUME NEW f \in Files, FileStep(f) PROVE IInv'
  BY <1>3, WritesIInv, WriteFailsIInv, UndoIInv DEF FileStep
<1>4. CASE ApplySucceeds
  BY <1>4, ApplySucceedsIInv
<1>5. CASE RevertSucceeds
  BY <1>5, RevertSucceedsIInv
<1>6. CASE RevertUnconfirmed \/ Fails
  BY <1>6, FailsIInv
<1>7. CASE UNCHANGED vars
  BY <1>7, StutterIInv
<1> QED BY <1>1, <1>2, <1>3, <1>4, <1>5, <1>6, <1>7 DEF Next, OperationStep

LEMMA SpecIInv == Spec => []IInv
BY InitIInv, NextIInv, PTL DEF Spec

----------------------------------------------------------------------------
(* Every variable keeps its type, and an operation under way only ever has *)
(* files of its own patch before it.                                       *)
THEOREM TypeCorrect == Spec => []TypeOK
<1>1. IInv => TypeOK
  BY DEF IInv
<1> QED BY <1>1, SpecIInv, PTL

(* Between two operations the tree is what the snapshot says, unless an    *)
(* operation reported that it could not clean up.                          *)
THEOREM TreeExact == Spec => []TreeIsExact
<1>1. IInv => TreeIsExact
  BY DEF IInv, Recorded, Expected, TreeIsExact
<1> QED BY <1>1, SpecIInv, PTL

(* What a failed operation calls rolled back is as it was found.           *)
THEOREM RollbackExact == Spec => RollbackIsExact
<1>1. IInv /\ [Next]_vars => [Fails /\ sound => content' = before /\ active' = active]_vars
  BY Undone DEF Fails, Ends
<1> QED BY <1>1, SpecIInv, PTL DEF Spec, RollbackIsExact

(* A revert that succeeds has restored all of the snapshot.                *)
THEOREM RevertComplete == Spec => RevertIsComplete
<1>1. ASSUME IInv, [Next]_vars, active # NoPatch, active' = NoPatch
      PROVE  \A f \in Touches[active] : content'[f] = snapshot[f]
  <2>1. RevertSucceeds
    BY <1>1 DEF IInv, TypeOK, Next, OperationStep, FileStep, BeginApply, BeginRevert, Begins,
                Writes, WriteFails, VerifyFails, Restores, RestoreFails, ApplySucceeds,
                RevertUnconfirmed, Fails, vars
  <2>2. active = patch /\ content' = content
    BY <1>1, <2>1 DEF IInv, TypeOK, RevertSucceeds, Ends
  <2> QED BY <1>1, <2>1, <2>2, Written DEF RevertSucceeds, Target
<1>2. IInv /\ [Next]_vars
        => [active # NoPatch /\ active' = NoPatch
              => \A f \in Touches[active] : content'[f] = snapshot[f]]_vars
  BY <1>1
<1> QED BY <1>2, SpecIInv, PTL DEF Spec, RevertIsComplete

----------------------------------------------------------------------------
(* The refinement.  What the tree holds is what the snapshot says.         *)
LEMMA HoldsActive == ASSUME IInv PROVE Holds = IF damaged THEN Damaged ELSE active
<1>1. CASE damaged \/ op # "idle"
  BY <1>1 DEF Holds
<1>2. CASE ~damaged /\ op = "idle"
  <2>1. content = Expected /\ active \in Patches \cup {NoPatch}
    BY <1>2 DEF IInv, Recorded, TypeOK
  <2>2. CASE active = NoPatch
    BY <1>2, <2>1, <2>2 DEF Holds, Expected
  <2>3. CASE active # NoPatch
    BY <1>2, <2>1, <2>3, Trees DEF Holds, Expected
  <2> QED BY <2>2, <2>3
<1> QED BY <1>1, <1>2

LEMMA HoldsActivePrime == ASSUME IInv' PROVE Holds' = IF damaged' THEN Damaged ELSE active'
<1>1. IInv' => (Holds = IF damaged THEN Damaged ELSE active)'
  BY HoldsActive, PTL
<1> QED BY <1>1

(* Each step is a step of the store or leaves it as it is.                 *)
LEMMA StoreStep ==
  ASSUME IInv, IInv', [Next]_vars
  PROVE  [Store!StoreNext]_<<Holds, active>>
<1>1. /\ Holds = IF damaged THEN Damaged ELSE active
      /\ Holds' = IF damaged' THEN Damaged ELSE active'
  BY HoldsActive, HoldsActivePrime
<1>2. CASE ApplySucceeds
  <2>1. patch \in Patches /\ active = NoPatch
    BY <1>2 DEF ApplySucceeds, IInv, TypeOK
  <2>2. Store!Applies(patch)
    BY <1>1, <1>2, <2>1 DEF ApplySucceeds, Store!Applies
  <2> QED BY <2>1, <2>2 DEF Store!StoreNext
<1>3. CASE RevertSucceeds
  <2>1. active \in Patches
    BY <1>3 DEF RevertSucceeds, IInv, TypeOK
  <2>2. Store!Reverts
    BY <1>1, <1>3, <2>1 DEF RevertSucceeds, Store!Reverts
  <2> QED BY <2>2 DEF Store!StoreNext
<1>4. CASE RevertUnconfirmed \/ (Fails /\ ~sound)
  <2>1. Store!Breaks
    BY <1>1, <1>4 DEF RevertUnconfirmed, Fails, Store!Breaks
  <2> QED BY <2>1 DEF Store!StoreNext
<1>5. CASE damaged' = damaged /\ active' = active
  BY <1>1, <1>5
<1>6. CASE Fails /\ sound
  <2>1. damaged' = damaged /\ active' = active
    BY <1>6 DEF Fails, IInv, TypeOK
  <2> QED BY <1>5, <2>1
<1>7. CASE \E f \in Files : FileStep(f)
  <2>1. damaged' = damaged /\ active' = active
    BY <1>7 DEF FileStep, Writes, WriteFails, VerifyFails, Restores, RestoreFails
  <2> QED BY <1>5, <2>1
<1>8. CASE (\E p \in Patches : BeginApply(p)) \/ BeginRevert
  <2>1. damaged' = damaged /\ active' = active
    BY <1>8 DEF BeginApply, BeginRevert, Begins
  <2> QED BY <1>5, <2>1
<1>9. CASE UNCHANGED vars
  BY <1>5, <1>9 DEF vars
<1> QED BY <1>2, <1>3, <1>4, <1>6, <1>7, <1>8, <1>9 DEF Next, OperationStep

(* Patcher implements the store that applies and reverts in one step.      *)
THEOREM Refinement == Spec => ImplementsStore
<1>1. Init => Store!StoreInit
  BY DEF Init, Holds, Store!StoreInit
<1>2. IInv /\ IInv' /\ [Next]_vars => [Store!StoreNext]_<<Holds, active>>
  BY StoreStep
<1> QED BY <1>1, <1>2, SpecIInv, PTL
        DEF Spec, ImplementsStore, Store!StoreSpec, Store!storeVars
=============================================================================
