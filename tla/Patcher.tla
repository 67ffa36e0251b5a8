------------------------------ MODULE Patcher ------------------------------
(***************************************************************************)
(* PatchManager (runtime/patcher.py, with the writes of patch_apply.py):    *)
(* a patch of several files is applied and reverted file by file, each file *)
(* by a temporary one that replaces it and is then read back.  Any of these *)
(* may fail; the files replaced so far are then put back, which may fail    *)
(* as well.  Nothing else writes to the tree meanwhile.                     *)
(***************************************************************************)
EXTENDS FiniteSets

CONSTANTS
  Files, Patches,
  Touches,    \* the files of each patch
  NoPatch,    \* no patch; as the content of a file, the original one
  Damaged     \* the content of a file that is not what was written

ASSUME PatchAssumption ==
  /\ NoPatch \notin Patches /\ Damaged \notin Patches /\ NoPatch # Damaged
  /\ IsFiniteSet(Files)
  /\ Touches \in [Patches -> SUBSET Files] /\ \A p \in Patches : Touches[p] # {}

VARIABLES
  content,    \* the files of the workspace: whose version each one is
  active,     \* the patch of _snapshot, or NoPatch
  snapshot,   \* PatchSnapshot.files, of the files that active touches
  op,         \* the operation under way: apply, revert, or idle
  patch,      \* the patch that it applies or reverts
  phase,      \* it writes, or undoes what it wrote
  todo,       \* the files left in this phase
  replaced,   \* those replaced so far
  before,     \* originals of an apply, pre_revert_bytes of a revert
  sound,      \* rollback_ok
  damaged     \* history: an operation ended without undoing its failure

vars == <<content, active, snapshot, op, patch, phase, todo, replaced, before, sound, damaged>>
txVars == <<op, patch, phase, todo, replaced, before, sound>>

Versions == Patches \cup {NoPatch, Damaged}
Original == [f \in Files |-> NoPatch]
Patched(p) == [f \in Files |-> IF f \in Touches[p] THEN p ELSE NoPatch]

TypeOK ==
  /\ content \in [Files -> Versions] /\ snapshot \in [Files -> Versions]
  /\ before \in [Files -> Versions]
  /\ active \in Patches \cup {NoPatch} /\ patch \in Patches \cup {NoPatch}
  /\ op \in {"idle", "apply", "revert"} /\ phase \in {"write", "undo"}
  /\ sound \in BOOLEAN /\ damaged \in BOOLEAN
  /\ op # "idle" => /\ patch \in Patches
                    /\ todo \subseteq Touches[patch] /\ replaced \subseteq Touches[patch]
                    /\ active = IF op = "apply" THEN NoPatch ELSE patch

Init ==
  /\ content = Original /\ snapshot = Original /\ before = Original
  /\ active = NoPatch /\ patch = NoPatch
  /\ op = "idle" /\ phase = "write" /\ todo = {} /\ replaced = {}
  /\ sound = TRUE /\ damaged = FALSE

----------------------------------------------------------------------------
(* Everything up to the first write: the snapshot, and the files to write.  *)
Begins(operation, p) ==
  /\ op' = operation /\ patch' = p /\ phase' = "write"
  /\ todo' = Touches[p] /\ replaced' = {}
  /\ before' = content /\ sound' = TRUE
  /\ UNCHANGED <<content, active, snapshot, damaged>>

(* A diff that is malformed, not authorised or does not match the source   *)
(* is refused before this; so is any diff while a patch is active.         *)
BeginApply(p)  == op = "idle" /\ active = NoPatch /\ Begins("apply", p)
BeginRevert    == op = "idle" /\ active # NoPatch /\ Begins("revert", active)

Target(f) == IF op = "apply" THEN patch ELSE snapshot[f]

Writes(f) ==
  /\ op # "idle" /\ phase = "write" /\ f \in todo
  /\ content' = [content EXCEPT ![f] = Target(f)]
  /\ todo' = todo \ {f} /\ replaced' = replaced \cup {f}
  /\ UNCHANGED <<active, snapshot, op, patch, phase, before, sound, damaged>>

(* Up to os.replace a failure leaves the file alone.                       *)
WriteFails(f) ==
  /\ op # "idle" /\ phase = "write" /\ f \in todo
  /\ phase' = "undo" /\ todo' = replaced
  /\ UNCHANGED <<content, active, snapshot, op, patch, replaced, before, sound, damaged>>

(* Mutant: the file whose check failed is not among those to be put back.  *)
VerifyFailsUncounted(f) ==
  /\ op # "idle" /\ phase = "write" /\ f \in todo
  /\ \E v \in {Target(f), Damaged} : content' = [content EXCEPT ![f] = v]
  /\ phase' = "undo" /\ todo' = replaced
  /\ UNCHANGED <<active, snapshot, op, patch, replaced, before, sound, damaged>>

(* _verify_file_hash fails: the file reads differently, or not at all.     *)
VerifyFails(f) ==
  /\ op # "idle" /\ phase = "write" /\ f \in todo
  /\ \E v \in {Target(f), Damaged} : content' = [content EXCEPT ![f] = v]
  /\ phase' = "undo" /\ todo' = replaced \cup {f} /\ replaced' = replaced \cup {f}
  /\ UNCHANGED <<active, snapshot, op, patch, before, sound, damaged>>

Restores(f) ==
  /\ op # "idle" /\ phase = "undo" /\ f \in todo
  /\ content' = [content EXCEPT ![f] = before[f]]
  /\ todo' = todo \ {f}
  /\ UNCHANGED <<active, snapshot, op, patch, phase, replaced, before, sound, damaged>>

RestoreFails(f) ==
  /\ op # "idle" /\ phase = "undo" /\ f \in todo
  /\ \E v \in {content[f], before[f], Damaged} : content' = [content EXCEPT ![f] = v]
  /\ todo' = todo \ {f} /\ sound' = FALSE
  /\ UNCHANGED <<active, snapshot, op, patch, phase, replaced, before, damaged>>

----------------------------------------------------------------------------
Ends == op' = "idle" /\ UNCHANGED <<content, patch, phase, todo, replaced, before, sound>>

ApplySucceeds ==
  /\ op = "apply" /\ phase = "write" /\ todo = {} /\ Ends
  /\ active' = patch /\ snapshot' = before
  /\ UNCHANGED damaged

(* Mutant: the revert counts as done after the first file.                 *)
RevertSucceedsEarly ==
  /\ op = "revert" /\ phase = "write" /\ replaced # {} /\ Ends
  /\ active' = NoPatch
  /\ UNCHANGED <<snapshot, damaged>>

RevertSucceeds ==
  /\ op = "revert" /\ phase = "write" /\ todo = {} /\ Ends
  /\ active' = NoPatch
  /\ UNCHANGED <<snapshot, damaged>>

(* Reading everything back once more fails: the snapshot is kept although  *)
(* the tree was restored.                                                  *)
RevertUnconfirmed ==
  /\ op = "revert" /\ phase = "write" /\ todo = {} /\ Ends
  /\ damaged' = TRUE
  /\ UNCHANGED <<active, snapshot>>

(* Mutant: a partial failure is reported like a complete rollback.         *)
FailsSilently ==
  /\ op # "idle" /\ phase = "undo" /\ todo = {} /\ Ends
  /\ UNCHANGED <<active, snapshot, damaged>>

(* write_failure and revert_failure, or the partial ones.                  *)
Fails ==
  /\ op # "idle" /\ phase = "undo" /\ todo = {} /\ Ends
  /\ damaged' = (damaged \/ ~sound)
  /\ UNCHANGED <<active, snapshot>>

FileStep(f) ==
  Writes(f) \/ WriteFails(f) \/ VerifyFails(f) \/ Restores(f) \/ RestoreFails(f)

OperationStep ==
  \/ \E f \in Files : FileStep(f)
  \/ ApplySucceeds \/ RevertSucceeds \/ RevertUnconfirmed \/ Fails

Next == (\E p \in Patches : BeginApply(p)) \/ BeginRevert \/ OperationStep

Spec == Init /\ [][Next]_vars

----------------------------------------------------------------------------
(* Between two operations the tree is exactly what the snapshot says, file *)
(* by file, however the operations before failed, unless one of them said  *)
(* that it could not clean up.                                             *)
TreeIsExact ==
  op = "idle" /\ ~damaged
    => content = IF active = NoPatch THEN Original ELSE Patched(active)

(* A failure that reports everything rolled back is right: the files are   *)
(* those that the operation found, for an apply the original ones and for a *)
(* revert the patched ones, and the snapshot still fits them.              *)
RollbackIsExact ==
  [][Fails /\ sound => content' = before /\ active' = active]_vars

(* A revert that succeeds after any history, one that left a mixed tree     *)
(* behind included, has put back every byte of the snapshot.               *)
RevertIsComplete ==
  [][active # NoPatch /\ active' = NoPatch
       => \A f \in Touches[active] : content'[f] = snapshot[f]]_vars

(* The tree as the abstract store has it: an operation under way has not   *)
(* happened yet.                                                           *)
Holds ==
  IF damaged THEN Damaged
  ELSE IF op # "idle" THEN active
  ELSE IF content = Original THEN NoPatch
  ELSE IF active # NoPatch /\ content = Patched(active) THEN active ELSE Damaged

(* Applying and reverting file by file implements the store in which both  *)
(* are one step.                                                           *)
Store == INSTANCE PatchStore WITH tree <- Holds
ImplementsStore == Store!StoreSpec
=============================================================================
