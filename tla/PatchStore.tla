----------------------------- MODULE PatchStore ----------------------------
(***************************************************************************)
(* What the patch manager promises to the tools of a repair session         *)
(* (runtime/patcher.py): the working tree holds at most one patch, an       *)
(* operation takes effect as a whole or not at all, and one that cannot be  *)
(* undone either is not passed over in silence.  Patcher implements this,   *)
(* and RepairSession is built on it.                                        *)
(***************************************************************************)
CONSTANTS
  Patches,   \* what the model may propose
  NoPatch,   \* the original source
  Damaged    \* a tree that is neither

ASSUME StoreAssumption == NoPatch \notin Patches /\ Damaged \notin Patches /\ NoPatch # Damaged

VARIABLES
  tree,      \* what the working tree holds
  active     \* the patch that a revert would take out

storeVars == <<tree, active>>

StoreTypeOK == tree \in Patches \cup {NoPatch, Damaged} /\ active \in Patches \cup {NoPatch}

StoreInit == tree = NoPatch /\ active = NoPatch

Applies(p) ==
  /\ active = NoPatch
  /\ active' = p /\ tree' = IF tree = NoPatch THEN p ELSE tree

Reverts ==
  /\ active # NoPatch
  /\ active' = NoPatch /\ tree' = IF tree = active THEN NoPatch ELSE tree

(* A write failed, and so did the attempt to undo those before it.         *)
Breaks == tree' = Damaged /\ UNCHANGED active

StoreNext == (\E p \in Patches : Applies(p)) \/ Reverts \/ Breaks

StoreSpec == StoreInit /\ [][StoreNext]_storeVars
=============================================================================
