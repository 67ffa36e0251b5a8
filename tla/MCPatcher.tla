----------------------------- MODULE MCPatcher -----------------------------
(* Patcher on three files and two patches that share one of them, so that  *)
(* an operation can fail before, between and after its replacements.        *)
EXTENDS Patcher

CONSTANTS f1, f2, f3, p1, p2

MCFiles   == {f1, f2, f3}
MCPatches == {p1, p2}
MCTouches == [p \in MCPatches |-> IF p = p1 THEN {f1, f2} ELSE {f2, f3}]
=============================================================================
