------------------------ MODULE LocalProjectVerifier ------------------------
(***************************************************************************)
(* The independent verifier of a Local Project candidate                   *)
(* (evaluation/local_project_verifier.py).  It looks at the owner's         *)
(* repository, exports the bound commit, runs the two commands of the       *)
(* project on the plain and on the patched export, each in a workspace of   *)
(* its own, removes everything, and looks at the repository again.  The     *)
(* owner goes on working in that repository, and each look is three git     *)
(* commands, one after another.                                             *)
(***************************************************************************)
CONSTANTS
  Commits,    \* what HEAD of the owner's repository may be
  NoCommit,   \* not read, or not exported
  Sessions    \* the Local Project sessions, each with one candidate

ASSUME VerifierAssumption == NoCommit \notin Commits /\ "edit" \notin Sessions

VARIABLES
  head,       \* HEAD of the owner's repository
  work,       \* the uncommitted changes in its working tree
  at,         \* where evaluate() is
  plan,       \* the commit the candidate is bound to
  look,       \* the look at the repository under way: what is read so far
  before,     \* the look at the start
  exported,   \* the commit in the export, of which workspaces are copies
  space,      \* the workspace in use: a copy, patched or not, used or not
  records,    \* the evidence: result of each command, and where it ran
  cleanup,    \* the workspaces and the export: any left, any failure noted
  status,     \* _State.status
  outcome,    \* _State.outcome
  raising,    \* a CancellationError is on its way out
  unchanged   \* canonical_fixture_unchanged

repoVars == <<head, work>>
verifierVars == <<at, plan, look, before, exported, space, records, cleanup,
                  status, outcome, raising, unchanged>>

(* The owner's own edits, and the candidates, each wholly or partly written. *)
Marks == {"edit"} \cup Sessions

Kinds     == {"f2pBase", "p2pBase", "f2p", "p2p"}
Results   == {"PASS", "FAIL"}
Looks     == [head : Commits \cup {NoCommit}, tree : Commits \cup {NoCommit}, clean : BOOLEAN]
Spaces    == [of : Commits, patched : BOOLEAN, used : BOOLEAN]
NoLook    == [head |-> NoCommit, tree |-> NoCommit, clean |-> FALSE]
NoSpace   == [of |-> NoCommit, patched |-> FALSE, used |-> FALSE]
NoRecord  == [result |-> "none", in |-> NoSpace]
Stages    == {"baseRepro", "baseRegress", "apply", "syntax", "repro", "regress", "classify"}
Locations == {"off", "head1", "tree1", "status1", "export"} \cup Stages
               \cup {"finish", "head2", "tree2", "status2", "returned"}

VerifierTypeOK ==
  /\ head \in Commits /\ work \subseteq Marks
  /\ at \in Locations /\ plan \in Commits \cup {NoCommit}
  /\ look \in Looks /\ before \in Looks
  /\ exported \in Commits \cup {NoCommit}
  /\ space \in Spaces \cup {NoSpace}
  /\ records \in [Kinds -> [result : Results \cup {"none"}, in : Spaces \cup {NoSpace}]]
  /\ cleanup \in [left : BOOLEAN, error : BOOLEAN]
  /\ status \in {"none", "failed", "COMPLETED", "SOURCE_CHANGED", "CLEANUP_FAILED"}
  /\ outcome \in {"none", "RESOLVED", "other"}
  /\ raising \in BOOLEAN /\ unchanged \in BOOLEAN

Idle ==
  /\ at = "off" /\ plan = NoCommit /\ look = NoLook /\ before = NoLook
  /\ exported = NoCommit /\ space = NoSpace /\ records = [k \in Kinds |-> NoRecord]
  /\ cleanup = [left |-> FALSE, error |-> FALSE]
  /\ status = "none" /\ outcome = "none" /\ raising = FALSE /\ unchanged = FALSE

VerifierInit == head \in Commits /\ work = {} /\ Idle

----------------------------------------------------------------------------
(* The owner edits, throws the uncommitted changes away, commits them, or   *)
(* moves HEAD (the tree is then that of another commit).                    *)
Owner ==
  \/ work' = work \cup {"edit"} /\ UNCHANGED head
  \/ work' = {} /\ UNCHANGED head
  \/ \E c \in Commits \ {head} : head' = c /\ work' = {}

----------------------------------------------------------------------------
(* A verification of the candidate, bound to commit c.                      *)
Begins(c) ==
  /\ at' = "head1" /\ plan' = c
  /\ look' = NoLook /\ before' = NoLook /\ exported' = NoCommit /\ space' = NoSpace
  /\ records' = [k \in Kinds |-> NoRecord]
  /\ cleanup' = [left |-> FALSE, error |-> FALSE]
  /\ status' = "none" /\ outcome' = "none" /\ raising' = FALSE /\ unchanged' = FALSE

(* The state of a verifier whose verdict has been taken, or whose worker is  *)
(* gone.                                                                    *)
Forgets ==
  /\ at' = "off" /\ plan' = NoCommit /\ look' = NoLook /\ before' = NoLook
  /\ exported' = NoCommit /\ space' = NoSpace /\ records' = [k \in Kinds |-> NoRecord]
  /\ cleanup' = [left |-> FALSE, error |-> FALSE]
  /\ status' = "none" /\ outcome' = "none" /\ raising' = FALSE /\ unchanged' = FALSE

(* _inspect_source: HEAD, its tree, then git status.  A tree is named by    *)
(* the commit it belongs to.                                                *)
ReadsHead(from, to) ==
  /\ at = from /\ at' = to /\ look' = [NoLook EXCEPT !.head = head]
  /\ UNCHANGED <<plan, before, exported, space, records, cleanup, status,
                 outcome, raising, unchanged>>
ReadsTree(from, to) ==
  /\ at = from /\ at' = to /\ look' = [look EXCEPT !.tree = head]
  /\ UNCHANGED <<plan, before, exported, space, records, cleanup, status,
                 outcome, raising, unchanged>>

Seen == [look EXCEPT !.clean = (work = {})]

(* The first look: HEAD has to be the bound commit, and nothing uncommitted. *)
FirstLook ==
  /\ at = "status1" /\ before' = Seen /\ look' = NoLook
  /\ \/ Seen.head = plan /\ Seen.clean /\ at' = "export" /\ UNCHANGED status
     \/ (Seen.head # plan \/ ~Seen.clean) /\ at' = "finish" /\ status' = "failed"
  /\ UNCHANGED <<plan, exported, space, records, cleanup, outcome, raising, unchanged>>

(* An exception of a git command, of the export, or of a copy.  A broken    *)
(* export may leave its directory.                                          *)
Breaks ==
  /\ at \in {"head1", "tree1", "status1", "export"} \cup (Stages \ {"syntax", "classify"})
  /\ at' = "finish" /\ status' = "failed" /\ look' = NoLook
  /\ \E left \in IF at = "export" THEN BOOLEAN ELSE {cleanup.left} :
       cleanup' = [cleanup EXCEPT !.left = left]
  /\ UNCHANGED <<plan, before, exported, space, records, outcome, raising, unchanged>>

(* Mutant: the export is of what HEAD is now.                               *)
ExportOfHead ==
  /\ at = "export" /\ at' = "baseRepro" /\ exported' = head
  /\ cleanup' = [cleanup EXCEPT !.left = TRUE]
  /\ UNCHANGED <<plan, look, before, space, records, status, outcome, raising, unchanged>>

(* git archive of the commit that was read, unpacked into the export.       *)
Export ==
  /\ at = "export" /\ at' = "baseRepro" /\ exported' = before.head
  /\ cleanup' = [cleanup EXCEPT !.left = TRUE]
  /\ UNCHANGED <<plan, look, before, space, records, status, outcome, raising, unchanged>>

(* Mutant: one workspace serves every command.                              *)
SharedSpace(patched) ==
  [of |-> exported, patched |-> patched, used |-> space # NoSpace /\ space.used]

(* A copy of the export, to which the candidate is applied or not.          *)
Fresh(patched) == [of |-> exported, patched |-> patched, used |-> FALSE]

(* A workspace is removed, or stays and is noted.                           *)
Releases == \E gone \in BOOLEAN : cleanup' = [cleanup EXCEPT !.error = @ \/ ~gone]

(* The evaluation ends early, with a workspace to remove.                   *)
Stops ==
  /\ at' = "finish" /\ status' = "failed" /\ Releases
  /\ UNCHANGED <<plan, look, before, exported, records, outcome, raising, unchanged>>

(* One command, in workspace s.  A timeout, a command that could not run, a *)
(* result that is not wanted and a failed removal end the evaluation; what  *)
(* is noted of those is left out.                                           *)
Runs(kind, s, wanted, next) ==
  /\ space' = [s EXCEPT !.used = TRUE]
  /\ \/ /\ \E r \in wanted : records' = [records EXCEPT ![kind] = [result |-> r, in |-> s]]
        /\ at' = next
        /\ UNCHANGED <<plan, look, before, exported, cleanup, status, outcome, raising, unchanged>>
     \/ Stops

(* The session has no such command: that too is only found out here.       *)
Lacks ==
  /\ at' = "finish" /\ status' = "failed"
  /\ UNCHANGED <<plan, look, before, exported, space, records, cleanup, outcome, raising, unchanged>>

(* The failure has to show on the plain export, and the other tests to pass. *)
BaselineReproduction ==
  at = "baseRepro" /\ (Lacks \/ Runs("f2pBase", Fresh(FALSE), {"FAIL"}, "baseRegress"))
BaselineRegression ==
  at = "baseRegress" /\ (Lacks \/ Runs("p2pBase", Fresh(FALSE), {"PASS"}, "apply"))

(* The candidate goes into a fresh workspace, where its files must compile; *)
(* in the same workspace the failure is looked for again.                   *)
ApplyCandidate ==
  /\ at = "apply"
  /\ \/ space' = Fresh(TRUE) /\ at' = "syntax"
        /\ UNCHANGED <<plan, look, before, exported, records, cleanup, status, outcome, raising, unchanged>>
     \/ space' = Fresh(FALSE) /\ Stops
SyntaxCheck ==
  /\ at = "syntax" /\ UNCHANGED space
  /\ \/ at' = "repro"
        /\ UNCHANGED <<plan, look, before, exported, records, cleanup, status, outcome, raising, unchanged>>
     \/ Stops
PatchedReproduction ==
  at = "repro" /\ Runs("f2p", space, {"PASS", "FAIL"}, "regress")

(* The candidate is applied once more, to another fresh workspace.          *)
PatchedRegression ==
  /\ at = "regress"
  /\ \/ Runs("p2p", Fresh(TRUE), {"PASS", "FAIL"}, "classify")
     \/ space' = Fresh(FALSE) /\ Stops

Classify ==
  /\ at = "classify" /\ at' = "finish" /\ status' = "COMPLETED"
  /\ outcome' = IF records["f2p"].result = "PASS" /\ records["p2p"].result = "PASS"
                  THEN "RESOLVED" ELSE "other"
  /\ UNCHANGED <<plan, look, before, exported, space, records, cleanup, raising, unchanged>>

(* A checkpoint, or the poll of a command, finds the session cancelled.      *)
Cancels ==
  /\ at \in {"head1", "export"} \cup Stages
  /\ at' = "finish" /\ raising' = TRUE /\ look' = NoLook
  /\ UNCHANGED <<plan, before, exported, space, records, cleanup, status, outcome, unchanged>>

(* Mutant: what stays of the export is not noted.                           *)
FinishQuietly ==
  /\ at = "finish" /\ at' = "head2"
  /\ \E gone \in IF cleanup.left THEN BOOLEAN ELSE {TRUE} : cleanup' = [cleanup EXCEPT !.left = ~gone]
  /\ UNCHANGED <<plan, look, before, exported, space, records, status, outcome,
                 raising, unchanged>>

(* _finish: every workspace is inside the export, which is removed or stays. *)
Finish ==
  /\ at = "finish" /\ at' = "head2"
  /\ \E gone \in IF cleanup.left THEN BOOLEAN ELSE {TRUE} :
       cleanup' = [left |-> ~gone, error |-> cleanup.error \/ ~gone]
  /\ UNCHANGED <<plan, look, before, exported, space, records, status, outcome,
                 raising, unchanged>>

(* The verdict stands when the two looks agree and nothing is left behind.   *)
Verdict(after) ==
  /\ at' = "returned" /\ look' = NoLook
  /\ unchanged' = (after.head = plan /\ before = after /\ after.clean)
  /\ \/ before # NoLook /\ ~unchanged' /\ status' = "SOURCE_CHANGED" /\ outcome' = "none"
     \/ (before = NoLook \/ unchanged') /\ cleanup.error
        /\ status' = "CLEANUP_FAILED" /\ outcome' = "none"
     \/ (before = NoLook \/ unchanged') /\ ~cleanup.error /\ UNCHANGED <<status, outcome>>
  /\ UNCHANGED <<plan, before, exported, space, records, cleanup, raising>>

SecondLook == at = "status2" /\ Verdict(Seen)
LookFails  == at \in {"head2", "tree2", "status2"} /\ Verdict(NoLook)

VerifierStep ==
  \/ ReadsHead("head1", "tree1") \/ ReadsTree("tree1", "status1") \/ FirstLook
  \/ Breaks \/ Export
  \/ BaselineReproduction \/ BaselineRegression \/ ApplyCandidate \/ SyntaxCheck
  \/ PatchedReproduction \/ PatchedRegression \/ Classify
  \/ Cancels \/ Finish
  \/ ReadsHead("head2", "tree2") \/ ReadsTree("tree2", "status2") \/ SecondLook \/ LookFails

----------------------------------------------------------------------------
(* permits_apply of the certificate that is made of this verdict.           *)
Permits ==
  /\ status = "COMPLETED" /\ outcome = "RESOLVED"
  /\ records["f2pBase"].result = "FAIL" /\ records["p2pBase"].result = "PASS"
  /\ records["f2p"].result = "PASS" /\ records["p2p"].result = "PASS"
  /\ ~cleanup.left /\ unchanged

(* Evidence that the candidate mends commit c: the failure was seen on c,   *)
(* the other tests passed on it, both pass with the candidate, and each     *)
(* command ran in a copy that no other command had been run in.             *)
Genuine(evidence, c) ==
  LET ran(kind, result, patched) ==
        evidence[kind] = [result |-> result, in |-> [of |-> c, patched |-> patched, used |-> FALSE]]
  IN  /\ ran("f2pBase", "FAIL", FALSE) /\ ran("p2pBase", "PASS", FALSE)
      /\ ran("f2p", "PASS", TRUE)      /\ ran("p2p", "PASS", TRUE)
=============================================================================
