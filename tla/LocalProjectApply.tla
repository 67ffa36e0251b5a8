------------------------- MODULE LocalProjectApply --------------------------
(***************************************************************************)
(* Local Project sessions on one repository, from the validation of the    *)
(* project to Apply To Project: the setup reads the repository             *)
(* (ui/app.py, application/local_project_git.py), the candidate is          *)
(* verified (LocalProjectVerifier), the verdict is written down as a        *)
(* certificate (local_project_source.py), and later the user may have the   *)
(* candidate applied to the repository (ui/workspace_apply.py,              *)
(* application/local_project.py).  Nothing locks the repository: the owner,  *)
(* and an apply that is still running, may change it between any two git    *)
(* commands.                                                                *)
(***************************************************************************)
EXTENDS LocalProjectVerifier

CONSTANTS
  Threads,    \* the threads of the user interface that apply
  NoSession

ASSUME ApplyAssumption == NoSession \notin Sessions

VARIABLES
  phase,      \* of each session
  base,       \* the HEAD each session was made from
  active,     \* the journal shows an active candidate, with its text
  resolved,   \* the journal shows the verifier's RESOLVED
  cert,       \* local_project_verification.json, when it permits an apply
  pc,         \* where each thread is
  applying,   \* the session whose candidate it applies
  moved,      \* HEAD has changed since the thread's last reading of it
  touched     \* the tree has changed since the thread's last git status

sessionVars == <<phase, base, active, resolved, cert>>
threadVars  == <<pc, applying, moved, touched>>
vars == <<repoVars, verifierVars, sessionVars, threadVars>>

Phases == {"new", "validating", "validated", "running", "verifying", "certifying", "over"}
NoCert == [head |-> NoCommit, evidence |-> [k \in Kinds |-> NoRecord]]

(* The gates are passed twice, before and inside apply_patch_to_project.    *)
ThreadLocations == {"idle", "head1", "status1", "check1", "head2", "status2", "check2", "apply"}

TypeOK ==
  /\ VerifierTypeOK
  /\ phase \in [Sessions -> Phases] /\ base \in [Sessions -> Commits \cup {NoCommit}]
  /\ active \in [Sessions -> BOOLEAN] /\ resolved \in [Sessions -> BOOLEAN]
  /\ cert \in [Sessions -> [head : Commits \cup {NoCommit},
       evidence : [Kinds -> [result : Results \cup {"none"}, in : Spaces \cup {NoSpace}]]]]
  /\ pc \in [Threads -> ThreadLocations]
  /\ applying \in [Threads -> Sessions \cup {NoSession}]
  /\ moved \in [Threads -> BOOLEAN] /\ touched \in [Threads -> BOOLEAN]

Init ==
  /\ VerifierInit
  /\ phase = [s \in Sessions |-> "new"] /\ base = [s \in Sessions |-> NoCommit]
  /\ active = [s \in Sessions |-> FALSE] /\ resolved = [s \in Sessions |-> FALSE]
  /\ cert = [s \in Sessions |-> NoCert]
  /\ pc = [t \in Threads |-> "idle"] /\ applying = [t \in Threads |-> NoSession]
  /\ moved = [t \in Threads |-> FALSE] /\ touched = [t \in Threads |-> FALSE]

----------------------------------------------------------------------------
(* What a change of the repository means to the threads that have read it.  *)
Moves(t)   == moved[t] \/ (head' # head /\ pc[t] \in {"status2", "check2", "apply"})
Touches(t) == touched[t] \/ (work' # work /\ pc[t] \in {"check2", "apply"})

OwnerActs ==
  /\ Owner
  /\ moved' = [t \in Threads |-> Moves(t)] /\ touched' = [t \in Threads |-> Touches(t)]
  /\ UNCHANGED <<verifierVars, sessionVars, pc, applying>>

----------------------------------------------------------------------------
(* A session.  Only one is live at a time.                                  *)
Live(s) == phase[s] \notin {"new", "over"}

(* validate_local_project reads HEAD and then git status;                   *)
(* create_isolated_worktree compares HEAD once more.  A setup that is       *)
(* refused, or in which git fails, leaves no session.                       *)
Validates(s) ==
  /\ phase[s] = "new" /\ \A other \in Sessions : ~Live(other)
  /\ phase' = [phase EXCEPT ![s] = "validating"] /\ base' = [base EXCEPT ![s] = head]
  /\ UNCHANGED <<repoVars, verifierVars, active, resolved, cert, threadVars>>
Refused(s) == phase' = [phase EXCEPT ![s] = "new"] /\ base' = [base EXCEPT ![s] = NoCommit]
ValidatesTree(s) ==
  /\ phase[s] = "validating"
  /\ \/ work = {} /\ phase' = [phase EXCEPT ![s] = "validated"] /\ UNCHANGED base
     \/ Refused(s)
  /\ UNCHANGED <<repoVars, verifierVars, active, resolved, cert, threadVars>>
CreatesWorktree(s) ==
  /\ phase[s] = "validated"
  /\ \/ head = base[s] /\ phase' = [phase EXCEPT ![s] = "running"] /\ UNCHANGED base
     \/ Refused(s)
  /\ UNCHANGED <<repoVars, verifierVars, active, resolved, cert, threadVars>>

(* The controller has ended, with a candidate to verify or without.  The    *)
(* journal shows a candidate that is verified, or none (its text was         *)
(* withheld, or it has been reverted); it may show one that is not.         *)
HasCandidate(s) ==
  /\ phase[s] = "running"
  /\ phase' = [phase EXCEPT ![s] = "verifying"]
  /\ \E shown \in BOOLEAN : active' = [active EXCEPT ![s] = shown]
  /\ Begins(base[s])
  /\ UNCHANGED <<repoVars, base, resolved, cert, threadVars>>
HasNone(s) ==
  /\ phase[s] = "running"
  /\ phase' = [phase EXCEPT ![s] = "over"]
  /\ \E shown \in BOOLEAN : active' = [active EXCEPT ![s] = shown]
  /\ UNCHANGED <<repoVars, verifierVars, base, resolved, cert, threadVars>>

Verifies(s) ==
  /\ phase[s] = "verifying" /\ VerifierStep
  /\ UNCHANGED <<repoVars, sessionVars, threadVars>>

(* evaluate() has returned: the journal is told of the outcome.  Or the     *)
(* CancellationError leaves it, and there is no outcome.                    *)
Concludes(s) ==
  /\ phase[s] = "verifying" /\ at = "returned" /\ ~raising
  /\ phase' = [phase EXCEPT ![s] = "certifying"]
  /\ resolved' = [resolved EXCEPT ![s] = status = "COMPLETED" /\ outcome = "RESOLVED"]
  /\ UNCHANGED <<repoVars, verifierVars, base, active, cert, threadVars>>
IsCancelled(s) ==
  /\ phase[s] = "verifying" /\ at = "returned" /\ raising
  /\ phase' = [phase EXCEPT ![s] = "over"] /\ Forgets
  /\ UNCHANGED <<repoVars, base, active, resolved, cert, threadVars>>

(* The certificate is written, or cannot be (or the task file it is checked *)
(* against cannot be read back).  One that does not permit an apply is as   *)
(* good as none.                                                            *)
Certifies(s) ==
  /\ phase[s] = "certifying" /\ phase' = [phase EXCEPT ![s] = "over"]
  /\ \/ Permits /\ cert' = [cert EXCEPT ![s] = [head |-> plan, evidence |-> records]]
     \/ UNCHANGED cert
  /\ Forgets
  /\ UNCHANGED <<repoVars, base, active, resolved, threadVars>>

(* The worker dies, in the middle of anything.                              *)
Dies(s) ==
  /\ phase[s] \in {"running", "verifying", "certifying"}
  /\ phase' = [phase EXCEPT ![s] = "over"] /\ Forgets
  /\ UNCHANGED <<repoVars, base, active, resolved, cert, threadVars>>

----------------------------------------------------------------------------
(* Mutant: the proof is the outcome shown on the screen, as it was before   *)
(* there were certificates, with no look at what was verified.               *)
ProvenByScreen(s) == phase[s] = "over" /\ active[s]

(* local_project_apply_candidate and local_project_apply_proof.              *)
Proven(s) ==
  /\ phase[s] = "over" /\ active[s] /\ resolved[s]
  /\ cert[s] # NoCert /\ cert[s].head = base[s]

(* The key is pressed.  A second press starts a second thread: the first    *)
(* one, in the middle of a git command, cannot be stopped.                  *)
Presses(t, s) ==
  /\ pc[t] = "idle" /\ Proven(s)
  /\ pc' = [pc EXCEPT ![t] = "head1"] /\ applying' = [applying EXCEPT ![t] = s]
  /\ moved' = [moved EXCEPT ![t] = FALSE] /\ touched' = [touched EXCEPT ![t] = FALSE]
  /\ UNCHANGED <<repoVars, verifierVars, sessionVars>>

Goes(t, to) ==
  /\ pc' = [pc EXCEPT ![t] = to]
  /\ applying' = [applying EXCEPT ![t] = IF to = "idle" THEN NoSession ELSE @]
  /\ UNCHANGED <<repoVars, verifierVars, sessionVars>>

(* A gate that is not passed, or a git command that fails.                  *)
Blocked(t) ==
  /\ pc[t] \in ThreadLocations \ {"idle"} /\ Goes(t, "idle")
  /\ moved' = [moved EXCEPT ![t] = FALSE] /\ touched' = [touched EXCEPT ![t] = FALSE]

(* Mutant: the gate asks for the HEAD it has itself just read.              *)
SomeHead(s) == head \in Commits

HeadGate(s) == head = base[s]

(* Mutant: an edited tree is no reason to refuse.                           *)
AnyTree == work \subseteq Marks

TreeGate == work = {}

PassesHead(t, from, to) ==
  /\ pc[t] = from /\ HeadGate(applying[t]) /\ Goes(t, to)
  /\ moved' = [moved EXCEPT ![t] = FALSE] /\ UNCHANGED touched
PassesTree(t, from, to) ==
  /\ pc[t] = from /\ TreeGate /\ Goes(t, to)
  /\ touched' = [touched EXCEPT ![t] = FALSE] /\ UNCHANGED moved
(* git apply --check: whether a patch fits is up to git.                    *)
PassesCheck(t, from, to) ==
  /\ pc[t] = from /\ Goes(t, to) /\ UNCHANGED <<moved, touched>>

(* git apply, on the tree as it is by now: it writes the candidate, or a    *)
(* part of it before its timeout ends it.  (If it refuses, it has written   *)
(* nothing: Blocked.)                                                       *)
Applies(t) ==
  /\ pc[t] = "apply"
  /\ work' = work \cup {applying[t]}
  /\ pc' = [pc EXCEPT ![t] = "idle"] /\ applying' = [applying EXCEPT ![t] = NoSession]
  /\ moved' = [moved EXCEPT ![t] = FALSE]
  /\ touched' = [u \in Threads |-> u # t /\ Touches(u)]
  /\ UNCHANGED <<head, verifierVars, sessionVars>>

----------------------------------------------------------------------------
SessionStep(s) ==
  \/ Validates(s) \/ ValidatesTree(s) \/ CreatesWorktree(s) \/ HasCandidate(s) \/ HasNone(s)
  \/ Verifies(s) \/ Concludes(s) \/ IsCancelled(s) \/ Certifies(s) \/ Dies(s)

ThreadStep(t) ==
  \/ \E s \in Sessions : Presses(t, s)
  \/ PassesHead(t, "head1", "status1") \/ PassesTree(t, "status1", "check1")
  \/ PassesCheck(t, "check1", "head2")
  \/ PassesHead(t, "head2", "status2") \/ PassesTree(t, "status2", "check2")
  \/ PassesCheck(t, "check2", "apply")
  \/ Blocked(t) \/ Applies(t)

Next ==
  \/ OwnerActs
  \/ \E s \in Sessions : SessionStep(s)
  \/ \E t \in Threads : ThreadStep(t)

Spec == Init /\ [][Next]_vars

----------------------------------------------------------------------------
(* A certificate that permits an apply rests on evidence for the commit the *)
(* session was made from, whatever the owner did to HEAD and the tree while *)
(* the verifier looked, exported and ran.                                   *)
ResolvedIsGenuine ==
  \A s \in Sessions : cert[s] # NoCert => Genuine(cert[s].evidence, base[s])

(* Whatever part of a candidate is in the owner's tree, it is one that was  *)
(* verified, to the end, with that evidence.                                *)
OnlyVerifiedLands ==
  \A s \in Sessions :
    s \in work => cert[s] # NoCert /\ Genuine(cert[s].evidence, base[s])

(* git apply runs on the commit the candidate was verified on, with nothing *)
(* else in the tree (not the owner's edits, not a candidate, its own of a   *)
(* second press included), unless that changed in the last few git commands *)
(* of the thread: after its second reading of HEAD, after its second status.*)
AppliesOnVerifiedBase ==
  \A t \in Threads : pc[t] = "apply" =>
    /\ head = base[applying[t]] \/ moved[t]
    /\ work = {} \/ touched[t]

(* A verdict COMPLETED is one LocalProjectEvaluationResult accepts: the      *)
(* failure was seen and the other tests passed on the plain export, both    *)
(* were run with the candidate, the repository is as it was, and no          *)
(* workspace is left.  (evaluate() would raise in its last line.)            *)
CompletedHasProof ==
  at = "returned" /\ status = "COMPLETED" =>
    /\ outcome # "none" /\ unchanged /\ ~cleanup.left
    /\ records["f2pBase"].result = "FAIL" /\ records["p2pBase"].result = "PASS"
    /\ records["f2p"].result # "none" /\ records["p2p"].result # "none"
=============================================================================
