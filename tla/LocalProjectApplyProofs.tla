----------------------- MODULE LocalProjectApplyProofs ----------------------
(***************************************************************************)
(* For any commits, sessions and threads, and whatever the owner does:      *)
(* what a certificate that permits an apply says was found on the commit    *)
(* of its session, only what was verified so reaches the owner's tree, and  *)
(* it is written on that commit unless that moved in the last moment.       *)
(***************************************************************************)
EXTENDS LocalProjectApply, TLAPS

(* A workspace as it is before its command runs.                            *)
Copy(c, patched) == [of |-> c, patched |-> patched, used |-> FALSE]

(* The verifier works on the bound commit only: its export, the workspace   *)
(* it goes on with, and the workspace of every command it has recorded.     *)
OnPlan ==
  /\ at # "off" => plan \in Commits
  /\ at = "export" => before.head = plan
  /\ at \in Stages => exported = plan
  /\ at \in {"syntax", "repro"} => space = Copy(plan, TRUE)
  /\ \A k \in Kinds :
       records[k].result # "none" =>
         records[k].in = IF k \in {"f2p", "p2p"} THEN Copy(plan, TRUE) ELSE Copy(plan, FALSE)

(* What the verifier has found by the time it is where it is.               *)
Progress ==
  /\ at \in {"off", "head1", "tree1", "status1", "export"} \cup Stages => status = "none"
  /\ at \in {"export"} \cup Stages \/ status = "COMPLETED" => before # NoLook
  /\ at \in Stages \ {"baseRepro"} \/ status = "COMPLETED" => records["f2pBase"].result = "FAIL"
  /\ at \in Stages \ {"baseRepro", "baseRegress"} \/ status = "COMPLETED" =>
       records["p2pBase"].result = "PASS"
  /\ at \in {"regress", "classify"} \/ status = "COMPLETED" => records["f2p"].result # "none"
  /\ at = "classify" \/ status = "COMPLETED" => records["p2p"].result # "none"
  /\ status = "COMPLETED" => outcome # "none"
  /\ at \in {"head2", "tree2", "status2"} /\ cleanup.left => cleanup.error
  /\ at = "returned" /\ status = "COMPLETED" => unchanged /\ ~cleanup.left

(* One session is live, and the verifier is at work for it alone.           *)
Places ==
  /\ \A s, r \in Sessions : Live(s) /\ Live(r) => s = r
  /\ \A s \in Sessions :
       /\ phase[s] # "new" => base[s] \in Commits
       /\ phase[s] \in {"verifying", "certifying"} => at # "off" /\ plan = base[s]
       /\ phase[s] = "certifying" => at = "returned"
       /\ cert[s] # NoCert => phase[s] = "over"

(* A thread works for a session that is over and has its certificate.       *)
Working ==
  \A t \in Threads : pc[t] # "idle" =>
    /\ applying[t] \in Sessions
    /\ cert[applying[t]] # NoCert

(* What a thread has read still holds, or it has changed since.             *)
HasRead ==
  \A t \in Threads :
    /\ pc[t] \in {"status2", "check2", "apply"} => head = base[applying[t]] \/ moved[t]
    /\ pc[t] \in {"check2", "apply"} => work = {} \/ touched[t]

(* Whatever is in the tree has a certificate.                               *)
LandsCertified == \A s \in Sessions : s \in work => cert[s] # NoCert

IInv ==
  /\ TypeOK /\ OnPlan /\ Progress /\ Places /\ Working /\ HasRead
  /\ LandsCertified /\ ResolvedIsGenuine

----------------------------------------------------------------------------
(* The verifier stays on its plan through each of its steps.                *)
LEMMA LooksTyped ==
  ASSUME VerifierTypeOK
  PROVE  [NoLook EXCEPT !.head = head] \in Looks /\ [look EXCEPT !.tree = head] \in Looks
           /\ Seen \in Looks /\ NoLook \in Looks
BY DEF VerifierTypeOK, Looks, NoLook, Seen

LEMMA ReleasesTyped ==
  ASSUME VerifierTypeOK, Releases \/ cleanup' = [cleanup EXCEPT !.left = TRUE]
  PROVE  cleanup' \in [left : BOOLEAN, error : BOOLEAN]
BY DEF VerifierTypeOK, Releases

LEMMA CopiesTyped ==
  ASSUME NEW c \in Commits, NEW patched \in BOOLEAN
  PROVE  Copy(c, patched) \in Spaces
BY DEF Copy, Spaces

LEMMA FreshIsCopy ==
  ASSUME exported \in Commits, NEW patched \in BOOLEAN
  PROVE  Fresh(patched) \in Spaces /\ Fresh(patched) = Copy(exported, patched)
BY DEF Fresh, Copy, Spaces

(* A command leaves one record, of its own kind, in the workspace it was    *)
(* given, or none and the evaluation ends.                                  *)
LEMMA RunsEffect ==
  ASSUME VerifierTypeOK, NEW kind \in Kinds, NEW s \in Spaces,
         NEW wanted \in SUBSET Results, NEW next \in Stages, Runs(kind, s, wanted, next)
  PROVE  /\ space' \in Spaces
         /\ records' \in [Kinds -> [result : Results \cup {"none"}, in : Spaces \cup {NoSpace}]]
         /\ cleanup' \in [left : BOOLEAN, error : BOOLEAN]
         /\ \/ at' = next /\ records'[kind].result \in wanted /\ UNCHANGED status
            \/ at' = "finish" /\ status' = "failed"
         /\ \A k \in Kinds : records'[k] = records[k] \/ (k = kind /\ records'[k].in = s)
         /\ UNCHANGED <<plan, look, before, exported, outcome, raising, unchanged>>
<1>1. space' \in Spaces
  BY DEF Runs, Spaces
<1>2. CASE Stops
  <2>1. cleanup' \in [left : BOOLEAN, error : BOOLEAN]
    BY <1>2, ReleasesTyped DEF Stops
  <2> QED
    BY <1>1, <1>2, <2>1 DEF Stops, VerifierTypeOK
<1>3. ASSUME NEW r \in wanted, records' = [records EXCEPT ![kind] = [result |-> r, in |-> s]],
             at' = next,
             UNCHANGED <<plan, look, before, exported, cleanup, status, outcome, raising, unchanged>>
      PROVE  /\ records' \in [Kinds -> [result : Results \cup {"none"}, in : Spaces \cup {NoSpace}]]
             /\ \A k \in Kinds : records'[k] = records[k] \/ (k = kind /\ records'[k].in = s)
             /\ records'[kind].result \in wanted
  <2>1. [result |-> r, in |-> s] \in [result : Results \cup {"none"}, in : Spaces \cup {NoSpace}]
    OBVIOUS
  <2> QED
    BY <1>3, <2>1 DEF VerifierTypeOK
<1> QED
  BY <1>1, <1>2, <1>3 DEF Runs, VerifierTypeOK

LEMMA VerifierKeepsType ==
  ASSUME VerifierTypeOK, OnPlan, at # "off", VerifierStep, UNCHANGED repoVars
  PROVE  VerifierTypeOK'
<1> USE DEF VerifierTypeOK, repoVars, Locations, Stages, OnPlan
<1>0. at \in Stages => exported \in Commits
  OBVIOUS
<1>1. CASE ReadsHead("head1", "tree1")
  BY <1>1, LooksTyped DEF ReadsHead
<1>2. CASE ReadsTree("tree1", "status1")
  BY <1>2, LooksTyped DEF ReadsTree
<1>3. CASE FirstLook
  BY <1>3, LooksTyped DEF FirstLook
<1>4. CASE Breaks
  <2>1. cleanup' \in [left : BOOLEAN, error : BOOLEAN]
    BY <1>4 DEF Breaks
  <2> QED
    BY <1>4, <2>1, LooksTyped DEF Breaks
<1>5. CASE Export
  BY <1>5, ReleasesTyped DEF Export
<1>6. CASE BaselineReproduction
  <2>1. CASE Runs("f2pBase", Fresh(FALSE), {"FAIL"}, "baseRegress")
    BY <1>0, <1>6, <2>1, FreshIsCopy, RunsEffect, ZenonT(40)
       DEF BaselineReproduction, Kinds, Results, Spaces, Copy
  <2>2. CASE Lacks
    BY <1>0, <1>6, <2>2, FreshIsCopy, ReleasesTyped DEF Lacks
  <2> QED
    BY <1>6, <2>1, <2>2 DEF BaselineReproduction
<1>7. CASE BaselineRegression
  <2>1. CASE Runs("p2pBase", Fresh(FALSE), {"PASS"}, "apply")
    BY <1>0, <1>7, <2>1, FreshIsCopy, RunsEffect, ZenonT(40)
       DEF BaselineRegression, Kinds, Results, Spaces, Copy
  <2>2. CASE Lacks
    BY <1>0, <1>7, <2>2, FreshIsCopy, ReleasesTyped DEF Lacks
  <2> QED
    BY <1>7, <2>1, <2>2 DEF BaselineRegression
<1>8. CASE ApplyCandidate
  BY <1>0, <1>8, ReleasesTyped, FreshIsCopy DEF ApplyCandidate, Stops
<1>9. CASE SyntaxCheck
  BY <1>9, ReleasesTyped DEF SyntaxCheck, Stops
<1>10. CASE PatchedReproduction
  <2>0. space \in Spaces /\ space = Copy(plan, TRUE)
    <3>1. at = "repro"
      BY <1>10 DEF PatchedReproduction
    <3> QED
      BY <3>1, CopiesTyped
  <2>1. CASE Runs("f2p", space, {"PASS", "FAIL"}, "regress")
    BY <1>0, <1>10, <2>0, <2>1, FreshIsCopy, RunsEffect, ZenonT(40)
       DEF PatchedReproduction, Kinds, Results, Spaces, Copy
  <2> QED
    BY <1>10, <2>1 DEF PatchedReproduction
<1>11. CASE PatchedRegression
  <2>1. CASE Runs("p2p", Fresh(TRUE), {"PASS", "FAIL"}, "classify")
    BY <1>0, <1>11, <2>1, FreshIsCopy, RunsEffect, ZenonT(40)
       DEF PatchedRegression, Kinds, Results, Spaces, Copy
  <2>2. CASE space' = Fresh(FALSE) /\ Stops
    BY <1>0, <1>11, <2>2, FreshIsCopy, ReleasesTyped DEF PatchedRegression, Stops
  <2> QED
    BY <1>11, <2>1, <2>2 DEF PatchedRegression
<1>12. CASE Classify
  BY <1>12 DEF Classify
<1>13. CASE Cancels
  BY <1>13, LooksTyped DEF Cancels
<1>14. CASE Finish
  BY <1>14 DEF Finish
<1>15. CASE ReadsHead("head2", "tree2")
  BY <1>15, LooksTyped DEF ReadsHead
<1>16. CASE ReadsTree("tree2", "status2")
  BY <1>16, LooksTyped DEF ReadsTree
<1>17. CASE SecondLook
  BY <1>17, LooksTyped DEF SecondLook, Verdict
<1>18. CASE LookFails
  BY <1>18, LooksTyped DEF LookFails, Verdict
<1> QED
  BY <1>1, <1>2, <1>3, <1>4, <1>5, <1>6, <1>7, <1>8, <1>9, <1>10, <1>11, <1>12, <1>13, <1>14, <1>15, <1>16, <1>17, <1>18 DEF VerifierStep

LEMMA VerifierKeepsPlan ==
  ASSUME VerifierTypeOK, OnPlan, at # "off", VerifierStep, UNCHANGED repoVars
  PROVE  OnPlan' /\ plan' = plan /\ at' # "off"
<1> USE DEF OnPlan, Copy, Stages, Kinds
<1>0. /\ at \in Stages => exported \in Commits
      /\ \A c \in Commits, b \in BOOLEAN : Copy(c, b) \in Spaces
  BY DEF Spaces
<1>1. CASE ReadsHead("head1", "tree1")
  BY <1>1 DEF ReadsHead
<1>2. CASE ReadsTree("tree1", "status1")
  BY <1>2 DEF ReadsTree
<1>3. CASE FirstLook
  BY <1>3 DEF FirstLook, Seen
<1>4. CASE Breaks
  BY <1>4 DEF Breaks
<1>5. CASE Export
  BY <1>5 DEF Export
<1>6. CASE BaselineReproduction
  <2>1. CASE Runs("f2pBase", Fresh(FALSE), {"FAIL"}, "baseRegress")
    <3>1. at \in Stages /\ plan \in Commits /\ Fresh(FALSE) \in Spaces /\ Fresh(FALSE) = Copy(plan, FALSE)
      BY <1>0, <1>6, FreshIsCopy DEF BaselineReproduction
    <3>2. /\ at' \in {"baseRegress", "finish"} /\ UNCHANGED <<plan, before, exported>>
          /\ \A k \in Kinds : records'[k] = records[k] \/ (k = "f2pBase" /\ records'[k].in = Fresh(FALSE))
      BY <2>1, <3>1, RunsEffect DEF Results
    <3>3. \A k \in Kinds :
            records'[k].result # "none" =>
              records'[k].in = IF k \in {"f2p", "p2p"} THEN Copy(plan', TRUE) ELSE Copy(plan', FALSE)
      BY <3>1, <3>2
    <3> QED
      BY <3>1, <3>2, <3>3
  <2>2. CASE Lacks
    BY <1>6, <2>2 DEF Lacks
  <2> QED
    BY <1>6, <2>1, <2>2 DEF BaselineReproduction
<1>7. CASE BaselineRegression
  <2>1. CASE Runs("p2pBase", Fresh(FALSE), {"PASS"}, "apply")
    <3>1. at \in Stages /\ plan \in Commits /\ Fresh(FALSE) \in Spaces /\ Fresh(FALSE) = Copy(plan, FALSE)
      BY <1>0, <1>7, FreshIsCopy DEF BaselineRegression
    <3>2. /\ at' \in {"apply", "finish"} /\ UNCHANGED <<plan, before, exported>>
          /\ \A k \in Kinds : records'[k] = records[k] \/ (k = "p2pBase" /\ records'[k].in = Fresh(FALSE))
      BY <2>1, <3>1, RunsEffect DEF Results
    <3>3. \A k \in Kinds :
            records'[k].result # "none" =>
              records'[k].in = IF k \in {"f2p", "p2p"} THEN Copy(plan', TRUE) ELSE Copy(plan', FALSE)
      BY <3>1, <3>2
    <3> QED
      BY <3>1, <3>2, <3>3
  <2>2. CASE Lacks
    BY <1>7, <2>2 DEF Lacks
  <2> QED
    BY <1>7, <2>1, <2>2 DEF BaselineRegression
<1>8. CASE ApplyCandidate
  BY <1>8 DEF ApplyCandidate, Stops, Releases, Fresh
<1>9. CASE SyntaxCheck
  BY <1>9 DEF SyntaxCheck, Stops, Releases
<1>10. CASE PatchedReproduction
  <2>0. space \in Spaces /\ space = Copy(plan, TRUE)
    <3>1. at = "repro"
      BY <1>10 DEF PatchedReproduction
    <3> QED
      BY <3>1, CopiesTyped
  <2>1. CASE Runs("f2p", space, {"PASS", "FAIL"}, "regress")
    <3>1. at \in Stages /\ plan \in Commits /\ space \in Spaces /\ space = Copy(plan, TRUE)
      BY <1>0, <1>10, <2>0, FreshIsCopy DEF PatchedReproduction
    <3>2. /\ at' \in {"regress", "finish"} /\ UNCHANGED <<plan, before, exported>>
          /\ \A k \in Kinds : records'[k] = records[k] \/ (k = "f2p" /\ records'[k].in = space)
      BY <2>1, <3>1, RunsEffect DEF Results
    <3>3. \A k \in Kinds :
            records'[k].result # "none" =>
              records'[k].in = IF k \in {"f2p", "p2p"} THEN Copy(plan', TRUE) ELSE Copy(plan', FALSE)
      BY <3>1, <3>2
    <3> QED
      BY <3>1, <3>2, <3>3
  <2> QED
    BY <1>10, <2>1 DEF PatchedReproduction
<1>11. CASE PatchedRegression
  <2>1. CASE Runs("p2p", Fresh(TRUE), {"PASS", "FAIL"}, "classify")
    <3>1. at \in Stages /\ plan \in Commits /\ Fresh(TRUE) \in Spaces /\ Fresh(TRUE) = Copy(plan, TRUE)
      BY <1>0, <1>11, FreshIsCopy DEF PatchedRegression
    <3>2. /\ at' \in {"classify", "finish"} /\ UNCHANGED <<plan, before, exported>>
          /\ \A k \in Kinds : records'[k] = records[k] \/ (k = "p2p" /\ records'[k].in = Fresh(TRUE))
      BY <2>1, <3>1, RunsEffect DEF Results
    <3>3. \A k \in Kinds :
            records'[k].result # "none" =>
              records'[k].in = IF k \in {"f2p", "p2p"} THEN Copy(plan', TRUE) ELSE Copy(plan', FALSE)
      BY <3>1, <3>2
    <3> QED
      BY <3>1, <3>2, <3>3
  <2>2. CASE space' = Fresh(FALSE) /\ Stops
    BY <1>11, <2>2 DEF Stops
  <2> QED
    BY <1>11, <2>1, <2>2 DEF PatchedRegression
<1>12. CASE Classify
  BY <1>12 DEF Classify
<1>13. CASE Cancels
  BY <1>13 DEF Cancels
<1>14. CASE Finish
  BY <1>14 DEF Finish
<1>15. CASE ReadsHead("head2", "tree2")
  BY <1>15 DEF ReadsHead
<1>16. CASE ReadsTree("tree2", "status2")
  BY <1>16 DEF ReadsTree
<1>17. CASE SecondLook
  BY <1>17 DEF SecondLook, Verdict, Seen
<1>18. CASE LookFails
  BY <1>18 DEF LookFails, Verdict
<1> QED
  BY <1>1, <1>2, <1>3, <1>4, <1>5, <1>6, <1>7, <1>8, <1>9, <1>10, <1>11, <1>12, <1>13, <1>14, <1>15, <1>16, <1>17, <1>18 DEF VerifierStep

(* What it has found stays found, and is what a verdict says.               *)
LEMMA VerifierKeepsProgress ==
  ASSUME VerifierTypeOK, OnPlan, Progress, at # "off", VerifierStep, UNCHANGED repoVars
  PROVE  Progress'
<1> USE VerifierAssumption DEF Progress, Stages, Kinds, VerifierTypeOK
<1>0. at \in Stages => exported \in Commits
  BY DEF OnPlan
<1>1. CASE ReadsHead("head1", "tree1")
  BY <1>1 DEF ReadsHead
<1>2. CASE ReadsTree("tree1", "status1")
  BY <1>2 DEF ReadsTree
<1>3. CASE FirstLook
  BY <1>3 DEF FirstLook, OnPlan, NoLook
<1>4. CASE Breaks
  BY <1>4 DEF Breaks
<1>5. CASE Export
  BY <1>5 DEF Export
<1>6. CASE BaselineReproduction
  <2>1. CASE Runs("f2pBase", Fresh(FALSE), {"FAIL"}, "baseRegress")
    <3>1. Fresh(FALSE) \in Spaces
      BY <1>0, <1>6, FreshIsCopy DEF BaselineReproduction
    <3>2. /\ \/ at' = "baseRegress" /\ records'["f2pBase"].result \in {"FAIL"} /\ UNCHANGED status
             \/ at' = "finish" /\ status' = "failed"
          /\ UNCHANGED <<before, outcome>>
          /\ \A k \in Kinds \ {"f2pBase"} : records'[k] = records[k]
      BY <2>1, <3>1, RunsEffect DEF Results
    <3> QED
      BY <1>6, <3>2 DEF BaselineReproduction
  <2>2. CASE Lacks
    BY <1>6, <2>2 DEF BaselineReproduction, Lacks
  <2> QED
    BY <1>6, <2>1, <2>2 DEF BaselineReproduction
<1>7. CASE BaselineRegression
  <2>1. CASE Runs("p2pBase", Fresh(FALSE), {"PASS"}, "apply")
    <3>1. Fresh(FALSE) \in Spaces
      BY <1>0, <1>7, FreshIsCopy DEF BaselineRegression
    <3>2. /\ \/ at' = "apply" /\ records'["p2pBase"].result \in {"PASS"} /\ UNCHANGED status
             \/ at' = "finish" /\ status' = "failed"
          /\ UNCHANGED <<before, outcome>>
          /\ \A k \in Kinds \ {"p2pBase"} : records'[k] = records[k]
      BY <2>1, <3>1, RunsEffect DEF Results
    <3> QED
      BY <1>7, <3>2 DEF BaselineRegression
  <2>2. CASE Lacks
    BY <1>7, <2>2 DEF BaselineRegression, Lacks
  <2> QED
    BY <1>7, <2>1, <2>2 DEF BaselineRegression
<1>8. CASE ApplyCandidate
  BY <1>8 DEF ApplyCandidate, Stops
<1>9. CASE SyntaxCheck
  BY <1>9 DEF SyntaxCheck, Stops
<1>10. CASE PatchedReproduction
  <2>1. CASE Runs("f2p", space, {"PASS", "FAIL"}, "regress")
    <3>1. space \in Spaces
      BY <1>0, <1>10, CopiesTyped DEF PatchedReproduction, OnPlan
    <3>2. /\ \/ at' = "regress" /\ records'["f2p"].result \in {"PASS", "FAIL"} /\ UNCHANGED status
             \/ at' = "finish" /\ status' = "failed"
          /\ UNCHANGED <<before, outcome>>
          /\ \A k \in Kinds \ {"f2p"} : records'[k] = records[k]
      BY <2>1, <3>1, RunsEffect DEF Results
    <3> QED
      BY <1>10, <3>2 DEF PatchedReproduction
  <2> QED
    BY <1>10, <2>1 DEF PatchedReproduction
<1>11. CASE PatchedRegression
  <2>1. CASE Runs("p2p", Fresh(TRUE), {"PASS", "FAIL"}, "classify")
    <3>1. Fresh(TRUE) \in Spaces
      BY <1>0, <1>11, FreshIsCopy DEF PatchedRegression
    <3>2. /\ \/ at' = "classify" /\ records'["p2p"].result \in {"PASS", "FAIL"} /\ UNCHANGED status
             \/ at' = "finish" /\ status' = "failed"
          /\ UNCHANGED <<before, outcome>>
          /\ \A k \in Kinds \ {"p2p"} : records'[k] = records[k]
      BY <2>1, <3>1, RunsEffect DEF Results
    <3> QED
      BY <1>11, <3>2 DEF PatchedRegression
  <2>2. CASE space' = Fresh(FALSE) /\ Stops
    BY <1>11, <2>2 DEF PatchedRegression, Stops
  <2> QED
    BY <1>11, <2>1, <2>2 DEF PatchedRegression
<1>12. CASE Classify
  BY <1>12 DEF Classify
<1>13. CASE Cancels
  BY <1>13 DEF Cancels
<1>14. CASE Finish
  BY <1>14 DEF Finish
<1>15. CASE ReadsHead("head2", "tree2")
  BY <1>15 DEF ReadsHead
<1>16. CASE ReadsTree("tree2", "status2")
  BY <1>16 DEF ReadsTree
<1>17. CASE SecondLook
  BY <1>17 DEF SecondLook, Verdict, Seen
<1>18. CASE LookFails
  BY <1>18 DEF LookFails, Verdict
<1> QED
  BY <1>1, <1>2, <1>3, <1>4, <1>5, <1>6, <1>7, <1>8, <1>9, <1>10, <1>11, <1>12, <1>13, <1>14, <1>15, <1>16, <1>17, <1>18 DEF VerifierStep

(* What the verifier's verdict permits, its evidence shows.                 *)
LEMMA PermitsGenuine ==
  ASSUME VerifierTypeOK, OnPlan, Permits
  PROVE  Genuine(records, plan)
<1>1. \A k \in Kinds : records[k] = [result |-> records[k].result, in |-> records[k].in]
  BY DEF VerifierTypeOK
<1>2. /\ records["f2pBase"].in = Copy(plan, FALSE) /\ records["p2pBase"].in = Copy(plan, FALSE)
      /\ records["f2p"].in = Copy(plan, TRUE)      /\ records["p2p"].in = Copy(plan, TRUE)
  BY DEF OnPlan, Permits, Kinds
<1> QED
  BY <1>1, <1>2 DEF Genuine, Permits, Kinds, Copy

----------------------------------------------------------------------------
LEMMA InitIInv == Init => IInv
<1> SUFFICES ASSUME Init PROVE IInv
  OBVIOUS
<1> USE DEF Init, VerifierInit, Idle
<1>1. VerifierTypeOK
  BY DEF VerifierTypeOK, Looks, NoLook, Locations, NoRecord
<1>2. NoCert \in [head : Commits \cup {NoCommit},
        evidence : [Kinds -> [result : Results \cup {"none"}, in : Spaces \cup {NoSpace}]]]
  BY DEF NoCert, NoRecord
<1>3. TypeOK
  BY <1>1, <1>2 DEF TypeOK, Phases, ThreadLocations
<1>4. OnPlan
  BY DEF OnPlan, Stages, NoRecord
<1>5. Places
  BY DEF Places, Live
<1>6. Progress
  BY DEF Progress, Stages
<1> QED
  BY <1>3, <1>4, <1>5, <1>6 DEF IInv, Working, HasRead, LandsCertified, ResolvedIsGenuine

----------------------------------------------------------------------------
(* The owner changes neither sessions nor verifier, and the threads that    *)
(* have read the repository are told.                                       *)
LEMMA OwnerKeeps ==
  ASSUME IInv, OwnerActs
  PROVE  IInv'
<1> USE DEF IInv, OwnerActs, verifierVars, sessionVars
<1>1. head' \in Commits /\ work' \subseteq Marks /\ work' \subseteq work \cup {"edit"}
  BY DEF Owner, TypeOK, VerifierTypeOK, Marks
<1>2. VerifierTypeOK'
  BY <1>1 DEF TypeOK, VerifierTypeOK
<1>3. TypeOK'
  BY <1>2 DEF TypeOK, Moves, Touches
<1>4. OnPlan' /\ Progress'
  BY DEF OnPlan, Progress
<1>5. Places'
  BY DEF Places, Live
<1>6. Working'
  BY DEF Working
<1>7. HasRead'
  <2>1. ASSUME NEW t \in Threads
        PROVE  /\ moved'[t] = Moves(t) /\ touched'[t] = Touches(t)
               /\ pc'[t] = pc[t] /\ base'[applying'[t]] = base[applying[t]]
    OBVIOUS
  <2> QED
    BY <2>1 DEF HasRead, Moves, Touches
<1>8. ResolvedIsGenuine'
  BY DEF ResolvedIsGenuine
<1>9. LandsCertified'
  BY <1>1, VerifierAssumption DEF LandsCertified
<1> QED
  BY <1>3, <1>4, <1>5, <1>6, <1>7, <1>8, <1>9

----------------------------------------------------------------------------
(* A session that has its certificate is over: no step of any session       *)
(* touches it, or the repository, or a thread.                              *)
LEMMA SessionFrame ==
  ASSUME IInv, NEW s \in Sessions, SessionStep(s)
  PROVE  /\ UNCHANGED <<repoVars, threadVars>>
         /\ \A r \in Sessions : r # s =>
              phase'[r] = phase[r] /\ base'[r] = base[r] /\ cert'[r] = cert[r]
         /\ cert[s] # NoCert => base'[s] = base[s] /\ cert'[s] = cert[s] /\ phase'[s] = "over"
<1> USE DEF IInv, TypeOK, Places, sessionVars
<1>1. CASE Validates(s) \/ ValidatesTree(s) \/ CreatesWorktree(s)
  BY <1>1 DEF Validates, ValidatesTree, CreatesWorktree, Refused
<1>2. CASE HasCandidate(s) \/ HasNone(s)
  BY <1>2 DEF HasCandidate, HasNone
<1>3. CASE Verifies(s) \/ Concludes(s) \/ IsCancelled(s)
  BY <1>3 DEF Verifies, Concludes, IsCancelled
<1>4. CASE Certifies(s) \/ Dies(s)
  BY <1>4 DEF Certifies, Dies
<1> QED
  BY <1>1, <1>2, <1>3, <1>4 DEF SessionStep

(* The verifier, before a session's step and after it.                      *)
LEMMA SessionKeepsVerifier ==
  ASSUME IInv, NEW s \in Sessions, SessionStep(s)
  PROVE  VerifierTypeOK' /\ OnPlan' /\ Progress'
<1>0. VerifierTypeOK /\ OnPlan /\ Progress /\ UNCHANGED repoVars
  BY SessionFrame DEF IInv, TypeOK
<1>1. CASE Verifies(s)
  <2>1. at # "off"
    BY <1>1 DEF Verifies, IInv, Places
  <2> QED
    BY <1>0, <1>1, <2>1, VerifierKeepsType, VerifierKeepsPlan, VerifierKeepsProgress DEF Verifies
<1>2. CASE HasCandidate(s)
  <2>1. base[s] \in Commits
    BY <1>2 DEF HasCandidate, IInv, Places
  <2>2. Begins(base[s])
    BY <1>2 DEF HasCandidate
  <2>3. VerifierTypeOK'
    BY <1>0, <2>1, <2>2 DEF Begins, VerifierTypeOK, repoVars, Looks, NoLook, Locations, NoRecord
  <2> QED
    BY <2>1, <2>2, <2>3 DEF Begins, OnPlan, Progress, Stages, NoRecord
<1>3. CASE IsCancelled(s) \/ Certifies(s) \/ Dies(s)
  <2>1. Forgets
    BY <1>3 DEF IsCancelled, Certifies, Dies
  <2>2. VerifierTypeOK'
    BY <1>0, <2>1 DEF Forgets, VerifierTypeOK, repoVars, Looks, NoLook, Locations, NoRecord
  <2> QED
    BY <2>1, <2>2 DEF Forgets, OnPlan, Progress, Stages, NoRecord
<1>4. CASE UNCHANGED verifierVars
  <2>1. UNCHANGED <<repoVars, verifierVars>>
    BY <1>0, <1>4
  <2>2. VerifierTypeOK'
    BY <1>0, <2>1 DEF VerifierTypeOK, verifierVars, repoVars
  <2> QED
    BY <1>0, <2>1, <2>2 DEF OnPlan, Progress, verifierVars
<1> QED
  BY <1>1, <1>2, <1>3, <1>4
     DEF SessionStep, Validates, ValidatesTree, CreatesWorktree, HasNone, Concludes

LEMMA SessionKeepsType ==
  ASSUME IInv, NEW s \in Sessions, SessionStep(s)
  PROVE  TypeOK'
<1>0. VerifierTypeOK' /\ UNCHANGED threadVars
  BY SessionKeepsVerifier, SessionFrame
<1>1. /\ phase' \in [Sessions -> Phases] /\ base' \in [Sessions -> Commits \cup {NoCommit}]
      /\ active' \in [Sessions -> BOOLEAN] /\ resolved' \in [Sessions -> BOOLEAN]
  <2> USE DEF IInv, TypeOK, Phases, sessionVars
  <2>1. CASE Validates(s) \/ ValidatesTree(s) \/ CreatesWorktree(s)
    <3>1. CASE Validates(s)
      BY <3>1 DEF Validates, VerifierTypeOK
    <3>2. CASE Refused(s) /\ UNCHANGED <<active, resolved>>
      BY <3>2 DEF Refused
    <3>3. CASE ~Refused(s) /\ (ValidatesTree(s) \/ CreatesWorktree(s))
      BY <3>3 DEF ValidatesTree, CreatesWorktree
    <3> QED
      BY <2>1, <3>1, <3>2, <3>3 DEF ValidatesTree, CreatesWorktree
  <2>2. CASE HasCandidate(s) \/ HasNone(s)
    BY <2>2 DEF HasCandidate, HasNone
  <2>3. CASE Verifies(s) \/ Concludes(s) \/ IsCancelled(s)
    BY <2>3 DEF Verifies, Concludes, IsCancelled
  <2>4. CASE Certifies(s) \/ Dies(s)
    BY <2>4 DEF Certifies, Dies
  <2> QED
    BY <2>1, <2>2, <2>3, <2>4 DEF SessionStep
<1>2. cert' \in [Sessions -> [head : Commits \cup {NoCommit},
        evidence : [Kinds -> [result : Results \cup {"none"}, in : Spaces \cup {NoSpace}]]]]
  <2>1. CASE cert' = [cert EXCEPT ![s] = [head |-> plan, evidence |-> records]]
    BY <2>1 DEF IInv, TypeOK, VerifierTypeOK
  <2>2. CASE UNCHANGED cert
    BY <2>2 DEF IInv, TypeOK
  <2> QED
    BY <2>1, <2>2 DEF SessionStep, Validates, ValidatesTree, CreatesWorktree, HasCandidate,
       HasNone, Verifies, Concludes, IsCancelled, Certifies, Dies, sessionVars
<1> QED
  BY <1>0, <1>1, <1>2 DEF TypeOK, IInv, threadVars

LEMMA SessionKeepsPlaces ==
  ASSUME IInv, NEW s \in Sessions, SessionStep(s)
  PROVE  Places'
<1>1. \A r, q \in Sessions : Live(r)' /\ Live(q)' => r = q
  <2>1. \A r \in Sessions : r # s /\ Live(r)' => Live(r)
    BY SessionFrame DEF Live
  <2>2. Live(s)' => Live(s) \/ \A r \in Sessions : ~Live(r)
    BY DEF SessionStep, Validates, ValidatesTree, CreatesWorktree, HasCandidate,
       HasNone, Verifies, Concludes, IsCancelled, Certifies, Dies, Live
  <2> QED
    BY <2>1, <2>2 DEF IInv, Places
<1>2. \A r \in Sessions : phase'[r] # "new" => base'[r] \in Commits
  <2>1. phase'[s] # "new" => base'[s] \in Commits
    <3> USE DEF IInv, TypeOK, Places, sessionVars
    <3>1. CASE Validates(s) \/ ValidatesTree(s) \/ CreatesWorktree(s)
      BY <3>1 DEF Validates, ValidatesTree, CreatesWorktree, Refused, VerifierTypeOK
    <3>2. CASE ~(Validates(s) \/ ValidatesTree(s) \/ CreatesWorktree(s))
      BY <3>2 DEF SessionStep, HasCandidate,
         HasNone, Verifies, Concludes, IsCancelled, Certifies, Dies
    <3> QED
      BY <3>1, <3>2
  <2> QED
    BY <2>1, SessionFrame DEF IInv, Places
<1>3. \A r \in Sessions : r # s => phase'[r] \notin {"verifying", "certifying"} \/ UNCHANGED <<at, plan>>
  <2>1. CASE Live(s)
    BY <2>1, SessionFrame DEF IInv, Places, Live
  <2>2. CASE ~Live(s)
    BY <2>2 DEF SessionStep, Validates, ValidatesTree, CreatesWorktree, HasCandidate,
       HasNone, Verifies, Concludes, IsCancelled, Certifies, Dies, Live, verifierVars
  <2> QED
    BY <2>1, <2>2
<1>4. /\ phase'[s] \in {"verifying", "certifying"} => at' # "off" /\ plan' = base'[s]
      /\ phase'[s] = "certifying" => at' = "returned"
  <2> USE DEF IInv, TypeOK, Places, sessionVars, verifierVars, Phases
  <2>1. CASE Verifies(s)
    <3>1. VerifierTypeOK /\ OnPlan /\ at # "off" /\ VerifierStep /\ UNCHANGED repoVars
      BY <2>1 DEF Verifies
    <3>2. plan' = plan /\ at' # "off"
      BY <3>1, VerifierKeepsPlan
    <3> QED
      BY <2>1, <3>2 DEF Verifies
  <2>2. CASE HasCandidate(s)
    BY <2>2 DEF HasCandidate, Begins
  <2>3. CASE Concludes(s)
    BY <2>3 DEF Concludes
  <2>4. CASE HasNone(s) \/ IsCancelled(s) \/ Certifies(s) \/ Dies(s)
    BY <2>4 DEF HasNone, IsCancelled, Certifies, Dies
  <2>5. CASE Validates(s) \/ ValidatesTree(s) \/ CreatesWorktree(s)
    BY <2>5 DEF Validates, ValidatesTree, CreatesWorktree, Refused
  <2> QED
    BY <2>1, <2>2, <2>3, <2>4, <2>5 DEF SessionStep
<1>5. \A r \in Sessions : cert'[r] # NoCert => phase'[r] = "over"
  <2>1. cert'[s] # NoCert => phase'[s] = "over"
    BY SessionFrame DEF SessionStep, Validates, ValidatesTree, CreatesWorktree, HasCandidate,
       HasNone, Verifies, Concludes, IsCancelled, Certifies, Dies, sessionVars, IInv, TypeOK, Places
  <2> QED
    BY <2>1, SessionFrame DEF IInv, Places
<1> QED
  BY <1>1, <1>2, <1>3, <1>4, <1>5, SessionFrame DEF IInv, Places

LEMMA SessionKeeps ==
  ASSUME IInv, NEW s \in Sessions, SessionStep(s)
  PROVE  IInv'
<1>1. TypeOK' /\ OnPlan' /\ Progress' /\ Places'
  BY SessionKeepsType, SessionKeepsVerifier, SessionKeepsPlaces
<1>2. /\ UNCHANGED <<head, work, pc, applying, moved, touched>>
      /\ \A r \in Sessions : cert[r] # NoCert => cert'[r] = cert[r] /\ base'[r] = base[r]
  BY SessionFrame DEF repoVars, threadVars
<1>3. Working'
  BY <1>2 DEF IInv, Working
<1>4. HasRead'
  <2>1. \A t \in Threads : pc[t] # "idle" => base'[applying[t]] = base[applying[t]]
    BY <1>2 DEF IInv, Working
  <2> QED
    BY <1>2, <2>1 DEF IInv, HasRead
<1>5. LandsCertified'
  BY <1>2 DEF IInv, LandsCertified
<1>6. ResolvedIsGenuine'
  <2>1. ASSUME NEW r \in Sessions, cert'[r] # NoCert
        PROVE  Genuine(cert'[r].evidence, base'[r])
    <3>1. CASE cert[r] # NoCert
      BY <1>2, <3>1 DEF IInv, ResolvedIsGenuine
    <3>2. CASE cert[r] = NoCert
      <4>1. r = s /\ Certifies(s) /\ Permits /\ cert'[s].evidence = records
        BY <2>1, <3>2, SessionFrame DEF SessionStep, Validates, ValidatesTree, CreatesWorktree,
           HasCandidate, HasNone, Verifies, Concludes, IsCancelled, Certifies, Dies,
           sessionVars, IInv, TypeOK
      <4>2. plan = base[s] /\ base' = base
        BY <4>1 DEF Certifies, IInv, Places
      <4> QED
        BY <4>1, <4>2, PermitsGenuine DEF IInv, TypeOK
    <3> QED
      BY <3>1, <3>2
  <2> QED
    BY <2>1 DEF ResolvedIsGenuine
<1> QED
  BY <1>1, <1>3, <1>4, <1>5, <1>6 DEF IInv

----------------------------------------------------------------------------
(* The threads.  All but the last of their steps only move one of them.     *)
LEMMA ThreadMoves ==
  ASSUME IInv, NEW t \in Threads, ThreadStep(t)
  PROVE  /\ UNCHANGED <<head, verifierVars, sessionVars>>
         /\ work' = work \/ (Applies(t) /\ work' = work \cup {applying[t]})
         /\ pc' \in [Threads -> ThreadLocations]
         /\ applying' \in [Threads -> Sessions \cup {NoSession}]
         /\ moved' \in [Threads -> BOOLEAN] /\ touched' \in [Threads -> BOOLEAN]
         /\ \A u \in Threads : u # t =>
              /\ pc'[u] = pc[u] /\ applying'[u] = applying[u] /\ moved'[u] = moved[u]
              /\ touched'[u] = touched[u] \/ (Applies(t) /\ touched'[u] = Touches(u))
<1> USE DEF IInv, TypeOK, ThreadLocations, repoVars
<1>1. CASE \E s \in Sessions : Presses(t, s)
  BY <1>1 DEF Presses
<1>2. CASE Blocked(t)
  BY <1>2 DEF Blocked, Goes
<1>3. CASE \/ PassesHead(t, "head1", "status1") \/ PassesTree(t, "status1", "check1")
           \/ PassesCheck(t, "check1", "head2")
  BY <1>3 DEF PassesHead, PassesTree, PassesCheck, Goes
<1>4. CASE \/ PassesHead(t, "head2", "status2") \/ PassesTree(t, "status2", "check2")
           \/ PassesCheck(t, "check2", "apply")
  BY <1>4 DEF PassesHead, PassesTree, PassesCheck, Goes
<1>5. CASE Applies(t)
  BY <1>5 DEF Applies, Touches
<1> QED
  BY <1>1, <1>2, <1>3, <1>4, <1>5 DEF ThreadStep

LEMMA ThreadKeeps ==
  ASSUME IInv, NEW t \in Threads, ThreadStep(t)
  PROVE  IInv'
<1>0. applying[t] \in Sessions \cup {NoSession} /\ (Applies(t) => applying[t] \in Sessions /\ cert[applying[t]] # NoCert)
  BY DEF IInv, TypeOK, Working, Applies
<1>1. UNCHANGED <<head, verifierVars, sessionVars>> /\ work' \subseteq Marks
  <2>1. UNCHANGED <<head, verifierVars, sessionVars>>
    BY ThreadMoves
  <2>2. work' = work \/ (work' = work \cup {applying[t]} /\ applying[t] \in Sessions)
    BY <1>0, ThreadMoves
  <2>3. work \subseteq Marks
    BY DEF IInv, TypeOK, VerifierTypeOK
  <2> QED
    BY <2>1, <2>2, <2>3 DEF Marks
<1>2. VerifierTypeOK'
  BY <1>1 DEF IInv, TypeOK, VerifierTypeOK, verifierVars
<1>3. TypeOK'
  BY <1>1, <1>2, ThreadMoves DEF IInv, TypeOK, sessionVars
<1>4. OnPlan' /\ Progress' /\ Places' /\ ResolvedIsGenuine'
  BY <1>1, ZenonT(40)
     DEF IInv, OnPlan, Progress, Places, Live, ResolvedIsGenuine, verifierVars, sessionVars
<1>5. LandsCertified'
  BY <1>0, <1>1, ThreadMoves DEF IInv, LandsCertified, sessionVars
<1>6. Working'
  <2>1. pc'[t] # "idle" => applying'[t] \in Sessions /\ cert[applying'[t]] # NoCert
    BY DEF IInv, TypeOK, Working, ThreadStep, Presses, Proven, Blocked, Goes,
       PassesHead, PassesTree, PassesCheck, Applies
  <2> QED
    BY <1>1, <2>1, ThreadMoves DEF IInv, Working, sessionVars
<1>7. HasRead'
  <2>1. ASSUME NEW u \in Threads, u # t
        PROVE  /\ pc[u] \in {"status2", "check2", "apply"} => head = base[applying[u]] \/ moved'[u]
               /\ pc[u] \in {"check2", "apply"} => work' = {} \/ touched'[u]
    <3>1. moved'[u] = moved[u]
      BY <2>1, ThreadMoves
    <3>2. CASE work' = work /\ touched'[u] = touched[u]
      BY <3>1, <3>2 DEF IInv, HasRead
    <3>3. CASE touched'[u] = Touches(u)
      BY <3>1, <3>3 DEF IInv, HasRead, Touches
    <3>4. work' = work \/ Applies(t)
      BY ThreadMoves
    <3>5. Applies(t) => touched'[u] = Touches(u)
      BY <2>1 DEF Applies, Touches, IInv, TypeOK
    <3>6. ~Applies(t) => touched'[u] = touched[u]
      BY <2>1, ThreadMoves
    <3> QED
      BY <3>2, <3>3, <3>4, <3>5, <3>6
  <2>2. /\ pc'[t] \in {"status2", "check2", "apply"} => head = base[applying'[t]] \/ moved'[t]
        /\ pc'[t] \in {"check2", "apply"} => work' = {} \/ touched'[t]
    BY DEF IInv, TypeOK, HasRead, ThreadStep, Presses, Blocked, Goes,
       PassesHead, PassesTree, PassesCheck, Applies, HeadGate, TreeGate, repoVars
  <2> QED
    BY <1>1, <2>1, <2>2, ThreadMoves DEF HasRead, sessionVars
<1> QED
  BY <1>3, <1>4, <1>5, <1>6, <1>7 DEF IInv

----------------------------------------------------------------------------
LEMMA StepIInv == IInv /\ [Next]_vars => IInv'
<1>1. ASSUME IInv, Next
      PROVE  IInv'
  BY <1>1, OwnerKeeps, SessionKeeps, ThreadKeeps DEF Next
<1>2. ASSUME IInv, UNCHANGED vars
      PROVE  IInv'
  <2> USE <1>2 DEF IInv, vars, repoVars, verifierVars, sessionVars, threadVars
  <2>1. TypeOK'
    BY DEF TypeOK, VerifierTypeOK
  <2>2. OnPlan' /\ Progress' /\ Places'
    BY ZenonT(40) DEF OnPlan, Progress, Places, Live
  <2>3. Working' /\ HasRead' /\ LandsCertified' /\ ResolvedIsGenuine'
    BY DEF Working, HasRead, LandsCertified, ResolvedIsGenuine
  <2> QED
    BY <2>1, <2>2, <2>3
<1> QED
  BY <1>1, <1>2

LEMMA Invariance == Spec => []IInv
BY InitIInv, StepIInv, PTL DEF Spec

(* Every variable keeps its type, for any commits, sessions and threads.    *)
THEOREM TypeCorrect == Spec => []TypeOK
<1>1. IInv => TypeOK
  BY DEF IInv
<1> QED
  BY <1>1, Invariance, PTL

(* LocalProjectEvaluationResult.__post_init__ never raises for a COMPLETED  *)
(* verdict: the evidence and the integrity it asks for are there.           *)
THEOREM CompletedProven == Spec => []CompletedHasProof
<1>1. IInv => CompletedHasProof
  BY DEF IInv, Progress, CompletedHasProof
<1> QED
  BY <1>1, Invariance, PTL

(* local_project_verifier.py and permits_apply: a certificate that permits  *)
(* an apply rests on four commands, each run in a copy of its own of the    *)
(* commit the session was made from, with the wanted result.                *)
THEOREM ResolvedGenuine == Spec => []ResolvedIsGenuine
<1>1. IInv => ResolvedIsGenuine
  BY DEF IInv
<1> QED
  BY <1>1, Invariance, PTL

(* ui/workspace_apply.py: nothing but a candidate verified with that        *)
(* evidence is ever written to the owner's tree.                            *)
THEOREM VerifiedLands == Spec => []OnlyVerifiedLands
<1>1. IInv => OnlyVerifiedLands
  BY DEF IInv, LandsCertified, ResolvedIsGenuine, OnlyVerifiedLands
<1> QED
  BY <1>1, Invariance, PTL

(* apply_patch_to_project: the repository that git apply works on is the    *)
(* one the candidate was verified on, unless it changed after the last      *)
(* reading of the thread.                                                   *)
THEOREM AppliesOnBase == Spec => []AppliesOnVerifiedBase
<1>1. IInv => AppliesOnVerifiedBase
  BY DEF IInv, HasRead, AppliesOnVerifiedBase
<1> QED
  BY <1>1, Invariance, PTL
=============================================================================
