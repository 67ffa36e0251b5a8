------------------------- MODULE CommandGroupsProofs ------------------------
(***************************************************************************)
(* For any number of commands: no request leaves a process in its group,    *)
(* and a worker ended by SIGTERM leaves a command running only if it was     *)
(* hit between the spawn of the command and its registration.               *)
(***************************************************************************)
EXTENDS CommandGroups, TLAPS

(* What the place of the main thread says of the command under way.         *)
InCommand == {"forked", "writing", "joining", "waiting", "polling",
              "signalled", "closing", "confirming", "unregistering"}
InRequest == {"forked", "writing", "joining", "closing", "confirming", "unregistering"}

Place ==
  /\ at \in InCommand => count \in Groups
  /\ at \in InRequest => kind[count] = "model"
  /\ at = "signalled" => outcome[count] \in {"timeout", "cancelled"}
  /\ at = "unregistering" /\ ended = "no" => members[count] = {}
  /\ at \in {"forked", "writing", "joining", "waiting", "polling"} => outcome[count] = "none"
  /\ \A g \in Groups : g > count => outcome[g] = "none" /\ kind[g] = "none" /\ members[g] = {}

(* A request is in the registry from its registration to the end.           *)
Registry ==
  ended = "no" =>
    registered = IF at \in InCommand \ {"forked"} /\ kind[count] = "model" THEN {count} ELSE {}

(* NoGroupOutlives, also between the check and the spawn of the next one.    *)
Quiet ==
  ended = "no" =>
    \A g \in Groups :
      /\ kind[g] = "model" \/ outcome[g] \in {"timeout", "cancelled"}
      /\ g < count \/ at \in {"idle", "launch"}
      => members[g] = {}

IInv == TypeOK /\ Place /\ Registry /\ Quiet /\ OrphanOnlyInLaunch

LEMMA InitIInv == Init => IInv
<1> SUFFICES ASSUME Init PROVE IInv
  OBVIOUS
<1> USE BoundAssumption DEF Init, Groups
<1>1. TypeOK
  <2>1. members \in [Groups -> SUBSET Processes]
    OBVIOUS
  <2>2. kind \in [Groups -> Kinds] /\ outcome \in [Groups -> {"none", "done", "timeout", "cancelled"}]
    BY DEF Kinds
  <2>3. count \in 0 .. MaxCommands
    BY DEF Init
  <2>4. registered \subseteq Groups /\ registered \subseteq {count}
    BY DEF Init
  <2>5. at \in Locations /\ cancelled \in BOOLEAN /\ ended \in {"no", "terminated", "killed"}
    BY DEF Locations
  <2> QED
    BY <2>1, <2>2, <2>3, <2>4, <2>5 DEF TypeOK
<1>2. Place
  BY DEF Place, InCommand, InRequest
<1>3. Registry /\ Quiet /\ OrphanOnlyInLaunch
  BY DEF Registry, Quiet, OrphanOnlyInLaunch, InCommand
<1> QED
  BY <1>1, <1>2, <1>3 DEF IInv

(* What a signal does to the groups.                                       *)
LEMMA SignalsShrink ==
  ASSUME TypeOK, count \in Groups, Signals
  PROVE  /\ members' \in [Groups -> SUBSET Processes]
         /\ members'[count] \subseteq members[count]
         /\ \A g \in Groups \ {count} : members'[g] = members[g]
<1>1. members \in [Groups -> SUBSET Processes]
  BY DEF TypeOK
<1>2. PICK left \in SUBSET members[count] : members' = [members EXCEPT ![count] = left]
  BY DEF Signals
<1>3. left \in SUBSET Processes
  BY <1>1, <1>2
<1> QED
  BY <1>1, <1>2, <1>3

LEMMA NextIInv == IInv /\ [Next]_vars => IInv'
<1> SUFFICES ASSUME IInv, [Next]_vars PROVE IInv'
  OBVIOUS
<1> USE BoundAssumption
    DEF IInv, TypeOK, Place, Registry, Quiet, OrphanOnlyInLaunch, Groups, Kinds, Processes,
        Locations, InCommand, InRequest
<1>1. CASE Requests
  BY <1>1 DEF Requests
<1>2. CASE RunsTests
  <2> USE <1>2 DEF RunsTests, Forks
  <2>1. TypeOK'
    <3>1. count + 1 \in Groups /\ count' = count + 1 /\ at' \in Locations
      OBVIOUS
    <3>2. members' \in [Groups -> SUBSET Processes]
      OBVIOUS
    <3>3. kind' \in [Groups -> Kinds]
      OBVIOUS
    <3>4. registered = {}
      OBVIOUS
    <3> QED
      BY <3>1, <3>2, <3>3, <3>4
  <2>2. Place'
    OBVIOUS
  <2>3. Registry'
    <3>1. kind'[count'] # "model"
      OBVIOUS
    <3>2. registered' = {}
      OBVIOUS
    <3> QED
      BY <3>1, <3>2
  <2>4. Quiet'
    OBVIOUS
  <2>5. OrphanOnlyInLaunch'
    OBVIOUS
  <2> QED
    BY <2>1, <2>2, <2>3, <2>4, <2>5
<1>3. CASE Spawns
  BY <1>3 DEF Spawns, Forks
<1>4. CASE SpawnFails
  BY <1>4 DEF SpawnFails
<1>5. CASE Registers
  BY <1>5 DEF Registers
<1>6. CASE Checks
  <2> USE <1>6 DEF Checks, Interrupts
  <2>0. \/ UNCHANGED members
        \/ /\ members' \in [Groups -> SUBSET Processes]
           /\ members'[count] \subseteq members[count]
           /\ \A g \in Groups \ {count} : members'[g] = members[g]
    BY SignalsShrink
  <2>1. TypeOK'
    BY <2>0
  <2>2. Place'
    BY <2>0
  <2>3. Registry'
    BY <2>0
  <2>4. Quiet'
    BY <2>0
  <2>5. OrphanOnlyInLaunch'
    BY <2>0
  <2> QED
    BY <2>1, <2>2, <2>3, <2>4, <2>5
<1>7. CASE Joins
  BY <1>7 DEF Joins
<1>8. CASE PollsAgain
  BY <1>8 DEF PollsAgain
<1>9. CASE TimesOut
  BY <1>9 DEF TimesOut, Interrupts, Signals
<1>10. CASE Reaps
  BY <1>10 DEF Reaps, Leaves
<1>11. CASE Escalates
  BY <1>11 DEF Escalates, Empties, Leaves
<1>12. CASE Closes
  <2> USE <1>12 DEF Closes
  <2>0. \/ UNCHANGED members
        \/ /\ members' \in [Groups -> SUBSET Processes]
           /\ members'[count] \subseteq members[count]
           /\ \A g \in Groups \ {count} : members'[g] = members[g]
    BY SignalsShrink
  <2>1. TypeOK'
    BY <2>0
  <2>2. Place'
    BY <2>0
  <2>3. Registry'
    BY <2>0
  <2>4. Quiet'
    BY <2>0
  <2>5. OrphanOnlyInLaunch'
    BY <2>0
  <2> QED
    BY <2>1, <2>2, <2>3, <2>4, <2>5
<1>13. CASE Confirms
  BY <1>13 DEF Confirms, Empties
<1>14. CASE Unregisters
  BY <1>14 DEF Unregisters
<1>15. ASSUME NEW g \in Groups, ChildSpawns(g) PROVE IInv'
  BY <1>15 DEF ChildSpawns
<1>16. ASSUME NEW g \in Groups, NEW p \in Processes, Exits(g, p) PROVE IInv'
  BY <1>16 DEF Exits
<1>17. CASE Cancel
  BY <1>17 DEF Cancel
<1>18. CASE Terminated
  BY <1>18 DEF Terminated
<1>19. CASE Killed
  BY <1>19 DEF Killed
<1>20. CASE UNCHANGED vars
  BY <1>20 DEF vars
<1> QED
  BY <1>1, <1>2, <1>3, <1>4, <1>5, <1>6, <1>7, <1>8, <1>9, <1>10, <1>11, <1>12, <1>13, <1>14,
     <1>15, <1>16, <1>17, <1>18, <1>19, <1>20
  DEF Next, MainStep

LEMMA Inductive == Spec => []IInv
  BY InitIInv, NextIInv, PTL DEF Spec

(* Every reachable state has its type; the registry holds at most the group *)
(* of the request under way.                                                *)
THEOREM TypeCorrect == Spec => []TypeOK
<1>1. IInv => TypeOK
  BY DEF IInv
<1> QED
  BY <1>1, Inductive, PTL

(* The finally clause of request() and the ladders leave no group behind.   *)
THEOREM GroupsEnd == Spec => []NoGroupOutlives
<1>1. IInv => NoGroupOutlives
  BY DEF IInv, Quiet, NoGroupOutlives
<1> QED
  BY <1>1, Inductive, PTL

(* The registry and the handler of SIGTERM cover a request but for the      *)
(* moment of its launch.                                                    *)
THEOREM OrphansAreLaunches == Spec => []OrphanOnlyInLaunch
<1>1. IInv => OrphanOnlyInLaunch
  BY DEF IInv
<1> QED
  BY <1>1, Inductive, PTL
=============================================================================
