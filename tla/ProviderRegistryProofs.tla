----------------------- MODULE ProviderRegistryProofs -----------------------
(***************************************************************************)
(* What holds of the provider registry for every set of providers, targets *)
(* and surroundings.                                                       *)
(***************************************************************************)
EXTENDS ProviderRegistry, TLAPS

(* The steps that only a request with a key, or a delete, comes to.        *)
KeyedPcs  == {"arm", "store", "abandon", "restore", "settle", "remove", "disarm", "disarmAgain"}
DeletePcs == {"revoke", "purge", "unmark"}

(* The request that the user-interface thread is at, or was.               *)
RequestInv ==
  /\ upc # "idle" => report = "none"
  /\ upc # "idle" \/ report \notin {"none", "crashed"} => op # NoRequest
  /\ upc \in KeyedPcs => op.keyed
  /\ upc \in DeletePcs => op.kind = "delete"
  /\ upc = "invalidate" => op.kind = "update"
  /\ op # NoRequest /\ op.kind = "delete" => ~op.keyed /\ op.target = NoTarget
  /\ op # NoRequest /\ op.kind # "delete" => op.target # NoTarget
  /\ op # NoRequest /\ op.keyed => op.target \notin NoAuth

(* The quarantine file holds what the overlay does; and the provider from  *)
(* before its key is written until the request's last steps.               *)
MarkInv ==
  /\ overlay \subseteq marked
  /\ upc \in {"store", "abandon", "restore", "settle", "remove", "disarm"}
       => op.provider \in marked
  /\ upc = "save" /\ op.keyed => op.provider \in marked

(* A delete that has purged the key and the catalog, and only has to save. *)
Purged == upc = "save" /\ op.kind = "delete"

(* The keys: none is for a target without authentication, and each step of *)
(* a request finds the key of before, that of the request, or none.        *)
KeyInv ==
  /\ \A p \in Providers : secret[p] \notin NoAuth
  /\ before.key \notin NoAuth
  /\ previous \in {before.key, NoTarget}
  /\ upc \in {"invalidate", "arm", "store", "abandon", "settle"}
       => secret[op.provider] = before.key
  /\ upc = "save" /\ ~op.keyed /\ ~Purged => secret[op.provider] = before.key
  /\ upc \in DeletePcs \/ Purged => secret[op.provider] \in {before.key, NoTarget}
  /\ upc = "save" /\ op.keyed => secret[op.provider] = op.target
  /\ upc \in {"disarm", "disarmAgain"} => secret[op.provider] = op.target
  /\ upc = "restore" => previous # NoTarget

(* Refreshes and requests that do not overlap: no refresh is between its   *)
(* answer and its save while a lone request runs, and none that is there   *)
(* after one will put an old target back.                                  *)
RefreshInv ==
  alone =>
    /\ upc # "idle" => \A q \in Providers : rpc[q] \notin Writing
    /\ \A q, r \in Providers : rpc[q] = "saving" => snapshot[q][r].target = config[r].target

(* The configurations: before and after the request's save.                *)
ListInv ==
  /\ upc # "idle" => updated[op.provider].target = op.target
  /\ upc # "idle" /\ alone =>
       \A r \in Providers : r # op.provider => updated[r].target = config[r].target
  /\ alone /\ upc \notin {"idle", "disarm", "disarmAgain"}
       => config[op.provider].target = before.target
  /\ alone /\ upc \in {"disarm", "disarmAgain"} => config[op.provider].target = op.target

(* What the gate of a blank key, or the absence of the provider, found is  *)
(* still so when the configuration is saved.                               *)
GateInv ==
  upc \in {"invalidate", "save"} /\ ~op.keyed /\ ~Purged /\ ~conf.blind /\ BeganPaired
    => \/ op.target = before.target
       \/ op.target \in NoAuth
       \/ Quarantined(op.provider)
       \/ before.key = NoTarget

(* What a delete has removed stays removed.                                *)
DeleteInv ==
  alone =>
    /\ upc = "unmark" \/ Purged => cache[op.provider] = NoTarget
    /\ Purged => ~Quarantined(op.provider)
    /\ ~conf.blind /\ (upc \in {"purge", "unmark"} \/ Purged) => secret[op.provider] = NoTarget
    /\ report = "deleted" => ~Configured(op.provider) /\ rpc[op.provider] \notin Writing

IInv == TypeOK /\ RequestInv /\ MarkInv /\ KeyInv /\ RefreshInv /\ ListInv /\ GateInv
          /\ RequestKeepsPair /\ ReportIsTrue /\ DeleteInv /\ DeletionIsComplete

-----------------------------------------------------------------------------
(* Requests.                                                               *)

(* What a request starts with, whichever of the three it is.               *)
Sound(request, list, first) ==
  /\ request \in Requests /\ list \in ConfigFile
  /\ first \in {"invalidate", "arm", "save", "revoke"}
  /\ first = "arm" => request.keyed
  /\ first = "save" => ~request.keyed /\ request.kind # "delete"
  /\ first = "revoke" => request.kind = "delete"
  /\ first = "invalidate" => request.kind = "update"
  /\ request.kind = "delete" => ~request.keyed /\ request.target = NoTarget /\ first = "revoke"
  /\ request.kind # "delete" => request.target # NoTarget
  /\ request.keyed => request.target \notin NoAuth
  /\ list[request.provider].target = request.target
  /\ \A r \in Providers : r # request.provider => list[r].target = config[r].target
  /\ request.kind = "add" => config[request.provider].target = NoTarget
  /\ request.kind = "update" =>
       MayMove(request.provider, request.target, request.keyed)

LEMMA WithType ==
  ASSUME TypeOK, NEW p \in Providers, NEW t \in MaybeTarget
  PROVE  /\ With(p, t, NoTarget) \in ConfigFile
         /\ With(p, t, NoTarget)[p].target = t
         /\ \A r \in Providers : r # p => With(p, t, NoTarget)[r].target = config[r].target
<1>1. /\ config \in [Providers -> [target : MaybeTarget, models : MaybeTarget]]
      /\ [target |-> t, models |-> NoTarget] \in [target : MaybeTarget, models : MaybeTarget]
  BY DEF TypeOK, ConfigFile, MaybeTarget
<1> QED
  BY <1>1 DEF With, ConfigFile

LEMMA WorldType ==
  ASSUME TypeOK
  PROVE  conf.providers \subseteq Providers /\ conf.targets \subseteq Targets
BY WorldsAssumption DEF TypeOK

LEMMA RequestBegins ==
  ASSUME TypeOK, UiRequests
  PROVE  \E request, list, first : Sound(request, list, first) /\ Begin(request, list, first)
<1>1. PICK p \in Providers :
        \/ \E t \in Targets, keyed \in BOOLEAN : Add(p, t, keyed) \/ Update(p, t, keyed)
        \/ Delete(p)
  BY WorldType DEF UiRequests
<1>2. CASE Delete(p)
  <2> DEFINE request == [kind |-> "delete", provider |-> p, target |-> NoTarget, keyed |-> FALSE]
  <2>1. request \in Requests
    BY DEF Requests, MaybeTarget
  <2>2. Sound(request, With(p, NoTarget, NoTarget), "revoke")
    BY <2>1, WithType DEF Sound, MaybeTarget
  <2> QED
    BY <1>2, <2>2 DEF Delete
<1>3. ASSUME NEW t \in Targets, NEW keyed \in BOOLEAN, Add(p, t, keyed)
      PROVE  \E request, list, first : Sound(request, list, first) /\ Begin(request, list, first)
  <2> DEFINE request == [kind |-> "add", provider |-> p, target |-> t, keyed |-> keyed]
  <2>1. request \in Requests /\ t # NoTarget /\ t \in MaybeTarget
    BY TargetsAssumption DEF Requests, MaybeTarget
  <2>2. Sound(request, With(p, t, NoTarget), CommitStart(keyed))
    BY <1>3, <2>1, WithType DEF Sound, CommitStart, Add, Configured
  <2> QED
    BY <1>3, <2>2 DEF Add
<1>4. ASSUME NEW t \in Targets, NEW keyed \in BOOLEAN, Update(p, t, keyed)
      PROVE  \E request, list, first : Sound(request, list, first) /\ Begin(request, list, first)
  <2> DEFINE request == [kind |-> "update", provider |-> p, target |-> t, keyed |-> keyed]
  <2>1. request \in Requests /\ t # NoTarget /\ t \in MaybeTarget
    BY TargetsAssumption DEF Requests, MaybeTarget
  <2>2. CASE t = config[p].target
    <3>1. Sound(request, config, CommitStart(keyed))
      BY <1>4, <2>1, <2>2 DEF Sound, CommitStart, Update, TypeOK
    <3> QED
      BY <1>4, <2>2, <3>1 DEF Update
  <2>3. CASE t # config[p].target
    <3>1. Sound(request, With(p, t, NoTarget), "invalidate")
      BY <1>4, <2>1, WithType DEF Sound, Update
    <3> QED
      BY <1>4, <2>3, <3>1 DEF Update
  <2> QED
    BY <2>2, <2>3
<1> QED
  BY <1>1, <1>2, <1>3, <1>4

-----------------------------------------------------------------------------
(* Types, and what a step finds its request to be.                         *)

LEMMA NoConfigsType == NoConfigs \in ConfigFile /\ NoTarget \in MaybeTarget
BY DEF NoConfigs, NoConfig, ConfigFile, MaybeTarget

LEMMA InitType == Init => TypeOK /\ RequestInv
<1> SUFFICES ASSUME Init PROVE TypeOK /\ RequestInv
  OBVIOUS
<1>1. TypeOK
  BY NoConfigsType DEF Init, TypeOK, UiPcs, Reports, RefreshPcs, MaybeTarget
<1>2. RequestInv
  BY DEF Init, RequestInv, NoRequest, KeyedPcs, DeletePcs
<1> QED
  BY <1>1, <1>2

LEMMA RequestType ==
  ASSUME TypeOK, RequestInv, upc # "idle"
  PROVE  /\ op \in Requests /\ op.provider \in Providers /\ op.target \in MaybeTarget
         /\ op.keyed \in BOOLEAN /\ op.kind \in {"add", "update", "delete"}
BY DEF TypeOK, RequestInv, Requests

LEMMA BeginType ==
  ASSUME TypeOK, NEW request, NEW list, NEW first, Sound(request, list, first),
         Begin(request, list, first)
  PROVE  TypeOK' /\ RequestInv'
<1>1. request \in Requests /\ request.provider \in Providers /\ request # NoRequest
  BY DEF Sound, Requests, NoRequest
<1>2. before' \in [target : MaybeTarget, key : MaybeTarget]
  BY <1>1 DEF Begin, TypeOK, ConfigFile
<1>3. TypeOK'
  BY <1>1, <1>2, NoConfigsType
     DEF Begin, Sound, TypeOK, fileVars, refreshVars, UiPcs, Reports
<1>4. RequestInv'
  BY <1>1 DEF Begin, Sound, RequestInv, KeyedPcs, DeletePcs
<1> QED
  BY <1>3, <1>4

(* The files that a step of a request writes.                              *)
LEMMA StepWrites ==
  ASSUME TypeOK, RequestInv, UiSteps
  PROVE  /\ secret' \in [Providers -> MaybeTarget] /\ cache' \in [Providers -> MaybeTarget]
         /\ marked' \subseteq Providers /\ overlay' \subseteq Providers
         /\ config' \in ConfigFile
<1>1. /\ secret \in [Providers -> MaybeTarget] /\ cache \in [Providers -> MaybeTarget]
      /\ marked \subseteq Providers /\ overlay \subseteq Providers
      /\ config \in ConfigFile /\ updated \in ConfigFile
      /\ previous \in MaybeTarget /\ NoTarget \in MaybeTarget
  BY NoConfigsType DEF TypeOK
<1>2. upc # "idle"
  BY DEF UiSteps, Invalidate, Arm, Store, Save, Restore, Remove, Disarm, Revoke, Purge, Unmark
<1>3. op.provider \in Providers /\ op.target \in MaybeTarget
  BY <1>2, RequestType
<1>4. CASE Invalidate
  BY <1>1, <1>3, <1>4 DEF Invalidate
<1>5. CASE Arm
  BY <1>1, <1>3, <1>5 DEF Arm, Armed
<1>6. CASE Store
  BY <1>1, <1>3, <1>6 DEF Store
<1>7. CASE Save
  BY <1>1, <1>3, <1>7 DEF Save
<1>8. CASE Restore
  BY <1>1, <1>3, <1>8 DEF Restore
<1>9. CASE Remove
  BY <1>1, <1>3, <1>9 DEF Remove
<1>10. CASE Disarm
  BY <1>1, <1>3, <1>10 DEF Disarm, Cleared
<1>11. CASE Revoke
  BY <1>1, <1>3, <1>11 DEF Revoke
<1>12. CASE Purge
  BY <1>1, <1>3, <1>12 DEF Purge
<1>13. CASE Unmark
  BY <1>1, <1>3, <1>13 DEF Unmark, Cleared
<1> QED
  BY <1>4, <1>5, <1>6, <1>7, <1>8, <1>9, <1>10, <1>11, <1>12, <1>13 DEF UiSteps

(* Where a step of a request goes, and that it keeps the request.          *)
LEMMA StepGoes ==
  ASSUME TypeOK, RequestInv, UiSteps
  PROVE  /\ upc # "idle" /\ StepFrame
         /\ upc' \in UiPcs /\ report' \in Reports
         /\ updated' \in ConfigFile /\ previous' \in MaybeTarget
         /\ upc' \in KeyedPcs => op.keyed
         /\ upc' \in DeletePcs => op.kind = "delete"
         /\ upc' # "invalidate"
         /\ upc' # "idle" => updated' = updated /\ report' = report
<1>1. /\ updated \in ConfigFile /\ previous \in MaybeTarget /\ report \in Reports
      /\ NoConfigs \in ConfigFile /\ NoTarget \in MaybeTarget
      /\ secret \in [Providers -> MaybeTarget]
  BY NoConfigsType DEF TypeOK
<1>2. /\ upc \in KeyedPcs => op.keyed
      /\ upc \in DeletePcs => op.kind = "delete"
      /\ op # NoRequest /\ op.kind = "delete" => ~op.keyed
  BY DEF RequestInv
<1>3. CASE Invalidate
  BY <1>1, <1>2, <1>3 DEF Invalidate, Goes, CommitStart, KeyedPcs, DeletePcs, UiPcs
<1>4. CASE Arm
  BY <1>1, <1>2, <1>4 DEF Arm, Goes, Ends, KeyedPcs, DeletePcs, UiPcs, Reports
<1>5. CASE Store
  <2>1. op.provider \in Providers
    BY <1>5, RequestType DEF Store
  <2>2. previous' \in MaybeTarget
    BY <1>1, <1>5, <2>1 DEF Store, Reads
  <2> QED
    BY <1>1, <1>2, <1>5, <2>2 DEF Store, KeyedPcs, DeletePcs, UiPcs
<1>6. CASE Save
  BY <1>1, <1>2, <1>6 DEF Save, Goes, Ends, KeyedPcs, DeletePcs, UiPcs, Reports
<1>7. CASE Restore
  BY <1>1, <1>2, <1>7 DEF Restore, Goes, Ends, KeyedPcs, DeletePcs, UiPcs, Reports
<1>8. CASE Remove
  BY <1>1, <1>2, <1>8 DEF Remove, Goes, Ends, KeyedPcs, DeletePcs, UiPcs, Reports
<1>9. CASE Disarm
  BY <1>1, <1>2, <1>9 DEF Disarm, Goes, Ends, KeyedPcs, DeletePcs, UiPcs, Reports
<1>10. CASE Revoke
  BY <1>1, <1>2, <1>10 DEF Revoke, Goes, Ends, KeyedPcs, DeletePcs, UiPcs, Reports
<1>11. CASE Purge
  BY <1>1, <1>2, <1>11 DEF Purge, Goes, Ends, KeyedPcs, DeletePcs, UiPcs, Reports
<1>12. CASE Unmark
  BY <1>1, <1>2, <1>12 DEF Unmark, Goes, Ends, KeyedPcs, DeletePcs, UiPcs, Reports
<1> QED
  BY <1>3, <1>4, <1>5, <1>6, <1>7, <1>8, <1>9, <1>10, <1>11, <1>12 DEF UiSteps

LEMMA RefreshType ==
  ASSUME TypeOK, RequestInv, RefreshSteps
  PROVE  TypeOK' /\ RequestInv'
<1>1. PICK p \in Providers :
        \/ RefreshStart(p) \/ RefreshFails(p) \/ RefreshAnswers(p)
        \/ RefreshCaches(p) \/ RefreshLoads(p) \/ RefreshSaves(p)
  BY DEF RefreshSteps
<1>2. UNCHANGED <<conf, secret, marked, overlay, uiVars>>
  BY <1>1 DEF RefreshStart, RefreshFails, RefreshAnswers, RefreshCaches, RefreshLoads,
              RefreshSaves, RefreshFrame
<1>3. /\ rpc \in [Providers -> RefreshPcs] /\ asked \in [Providers -> MaybeTarget]
      /\ snapshot \in [Providers -> ConfigFile] /\ config \in ConfigFile
      /\ cache \in [Providers -> MaybeTarget] /\ alone \in BOOLEAN
      /\ NoConfigs \in ConfigFile /\ NoTarget \in MaybeTarget
  BY NoConfigsType DEF TypeOK
<1>4. config[p].target \in MaybeTarget
  BY <1>3 DEF ConfigFile
<1>5. [snapshot[p] EXCEPT ![p] = [target |-> snapshot[p][p].target, models |-> asked[p]]]
        \in ConfigFile
  <2>1. [target |-> snapshot[p][p].target, models |-> asked[p]]
          \in [target : MaybeTarget, models : MaybeTarget]
    BY <1>3 DEF ConfigFile
  <2> QED
    BY <1>3, <2>1 DEF ConfigFile
<1>6. /\ rpc' \in [Providers -> RefreshPcs] /\ asked' \in [Providers -> MaybeTarget]
      /\ snapshot' \in [Providers -> ConfigFile] /\ config' \in ConfigFile
      /\ cache' \in [Providers -> MaybeTarget] /\ alone' \in BOOLEAN
  <2>1. CASE RefreshStart(p)
    BY <1>3, <1>4, <2>1 DEF RefreshStart, RefreshPcs
  <2>2. CASE RefreshFails(p)
    BY <1>3, <2>2 DEF RefreshFails, RefreshOver, RefreshPcs
  <2>3. CASE RefreshAnswers(p)
    BY <1>3, <2>3 DEF RefreshAnswers, RefreshPcs
  <2>4. CASE RefreshCaches(p)
    BY <1>3, <2>4 DEF RefreshCaches, RefreshPcs
  <2>5. CASE RefreshLoads(p)
    BY <1>3, <2>5 DEF RefreshLoads, RefreshPcs
  <2>6. CASE RefreshSaves(p)
    BY <1>3, <1>5, <2>6 DEF RefreshSaves, RefreshOver, RefreshPcs
  <2> QED
    BY <1>1, <2>1, <2>2, <2>3, <2>4, <2>5, <2>6
<1>7. TypeOK'
  BY <1>2, <1>6 DEF TypeOK, uiVars
<1>8. RequestInv'
  BY <1>2 DEF RequestInv, uiVars
<1> QED
  BY <1>7, <1>8

LEMMA NextType == TypeOK /\ RequestInv /\ [Next]_vars => TypeOK' /\ RequestInv'
<1> SUFFICES ASSUME TypeOK, RequestInv, [Next]_vars PROVE TypeOK' /\ RequestInv'
  OBVIOUS
<1>1. CASE UiRequests
  BY <1>1, RequestBegins, BeginType
<1>2. CASE UiSteps
  <2>1. UNCHANGED <<conf, op, before, alone, rpc, asked, snapshot>>
    BY <1>2, StepGoes DEF StepFrame, refreshVars
  <2>2. TypeOK'
    BY <1>2, <2>1, StepGoes, StepWrites DEF TypeOK
  <2>3. op # NoRequest
    BY <1>2, StepGoes DEF RequestInv
  <2>4. RequestInv'
    BY <1>2, <2>1, <2>3, StepGoes DEF RequestInv
  <2> QED
    BY <2>2, <2>4
<1>3. CASE RefreshSteps
  BY <1>3, RefreshType
<1>4. CASE Restart
  <2>1. TypeOK'
    BY <1>4, NoConfigsType
       DEF Restart, Ends, TypeOK, fileVars, UiPcs, Reports, RefreshPcs
  <2>2. RequestInv'
    BY <1>4 DEF Restart, Ends, RequestInv, KeyedPcs, DeletePcs
  <2> QED
    BY <2>1, <2>2
<1>5. CASE UNCHANGED vars
  <2>1. TypeOK'
    BY <1>5 DEF vars, fileVars, uiVars, refreshVars, TypeOK
  <2>2. RequestInv'
    BY <1>5 DEF vars, uiVars, RequestInv
  <2> QED
    BY <2>1, <2>2
<1> QED
  BY <1>1, <1>2, <1>3, <1>4, <1>5 DEF Next

(* Every variable keeps its type, for every set of providers and targets.  *)
THEOREM RegistryTypes == Spec => []TypeOK
<1>1. Init => TypeOK /\ RequestInv
  BY InitType
<1>2. (TypeOK /\ RequestInv) /\ [Next]_vars => (TypeOK /\ RequestInv)'
  BY NextType
<1> QED
  BY <1>1, <1>2, PTL DEF Spec

-----------------------------------------------------------------------------
(* The quarantine.                                                         *)

LEMMA MarkStep ==
  ASSUME TypeOK, RequestInv, MarkInv, [Next]_vars
  PROVE  MarkInv'
<1>1. ASSUME NEW request, NEW list, NEW first, Sound(request, list, first),
             Begin(request, list, first)
      PROVE  MarkInv'
  BY <1>1 DEF Begin, Sound, MarkInv, fileVars
<1>2. CASE UiSteps
  <2>1. op' = op
    BY <1>2, StepGoes DEF StepFrame
  <2>2. CASE Invalidate
    BY <2>1, <2>2 DEF Invalidate, Goes, CommitStart, MarkInv
  <2>3. CASE Arm
    BY <2>1, <2>3 DEF Arm, Armed, Goes, Ends, MarkInv
  <2>4. CASE Store
    BY <2>1, <2>4 DEF Store, MarkInv
  <2>5. CASE Save
    BY <2>1, <2>5 DEF Save, Goes, Ends, MarkInv
  <2>6. CASE Restore
    BY <2>1, <2>6 DEF Restore, Goes, MarkInv
  <2>7. CASE Remove
    BY <2>1, <2>7 DEF Remove, Ends, MarkInv
  <2>8. CASE Disarm
    BY <2>1, <2>8 DEF Disarm, Cleared, Goes, Ends, MarkInv
  <2>9. CASE Revoke
    BY <2>1, <2>9 DEF Revoke, Goes, Ends, MarkInv
  <2>10. CASE Purge
    BY <2>1, <2>10 DEF Purge, Goes, Ends, MarkInv
  <2>11. CASE Unmark
    <3>1. ~op.keyed
      BY <2>11 DEF Unmark, RequestInv, DeletePcs
    <3> QED
      BY <2>1, <2>11, <3>1 DEF Unmark, Cleared, Goes, Ends, MarkInv
  <2> QED
    BY <1>2, <2>2, <2>3, <2>4, <2>5, <2>6, <2>7, <2>8, <2>9, <2>10, <2>11 DEF UiSteps
<1>3. CASE RefreshSteps
  <2>1. UNCHANGED <<marked, overlay, upc, op>>
    BY <1>3 DEF RefreshSteps, RefreshStart, RefreshFails, RefreshAnswers, RefreshCaches,
                RefreshLoads, RefreshSaves, RefreshFrame, uiVars
  <2> QED
    BY <2>1 DEF MarkInv
<1>4. CASE Restart
  BY <1>4 DEF Restart, Ends, MarkInv, fileVars
<1>5. CASE UNCHANGED vars
  BY <1>5 DEF vars, fileVars, uiVars, MarkInv
<1> QED
  BY <1>1, <1>2, <1>3, <1>4, <1>5, RequestBegins DEF Next

LEMMA SecretWrites ==
  ASSUME TypeOK, RequestInv, MarkInv, [Next]_vars, NEW p \in Providers,
         secret'[p] # secret[p]
  PROVE  secret'[p] = NoTarget \/ p \in marked
<1>1. CASE UiRequests
  <2>1. secret' = secret
    BY <1>1, RequestBegins DEF Begin, fileVars
  <2> QED
    BY <2>1
<1>2. CASE UiSteps
  <2>1. secret \in [Providers -> MaybeTarget] /\ op.provider \in Providers
    BY <1>2, StepGoes, RequestType DEF TypeOK
  <2>2. CASE Store
    BY <2>1, <2>2 DEF Store, MarkInv
  <2>3. CASE Restore
    BY <2>1, <2>3 DEF Restore, MarkInv
  <2>4. CASE Remove
    BY <2>1, <2>4 DEF Remove
  <2>5. CASE Revoke
    BY <2>1, <2>5 DEF Revoke
  <2>6. CASE Invalidate \/ Arm \/ Save \/ Disarm \/ Purge \/ Unmark
    BY <2>6 DEF Invalidate, Arm, Save, Disarm, Purge, Unmark
  <2> QED
    BY <1>2, <2>2, <2>3, <2>4, <2>5, <2>6 DEF UiSteps
<1>3. CASE RefreshSteps
  BY <1>3 DEF RefreshSteps, RefreshStart, RefreshFails, RefreshAnswers, RefreshCaches,
              RefreshLoads, RefreshSaves, RefreshFrame
<1>4. CASE Restart \/ UNCHANGED vars
  BY <1>4 DEF Restart, vars, fileVars
<1> QED
  BY <1>1, <1>2, <1>3, <1>4 DEF Next

(* A key is written only under a quarantine that is on disk already, for   *)
(* every number of providers and whatever refreshes do meanwhile.          *)
THEOREM KeysAreArmed == Spec => ArmedBeforeStored
<1>1. Init => TypeOK /\ RequestInv /\ MarkInv
  BY InitType DEF Init, MarkInv
<1>2. (TypeOK /\ RequestInv /\ MarkInv) /\ [Next]_vars => (TypeOK /\ RequestInv /\ MarkInv)'
  BY NextType, MarkStep
<1>3. TypeOK /\ RequestInv /\ MarkInv /\ [Next]_vars =>
        [\A p \in Providers :
           secret'[p] # secret[p] => secret'[p] = NoTarget \/ p \in marked]_vars
  BY SecretWrites
<1> QED
  BY <1>1, <1>2, <1>3, PTL DEF Spec, ArmedBeforeStored

-----------------------------------------------------------------------------
(* Keys, refreshes and configurations.                                     *)

(* Outside UiSteps, only refreshes write, and they write neither keys nor  *)
(* marks nor anything of the user-interface thread.                        *)
LEMMA RefreshKeeps ==
  ASSUME RefreshSteps
  PROVE  UNCHANGED <<conf, secret, marked, overlay, upc, op, updated, previous, report, before>>
BY DEF RefreshSteps, RefreshStart, RefreshFails, RefreshAnswers, RefreshCaches,
       RefreshLoads, RefreshSaves, RefreshFrame, uiVars

LEMMA KeyInit == Init => KeyInv
BY TargetsAssumption DEF Init, KeyInv, Purged, DeletePcs

LEMMA KeyStep ==
  ASSUME TypeOK, RequestInv, KeyInv, [Next]_vars
  PROVE  KeyInv'
<1> NoTarget \notin NoAuth
  BY TargetsAssumption
<1>1. ASSUME NEW request, NEW list, NEW first, Sound(request, list, first),
             Begin(request, list, first)
      PROVE  KeyInv'
  <2>1. /\ request \in Requests /\ request.provider \in Providers
        /\ before'.key = secret[request.provider]
        /\ op' = request /\ upc' = first /\ secret' = secret /\ previous' = NoTarget
    BY <1>1 DEF Sound, Requests, Begin, fileVars
  <2>2. first \in {"invalidate", "arm", "save", "revoke"} /\ (first = "save" => ~request.keyed)
    BY <1>1 DEF Sound
  <2> QED
    BY <2>1, <2>2 DEF KeyInv, Purged, DeletePcs
<1>2. CASE UiSteps
  <2>1. op' = op /\ before' = before /\ op.provider \in Providers
    BY <1>2, StepGoes, RequestType DEF StepFrame
  <2>2. /\ upc \in KeyedPcs => op.keyed /\ op.kind # "delete" /\ op.target \notin NoAuth
        /\ upc \in DeletePcs => op.kind = "delete" /\ ~op.keyed
        /\ upc = "invalidate" => op.kind = "update"
        /\ op.keyed => op.kind # "delete"
    BY <1>2, StepGoes DEF RequestInv
  <2>3. secret \in [Providers -> MaybeTarget]
    BY DEF TypeOK
  <2>4. CASE Invalidate
    BY <2>1, <2>2, <2>4 DEF Invalidate, Goes, CommitStart, KeyInv, Purged, DeletePcs
  <2>5. CASE Arm
    BY <2>1, <2>2, <2>5 DEF Arm, Goes, Ends, KeyInv, Purged, DeletePcs
  <2>6. CASE Store
    BY <2>1, <2>2, <2>3, <2>6 DEF Store, Reads, KeyInv, Purged, KeyedPcs, DeletePcs
  <2>7. CASE Save
    BY <2>1, <2>2, <2>7 DEF Save, Goes, Ends, KeyInv, Purged, DeletePcs
  <2>8. CASE Restore
    BY <2>1, <2>2, <2>3, <2>8 DEF Restore, Goes, KeyInv, Purged, DeletePcs
  <2>9. CASE Remove
    BY <2>1, <2>2, <2>3, <2>9 DEF Remove, Ends, KeyInv, Purged, DeletePcs
  <2>10. CASE Disarm
    BY <2>1, <2>2, <2>10 DEF Disarm, Goes, Ends, KeyInv, Purged, DeletePcs
  <2>11. CASE Revoke
    BY <2>1, <2>2, <2>3, <2>11 DEF Revoke, Goes, Ends, KeyInv, Purged, DeletePcs
  <2>12. CASE Purge
    BY <2>1, <2>2, <2>12 DEF Purge, Goes, Ends, KeyInv, Purged, DeletePcs
  <2>13. CASE Unmark
    BY <2>1, <2>2, <2>13 DEF Unmark, Goes, Ends, KeyInv, Purged, DeletePcs
  <2> QED
    BY <1>2, <2>4, <2>5, <2>6, <2>7, <2>8, <2>9, <2>10, <2>11, <2>12, <2>13 DEF UiSteps
<1>3. CASE RefreshSteps
  BY <1>3, RefreshKeeps DEF KeyInv, Purged
<1>4. CASE Restart
  BY <1>4 DEF Restart, Ends, KeyInv, Purged, DeletePcs, fileVars
<1>5. CASE UNCHANGED vars
  BY <1>5 DEF vars, fileVars, uiVars, KeyInv, Purged
<1> QED
  BY <1>1, <1>2, <1>3, <1>4, <1>5, RequestBegins DEF Next

(* A refresh leaves the targets as they are, if no request overlapped it.  *)
LEMMA RefreshTargets ==
  ASSUME TypeOK, RefreshInv, RefreshSteps
  PROVE  /\ alone' => alone
         /\ alone => \A r \in Providers : config'[r].target = config[r].target
<1>1. PICK p \in Providers :
        \/ RefreshStart(p) \/ RefreshFails(p) \/ RefreshAnswers(p)
        \/ RefreshCaches(p) \/ RefreshLoads(p) \/ RefreshSaves(p)
  BY DEF RefreshSteps
<1>2. CASE RefreshSaves(p)
  <2>1. snapshot[p] \in [Providers -> [target : MaybeTarget, models : MaybeTarget]]
    BY DEF TypeOK, ConfigFile
  <2>2. \A r \in Providers : config'[r].target = snapshot[p][r].target
    BY <1>2, <2>1 DEF RefreshSaves
  <2> QED
    BY <1>2, <2>2 DEF RefreshSaves, RefreshInv
<1>3. CASE RefreshAnswers(p)
  BY <1>3 DEF RefreshAnswers, TypeOK
<1>4. CASE RefreshStart(p) \/ RefreshFails(p) \/ RefreshCaches(p) \/ RefreshLoads(p)
  BY <1>4 DEF RefreshStart, RefreshFails, RefreshCaches, RefreshLoads
<1> QED
  BY <1>1, <1>2, <1>3, <1>4

LEMMA RefreshStep ==
  ASSUME TypeOK, RequestInv, RefreshInv, [Next]_vars
  PROVE  RefreshInv'
<1>1. CASE UiRequests
  <2>1. /\ UNCHANGED <<config, rpc, snapshot>>
        /\ alone' = (\A q \in Providers : rpc[q] \notin Writing)
    BY <1>1, RequestBegins DEF Begin, fileVars, refreshVars
  <2> QED
    BY <2>1 DEF RefreshInv, Writing
<1>2. CASE UiSteps
  <2>1. UNCHANGED <<alone, rpc, snapshot>> /\ upc # "idle"
    BY <1>2, StepGoes DEF StepFrame, refreshVars
  <2> QED
    BY <2>1 DEF RefreshInv, Writing
<1>3. CASE RefreshSteps
  <2> SUFFICES ASSUME alone'
               PROVE  /\ upc' # "idle" => \A q \in Providers : rpc'[q] \notin Writing
                      /\ \A q, r \in Providers :
                           rpc'[q] = "saving" => snapshot'[q][r].target = config'[r].target
    BY DEF RefreshInv
  <2>1. alone /\ upc' = upc /\ \A r \in Providers : config'[r].target = config[r].target
    BY <1>3, RefreshTargets, RefreshKeeps
  <2>2. /\ rpc \in [Providers -> RefreshPcs] /\ snapshot \in [Providers -> ConfigFile]
        /\ upc # "idle" => \A q \in Providers : rpc[q] \notin Writing
        /\ \A q, r \in Providers : rpc[q] = "saving" => snapshot[q][r].target = config[r].target
    BY <2>1 DEF TypeOK, RefreshInv
  <2>3. PICK p \in Providers :
          \/ RefreshStart(p) \/ RefreshFails(p) \/ RefreshAnswers(p)
          \/ RefreshCaches(p) \/ RefreshLoads(p) \/ RefreshSaves(p)
    BY <1>3 DEF RefreshSteps
  <2>4. CASE RefreshStart(p)
    BY <2>1, <2>2, <2>4 DEF RefreshStart, Writing
  <2>5. CASE RefreshFails(p)
    BY <2>1, <2>2, <2>5 DEF RefreshFails, RefreshOver, Writing
  <2>6. CASE RefreshAnswers(p)
    BY <2>1, <2>2, <2>6 DEF RefreshAnswers, Writing
  <2>7. CASE RefreshCaches(p)
    BY <2>1, <2>2, <2>7 DEF RefreshCaches, Writing
  <2>8. CASE RefreshLoads(p)
    BY <2>1, <2>2, <2>8 DEF RefreshLoads, Writing
  <2>9. CASE RefreshSaves(p)
    BY <2>1, <2>2, <2>9 DEF RefreshSaves, RefreshOver, Writing
  <2> QED
    BY <2>3, <2>4, <2>5, <2>6, <2>7, <2>8, <2>9
<1>4. CASE Restart
  BY <1>4 DEF Restart, Ends, RefreshInv, Writing
<1>5. CASE UNCHANGED vars
  BY <1>5 DEF vars, fileVars, uiVars, refreshVars, RefreshInv
<1> QED
  BY <1>1, <1>2, <1>3, <1>4, <1>5 DEF Next

LEMMA ListStep ==
  ASSUME TypeOK, RequestInv, RefreshInv, ListInv, [Next]_vars
  PROVE  ListInv'
<1>1. ASSUME NEW request, NEW list, NEW first, Sound(request, list, first),
             Begin(request, list, first)
      PROVE  ListInv'
  <2>1. /\ op' = request /\ updated' = list /\ config' = config /\ upc' = first
        /\ before'.target = config[request.provider].target
    BY <1>1 DEF Begin, fileVars
  <2> QED
    BY <1>1, <2>1 DEF Sound, ListInv
<1>2. CASE UiSteps
  <2>1. /\ op' = op /\ before' = before /\ alone' = alone /\ op.provider \in Providers
        /\ upc # "idle" /\ (upc' # "idle" => updated' = updated)
    BY <1>2, StepGoes, RequestType DEF StepFrame
  <2>2. CASE Save
    BY <2>1, <2>2 DEF Save, Goes, Ends, ListInv
  <2>3. CASE Disarm
    BY <2>1, <2>3 DEF Disarm, Goes, Ends, ListInv
  <2>4. CASE Invalidate \/ Arm \/ Store \/ Restore \/ Remove \/ Revoke \/ Purge \/ Unmark
    <3>1. /\ config' = config /\ upc \notin {"disarm", "disarmAgain"}
          /\ upc' \notin {"disarm", "disarmAgain"}
      BY <2>4 DEF Invalidate, Arm, Store, Restore, Remove, Revoke, Purge, Unmark, Goes, Ends,
                  CommitStart
    <3> QED
      BY <2>1, <3>1 DEF ListInv
  <2> QED
    BY <1>2, <2>2, <2>3, <2>4 DEF UiSteps
<1>3. CASE RefreshSteps
  <2>1. UNCHANGED <<upc, op, updated, before>>
    BY <1>3, RefreshKeeps
  <2>2. upc # "idle" => op.provider \in Providers
    BY RequestType
  <2> QED
    BY <1>3, <2>1, <2>2, RefreshTargets DEF ListInv
<1>4. CASE Restart
  BY <1>4 DEF Restart, Ends, ListInv
<1>5. CASE UNCHANGED vars
  BY <1>5 DEF vars, fileVars, uiVars, ListInv
<1> QED
  BY <1>1, <1>2, <1>3, <1>4, <1>5, RequestBegins DEF Next

-----------------------------------------------------------------------------
(* The pair of a key and its target.                                       *)

LEMMA GateBegins ==
  ASSUME TypeOK, KeyInv, NEW request, NEW list, NEW first, Sound(request, list, first),
         Begin(request, list, first)
  PROVE  GateInv'
<1> DEFINE p == request.provider
<1>1. /\ p \in Providers /\ request.kind \in {"add", "update", "delete"}
      /\ before'.target = config[p].target /\ before'.key = secret[p]
      /\ op' = request /\ conf' = conf /\ marked' = marked /\ overlay' = overlay
      /\ upc' \in {"invalidate", "save"} => request.kind # "delete"
  BY DEF Sound, Requests, Begin, fileVars
<1> SUFFICES ASSUME ~request.keyed, request.kind # "delete", ~conf.blind,
                    secret[p] \in {NoTarget, config[p].target}
             PROVE  \/ request.target = config[p].target \/ request.target \in NoAuth
                    \/ Quarantined(p) \/ secret[p] = NoTarget
  BY <1>1 DEF GateInv, BeganPaired, Purged, Quarantined
<1>2. CASE request.kind = "add"
  BY <1>2 DEF Sound
<1>3. CASE request.kind = "update"
  <2>1. MayMove(p, request.target, request.keyed)
    BY <1>3 DEF Sound
  <2>2. secret[p] \notin NoAuth
    BY <1>1 DEF KeyInv
  <2> QED
    BY <2>1, <2>2 DEF MayMove, Reads, UsableKey, Configured
<1> QED
  BY <1>1, <1>2, <1>3

LEMMA GateStep ==
  ASSUME TypeOK, RequestInv, KeyInv, GateInv, [Next]_vars
  PROVE  GateInv'
<1>1. CASE UiRequests
  BY <1>1, RequestBegins, GateBegins
<1>2. CASE UiSteps
  <2>1. UNCHANGED <<conf, op, before>>
    BY <1>2, StepGoes DEF StepFrame
  <2>2. CASE Invalidate
    BY <2>1, <2>2 DEF Invalidate, Goes, CommitStart, GateInv, BeganPaired, Purged, Quarantined
  <2>3. CASE Store
    BY <2>1, <2>3 DEF Store, RequestInv, KeyedPcs, GateInv
  <2>4. CASE Unmark
    BY <2>1, <2>4 DEF Unmark, Goes, Ends, RequestInv, DeletePcs, GateInv, Purged
  <2>5. CASE Arm \/ Save \/ Restore \/ Remove \/ Disarm \/ Revoke \/ Purge
    <3>1. upc' \notin {"invalidate", "save"}
      BY <2>5 DEF Arm, Save, Restore, Remove, Disarm, Revoke, Purge, Goes, Ends
    <3> QED
      BY <3>1 DEF GateInv
  <2> QED
    BY <1>2, <2>2, <2>3, <2>4, <2>5 DEF UiSteps
<1>3. CASE RefreshSteps
  BY <1>3, RefreshKeeps DEF GateInv, BeganPaired, Purged, Quarantined
<1>4. CASE Restart
  BY <1>4 DEF Restart, Ends, GateInv
<1>5. CASE UNCHANGED vars
  BY <1>5 DEF vars, fileVars, uiVars, GateInv, BeganPaired, Purged, Quarantined
<1> QED
  BY <1>1, <1>2, <1>3, <1>4, <1>5 DEF Next

(* While a request runs, its provider is blocked unless its key and target *)
(* belong together.                                                        *)
LEMMA PairWhileBusy ==
  ASSUME TypeOK, RequestInv, MarkInv, KeyInv, ListInv, upc # "idle", alone, BeganPaired
  PROVE  /\ Paired(op.provider) \/ op.provider \in marked
         /\ upc # "disarm" /\ upc # "disarmAgain" /\ secret[op.provider] \in {before.key, NoTarget}
              => Paired(op.provider)
<1>1. upc \notin {"disarm", "disarmAgain"} => config[op.provider].target = before.target
  BY DEF ListInv
<1>2. upc \in {"disarm", "disarmAgain"} => Paired(op.provider)
  BY DEF ListInv, KeyInv, Paired
<1>3. upc \notin {"disarm", "disarmAgain"} /\ secret[op.provider] \in {before.key, NoTarget}
        => Paired(op.provider)
  BY <1>1 DEF Paired, BeganPaired
<1>4. upc \in {"invalidate", "arm", "store", "abandon", "settle", "revoke", "purge", "unmark"}
        => secret[op.provider] \in {before.key, NoTarget}
  BY DEF KeyInv, DeletePcs
<1>5. upc \in {"restore", "remove"} => op.provider \in marked
  BY DEF MarkInv
<1>6. upc = "save" => secret[op.provider] \in {before.key, NoTarget} \/ op.provider \in marked
  BY DEF MarkInv, KeyInv, Purged
<1> QED
  BY <1>2, <1>3, <1>4, <1>5, <1>6 DEF TypeOK, UiPcs

LEMMA PairStep ==
  ASSUME TypeOK, RequestInv, MarkInv, KeyInv, RefreshInv, ListInv, GateInv, RequestKeepsPair,
         [Next]_vars
  PROVE  RequestKeepsPair'
<1>1. ASSUME NEW request, NEW list, NEW first, Sound(request, list, first),
             Begin(request, list, first)
      PROVE  RequestKeepsPair'
  BY <1>1 DEF Begin, fileVars, RequestKeepsPair, BeganPaired, Paired
<1>2. CASE UiSteps
  <2>1. UNCHANGED <<conf, op, before, alone>> /\ upc # "idle" /\ op.provider \in Providers
    BY <1>2, StepGoes, RequestType DEF StepFrame
  <2> SUFFICES ASSUME alone, conf.blind => op.keyed, BeganPaired
               PROVE  Paired(op.provider)' \/ ~Usable(op.provider)'
    BY <2>1 DEF RequestKeepsPair, BeganPaired, Paired, Usable, UsableKey, Configured, Quarantined
  <2>2. op.provider \in marked' => ~Usable(op.provider)'
    BY <2>1 DEF Usable, UsableKey, Quarantined
  <2>3. secret \in [Providers -> MaybeTarget]
    BY DEF TypeOK
  <2>4. Paired(op.provider) \/ op.provider \in marked
    BY <2>1, PairWhileBusy
  <2>5. CASE Invalidate \/ Arm \/ Purge
    BY <2>1, <2>2, <2>4, <2>5 DEF Invalidate, Arm, Armed, Purge, Paired
  <2>6. CASE Store \/ Restore
    BY <2>2, <2>6 DEF Store, Restore, MarkInv
  <2>7. CASE Save
    <3>1. CASE config' = config
      BY <2>1, <2>2, <2>4, <2>7, <3>1 DEF Save, Paired
    <3>2. CASE config' = updated /\ op.keyed
      BY <2>2, <2>7, <3>2 DEF Save, MarkInv
    <3>3. CASE config' = updated /\ op.kind = "delete"
      <4>1. config'[op.provider].target = NoTarget
        BY <2>1, <2>7, <3>3 DEF ListInv, RequestInv
      <4> QED
        BY <2>1, <4>1 DEF Usable, UsableKey, Configured
    <3>4. CASE config' = updated /\ ~op.keyed /\ op.kind # "delete"
      <4>1. config'[op.provider].target = op.target /\ secret' = secret
            /\ marked' = marked /\ overlay' = overlay
        BY <2>1, <2>7, <3>4 DEF Save, ListInv
      <4>2. secret[op.provider] = before.key
        BY <2>7, <3>4 DEF Save, KeyInv, Purged
      <4>3. \/ op.target = before.target \/ op.target \in NoAuth
            \/ Quarantined(op.provider) \/ before.key = NoTarget
        BY <2>7, <3>4 DEF Save, GateInv, Purged
      <4> QED
        BY <2>1, <4>1, <4>2, <4>3
           DEF Paired, Usable, UsableKey, Configured, Quarantined, BeganPaired
    <3> QED
      BY <2>7, <3>1, <3>2, <3>3, <3>4 DEF Save
  <2>8. CASE Remove
    BY <2>1, <2>2, <2>3, <2>8 DEF Remove, MarkInv, Paired
  <2>9. CASE Disarm
    <3>1. Paired(op.provider)
      <4>1. upc \in {"abandon", "settle"} => secret[op.provider] = before.key
        BY DEF KeyInv
      <4>2. upc \in {"disarm", "disarmAgain"} => Paired(op.provider)
        BY DEF ListInv, KeyInv, Paired
      <4> QED
        BY <2>1, <2>9, <4>1, <4>2, PairWhileBusy DEF Disarm
    <3> QED
      BY <2>1, <2>9, <3>1 DEF Disarm, Paired
  <2>10. CASE Revoke
    <3>1. Paired(op.provider)
      BY <2>1, <2>10, PairWhileBusy DEF Revoke, KeyInv, DeletePcs
    <3> QED
      BY <2>1, <2>3, <2>10, <3>1 DEF Revoke, Paired
  <2>11. CASE Unmark
    <3>1. Paired(op.provider)
      BY <2>1, <2>11, PairWhileBusy DEF Unmark, KeyInv, DeletePcs
    <3> QED
      BY <2>1, <2>11, <3>1 DEF Unmark, Paired
  <2> QED
    BY <1>2, <2>5, <2>6, <2>7, <2>8, <2>9, <2>10, <2>11 DEF UiSteps
<1>3. CASE RefreshSteps
  <2> SUFFICES ASSUME op # NoRequest, alone', conf.blind => op.keyed, BeganPaired
               PROVE  Paired(op.provider)' \/ ~Usable(op.provider)'
    BY <1>3, RefreshKeeps
       DEF RequestKeepsPair, BeganPaired, Paired, Usable, UsableKey, Configured, Quarantined
  <2>1. op.provider \in Providers
    BY DEF TypeOK, Requests
  <2>2. alone /\ config'[op.provider].target = config[op.provider].target
    BY <1>3, <2>1, RefreshTargets
  <2> QED
    BY <1>3, <2>2, RefreshKeeps
       DEF RequestKeepsPair, BeganPaired, Paired, Usable, UsableKey, Configured, Quarantined
<1>4. CASE Restart
  BY <1>4 DEF Restart, fileVars, MarkInv, RequestKeepsPair, BeganPaired, Paired, Usable,
              UsableKey, Configured, Quarantined
<1>5. CASE UNCHANGED vars
  BY <1>5 DEF vars, fileVars, uiVars, RequestKeepsPair, BeganPaired, Paired, Usable,
              UsableKey, Configured, Quarantined
<1> QED
  BY <1>1, <1>2, <1>3, <1>4, <1>5, RequestBegins DEF Next

-----------------------------------------------------------------------------
(* What a request reports, and what a delete leaves.                       *)

LEMMA ReportStep ==
  ASSUME TypeOK, RequestInv, MarkInv, KeyInv, RefreshInv, ListInv, ReportIsTrue, [Next]_vars
  PROVE  ReportIsTrue'
<1>1. CASE UiRequests
  BY <1>1, RequestBegins DEF Begin, ReportIsTrue
<1>2. CASE UiSteps
  <2>1. /\ UNCHANGED <<op, before, alone>> /\ upc # "idle" /\ op.provider \in Providers
        /\ upc' # "idle" => report' = "none"
    BY <1>2, StepGoes, RequestType DEF StepFrame, RequestInv
  <2> SUFFICES ASSUME alone, upc' = "idle" PROVE ReportIsTrue'
    BY <2>1 DEF ReportIsTrue
  <2>2. secret \in [Providers -> MaybeTarget]
    BY DEF TypeOK
  <2>3. CASE Arm
    BY <2>1, <2>3 DEF Arm, Goes, Ends, ReportIsTrue, Unchanged, KeyInv, ListInv
  <2>4. CASE Save
    <3>1. op.keyed => upc' # "idle"
      BY <2>4 DEF Save, Goes, RequestInv
    <3> QED
      BY <2>1, <2>4, <3>1 DEF Save, Ends, ReportIsTrue, ListInv
  <2>5. CASE Remove
    BY <2>1, <2>2, <2>5 DEF Remove, Ends, ReportIsTrue, ListInv, MarkInv, Quarantined
  <2>6. CASE Disarm
    BY <2>1, <2>6 DEF Disarm, Goes, Ends, ReportIsTrue, Unchanged, KeyInv, ListInv
  <2>7. CASE Revoke
    BY <2>1, <2>7 DEF Revoke, Goes, Ends, ReportIsTrue, ListInv
  <2>8. CASE Purge
    BY <2>1, <2>8 DEF Purge, Goes, Ends, ReportIsTrue, ListInv
  <2>9. CASE Unmark
    BY <2>1, <2>9 DEF Unmark, Goes, Ends, ReportIsTrue, ListInv
  <2>10. CASE Invalidate \/ Store \/ Restore
    BY <2>10 DEF Invalidate, Store, Restore, Goes, CommitStart
  <2> QED
    BY <1>2, <2>3, <2>4, <2>5, <2>6, <2>7, <2>8, <2>9, <2>10 DEF UiSteps
<1>3. CASE RefreshSteps
  <2>1. report \notin {"none", "crashed"} => op.provider \in Providers
    BY DEF TypeOK, RequestInv, Requests
  <2> QED
    BY <1>3, <2>1, RefreshTargets, RefreshKeeps DEF ReportIsTrue, Unchanged, Quarantined
<1>4. CASE Restart
  BY <1>4 DEF Restart, Ends, ReportIsTrue
<1>5. CASE UNCHANGED vars
  BY <1>5 DEF vars, fileVars, uiVars, ReportIsTrue, Unchanged, Quarantined
<1> QED
  BY <1>1, <1>2, <1>3, <1>4, <1>5 DEF Next

LEMMA DeleteStep ==
  ASSUME TypeOK, RequestInv, MarkInv, RefreshInv, ListInv, DeleteInv, [Next]_vars
  PROVE  DeleteInv'
<1>1. ASSUME NEW request, NEW list, NEW first, Sound(request, list, first),
             Begin(request, list, first)
      PROVE  DeleteInv'
  <2>1. /\ upc' \notin {"unmark", "purge"} /\ report' = "none"
        /\ upc' = "save" => op'.kind # "delete"
    BY <1>1 DEF Begin, Sound
  <2> QED
    BY <2>1 DEF DeleteInv, Purged
<1>2. CASE UiSteps
  <2>1. /\ UNCHANGED <<conf, op, alone, rpc>> /\ upc # "idle" /\ op.provider \in Providers
        /\ upc' # "idle" => report' = "none"
    BY <1>2, StepGoes, RequestType DEF StepFrame, RequestInv, refreshVars
  <2> SUFFICES ASSUME alone PROVE DeleteInv'
    BY <2>1 DEF DeleteInv
  <2>2. /\ secret \in [Providers -> MaybeTarget] /\ cache \in [Providers -> MaybeTarget]
        /\ rpc[op.provider] \notin Writing
    BY <2>1 DEF TypeOK, RefreshInv
  <2>3. CASE Save
    BY <2>1, <2>2, <2>3 DEF Save, Goes, Ends, DeleteInv, Purged, ListInv, RequestInv, Configured
  <2>4. CASE Revoke
    BY <2>1, <2>2, <2>4 DEF Revoke, Reads, Goes, Ends, DeleteInv, Purged
  <2>5. CASE Purge
    BY <2>1, <2>2, <2>5 DEF Purge, Goes, Ends, DeleteInv, Purged
  <2>6. CASE Unmark
    BY <2>1, <2>2, <2>6 DEF Unmark, Cleared, Goes, Ends, DeleteInv, Purged, Quarantined
  <2>7. CASE Invalidate
    BY <2>1, <2>7 DEF Invalidate, Goes, CommitStart, RequestInv, DeleteInv, Purged
  <2>8. CASE Store
    BY <2>1, <2>8 DEF Store, RequestInv, KeyedPcs, DeleteInv, Purged
  <2>9. CASE Arm \/ Restore \/ Remove \/ Disarm
    <3>1. upc' \notin {"purge", "unmark", "save"} /\ report' # "deleted"
      BY <2>1, <2>9 DEF Arm, Restore, Remove, Disarm, Goes, Ends
    <3> QED
      BY <3>1 DEF DeleteInv, Purged
  <2> QED
    BY <1>2, <2>3, <2>4, <2>5, <2>6, <2>7, <2>8, <2>9 DEF UiSteps
<1>3. CASE RefreshSteps
  <2>1. UNCHANGED <<conf, secret, marked, overlay, upc, op, report>>
    BY <1>3, RefreshKeeps
  <2> SUFFICES ASSUME alone' PROVE DeleteInv'
    BY DEF DeleteInv
  <2>2. alone /\ \A r \in Providers : config'[r].target = config[r].target
    BY <1>3, RefreshTargets
  <2>3. upc # "idle" \/ report = "deleted" => op.provider \in Providers
    BY DEF TypeOK, RequestInv, Requests
  <2>4. /\ rpc \in [Providers -> RefreshPcs]
        /\ upc # "idle" => \A q \in Providers : rpc[q] \notin Writing
    BY <2>2 DEF TypeOK, RefreshInv
  <2>5. PICK p \in Providers :
          \/ RefreshStart(p) \/ RefreshFails(p) \/ RefreshAnswers(p)
          \/ RefreshCaches(p) \/ RefreshLoads(p) \/ RefreshSaves(p)
    BY <1>3 DEF RefreshSteps
  <2>6. upc # "idle" => cache' = cache
    BY <2>4, <2>5 DEF RefreshStart, RefreshFails, RefreshAnswers, RefreshCaches,
                      RefreshLoads, RefreshSaves, Writing
  <2>7. report = "deleted" => rpc'[op.provider] \notin Writing
    <3> SUFFICES ASSUME report = "deleted" PROVE rpc'[op.provider] \notin Writing
      OBVIOUS
    <3>1. ~Configured(op.provider) /\ rpc[op.provider] \notin Writing
      BY <2>2 DEF DeleteInv
    <3> QED
      BY <2>3, <2>4, <2>5, <3>1
         DEF RefreshStart, RefreshFails, RefreshAnswers, RefreshCaches, RefreshLoads,
             RefreshSaves, RefreshOver, Writing
  <2> QED
    BY <2>1, <2>2, <2>3, <2>6, <2>7 DEF DeleteInv, Purged, Quarantined, Configured
<1>4. CASE Restart
  BY <1>4 DEF Restart, Ends, DeleteInv, Purged
<1>5. CASE UNCHANGED vars
  BY <1>5 DEF vars, fileVars, uiVars, refreshVars, DeleteInv, Purged, Quarantined, Configured
<1> QED
  BY <1>1, <1>2, <1>3, <1>4, <1>5, RequestBegins DEF Next

LEMMA CompleteStep ==
  ASSUME TypeOK, RequestInv, RefreshInv, ListInv, DeleteInv, DeletionIsComplete, [Next]_vars
  PROVE  DeletionIsComplete'
<1>1. CASE UiRequests \/ Restart
  <2>1. report' \in {"none", "crashed"}
    BY <1>1, RequestBegins DEF Begin, Restart, Ends
  <2> QED
    BY <2>1 DEF DeletionIsComplete
<1>2. CASE UiSteps
  <2>1. /\ UNCHANGED <<conf, op, alone>> /\ upc # "idle"
        /\ report' = "deleted" => Save /\ op.kind = "delete"
    BY <1>2, StepGoes
       DEF StepFrame, RequestInv, UiSteps, Invalidate, Arm, Store, Save, Restore, Remove,
           Disarm, Revoke, Purge, Unmark, Goes, Ends
  <2> SUFFICES ASSUME alone, ~conf.blind, report' = "deleted" PROVE DeletionIsComplete'
    BY <2>1 DEF DeletionIsComplete
  <2>2. /\ UNCHANGED <<secret, marked, overlay, cache>> /\ Purged /\ config' = updated
    BY <2>1 DEF Save, Goes, Ends, Purged, RequestInv
  <2>3. updated[op.provider].target = NoTarget
    BY <2>1 DEF ListInv, RequestInv
  <2> QED
    BY <2>1, <2>2, <2>3 DEF DeletionIsComplete, DeleteInv, Configured, Quarantined
<1>3. CASE RefreshSteps
  <2>1. UNCHANGED <<conf, secret, marked, overlay, op, report>>
    BY <1>3, RefreshKeeps
  <2> SUFFICES ASSUME alone', ~conf.blind, report = "deleted" PROVE DeletionIsComplete'
    BY <2>1 DEF DeletionIsComplete
  <2>2. alone /\ op.provider \in Providers /\ cache \in [Providers -> MaybeTarget]
    BY <1>3, RefreshTargets DEF TypeOK, RequestInv, Requests
  <2>3. config'[op.provider].target = config[op.provider].target
    BY <1>3, <2>2, RefreshTargets
  <2>4. cache'[op.provider] = cache[op.provider]
    BY <1>3, <2>2
       DEF DeleteInv, RefreshSteps, RefreshStart, RefreshFails, RefreshAnswers, RefreshCaches,
           RefreshLoads, RefreshSaves, Writing
  <2> QED
    BY <2>1, <2>2, <2>3, <2>4 DEF DeletionIsComplete, Configured, Quarantined
<1>4. CASE UNCHANGED vars
  BY <1>4 DEF vars, fileVars, uiVars, DeletionIsComplete, Configured, Quarantined
<1> QED
  BY <1>1, <1>2, <1>3, <1>4 DEF Next

LEMMA TargetWrites ==
  ASSUME TypeOK, RequestInv, RefreshInv, ListInv, [Next]_vars, NEW p \in Providers,
         config'[p].target # config[p].target
  PROVE  ~alone \/ (p = op.provider /\ config'[p].target = op.target)
<1>1. CASE UiRequests \/ Restart \/ UNCHANGED vars
  <2>1. config' = config
    BY <1>1, RequestBegins DEF Begin, Restart, vars, fileVars
  <2> QED
    BY <2>1
<1>2. CASE UiSteps
  <2>1. config' = updated /\ upc = "save"
    BY <1>2 DEF UiSteps, Invalidate, Arm, Store, Save, Restore, Remove, Disarm, Revoke,
                Purge, Unmark
  <2> QED
    BY <2>1 DEF ListInv
<1>3. CASE RefreshSteps
  BY <1>3, RefreshTargets
<1> QED
  BY <1>1, <1>2, <1>3 DEF Next

-----------------------------------------------------------------------------
(* The inductive invariant, and what follows from it.                      *)

LEMMA IInvInit == Init => IInv
<1> SUFFICES ASSUME Init PROVE IInv
  OBVIOUS
<1>1. TypeOK /\ RequestInv /\ KeyInv
  BY InitType, KeyInit
<1>2. MarkInv /\ RefreshInv /\ ListInv /\ GateInv
  BY DEF Init, MarkInv, RefreshInv, ListInv, GateInv
<1>3. RequestKeepsPair /\ ReportIsTrue /\ DeleteInv /\ DeletionIsComplete
  BY DEF Init, RequestKeepsPair, ReportIsTrue, DeleteInv, Purged, DeletionIsComplete
<1> QED
  BY <1>1, <1>2, <1>3 DEF IInv

LEMMA IInvNext == IInv /\ [Next]_vars => IInv'
BY NextType, MarkStep, KeyStep, RefreshStep, ListStep, GateStep, PairStep, ReportStep,
   DeleteStep, CompleteStep DEF IInv

LEMMA Invariance == Spec => []IInv
BY IInvInit, IInvNext, PTL DEF Spec

(* A request that began with a key and a target that belong together ends  *)
(* so, or with the provider blocked.                                       *)
THEOREM PairsAreKept == Spec => []RequestKeepsPair
<1>1. IInv => RequestKeepsPair
  BY DEF IInv
<1> QED
  BY <1>1, Invariance, PTL

(* What a request reports is what the files hold.                          *)
THEOREM ReportsAreTrue == Spec => []ReportIsTrue
<1>1. IInv => ReportIsTrue
  BY DEF IInv
<1> QED
  BY <1>1, Invariance, PTL

(* A delete that reports success leaves nothing of the provider.           *)
THEOREM DeletionsAreComplete == Spec => []DeletionIsComplete
<1>1. IInv => DeletionIsComplete
  BY DEF IInv
<1> QED
  BY <1>1, Invariance, PTL

(* A target changes only as the request for its provider asked.            *)
THEOREM TargetsAreRequested == Spec => TargetsFollowRequests
<1>1. IInv /\ [Next]_vars =>
        [\A p \in Providers :
           config'[p].target # config[p].target =>
             ~alone \/ (p = op.provider /\ config'[p].target = op.target)]_vars
  BY TargetWrites DEF IInv
<1> QED
  BY <1>1, Invariance, PTL DEF Spec, TargetsFollowRequests
=============================================================================
