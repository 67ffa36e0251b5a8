--------------------------- MODULE ProviderRegistry ---------------------------
(***************************************************************************)
(* The provider registry (application/provider_management.py over          *)
(* provider_config.py, provider_credentials.py and provider_catalog.py):   *)
(* one configuration file, one secret per provider in the system's store,  *)
(* one quarantine file and one catalog cache, written one after another.   *)
(* Every write can fail, and the process can end between any two.          *)
(*                                                                         *)
(* Two kinds of threads write: the user-interface thread, which runs one   *)
(* add, update or delete at a time (upc), and a thread per catalog refresh *)
(* (rpc; ui/screens_providers.py).  Nothing locks one out of the other.    *)
(*                                                                         *)
(* A target stands for a base URL with its authentication mode, a key for  *)
(* the target it was typed in for, a catalog for the target that sent it.  *)
(***************************************************************************)
EXTENDS FiniteSets

CONSTANTS
  Providers,   \* provider ids
  Targets,     \* base URL and authentication mode
  NoAuth,      \* the targets whose authentication mode is "none"
  Worlds,      \* the surroundings a behaviour may have: see conf
  NoTarget     \* no key, no catalog, no provider

ASSUME TargetsAssumption == NoAuth \subseteq Targets /\ NoTarget \notin Targets
ASSUME WorldsAssumption ==
  Worlds \subseteq [blind : BOOLEAN, providers : SUBSET Providers,
                    listed : SUBSET Providers, targets : SUBSET Targets]

VARIABLES
  conf,       \* reads of the secret store may fail (blind); the providers and
              \* targets in use; the providers whose catalog mode is not "disabled"
  config,     \* the configuration file: target and catalog of each provider
  secret,     \* the key in the secret store
  marked,     \* the quarantine file
  overlay,    \* _QUARANTINED_PROVIDERS, in memory
  cache,      \* the catalog cache file
  upc,        \* the user-interface thread
  op,         \* its request
  updated,    \* the configurations it is going to save
  previous,   \* previous_credential
  report,     \* how the last request ended
  rpc,        \* the refresh thread of each provider
  asked,      \* the target each refresh sent its request to
  snapshot,   \* the configurations each refresh loaded
  before,     \* (history) target and key of the provider when the request began
  alone       \* (history) no refresh wrote during the request

fileVars    == <<config, secret, marked, cache>>
uiVars      == <<upc, op, updated, previous, report, before>>
refreshVars == <<rpc, asked, snapshot>>
vars == <<conf, fileVars, overlay, uiVars, refreshVars, alone>>

MaybeTarget == Targets \union {NoTarget}
NoConfig    == [target |-> NoTarget, models |-> NoTarget]
NoConfigs   == [p \in Providers |-> NoConfig]
ConfigFile  == [Providers -> [target : MaybeTarget, models : MaybeTarget]]
Requests    == [kind : {"add", "update", "delete"}, provider : Providers,
                target : MaybeTarget, keyed : BOOLEAN]
NoRequest   == [kind |-> "none"]

Configured(p)  == config[p].target # NoTarget
Quarantined(p) == p \in marked \union overlay

(* load_secure_credential: nothing where there is nothing, nor where the   *)
(* read fails.                                                             *)
Reads(p) == IF conf.blind THEN {secret[p], NoTarget} ELSE {secret[p]}

(* credential_source_for and resolve_runtime_credential, for a key read.   *)
UsableKey(p, key) ==
  IF Configured(p) /\ config[p].target \notin NoAuth /\ ~Quarantined(p)
  THEN key ELSE NoTarget

Usable(p) == UsableKey(p, secret[p]) # NoTarget
Paired(p) == secret[p] \in {NoTarget, config[p].target}

UiPcs == {"idle", "invalidate", "arm", "store", "abandon", "save", "restore", "settle",
          "remove", "disarm", "disarmAgain", "revoke", "purge", "unmark"}
Reports == {"none", "crashed", "saved", "unsaved", "unarmed", "notStored", "restored",
            "removed", "stranded", "deleted", "unpurged"}
RefreshPcs == {"idle", "fetching", "caching", "loading", "saving"}
Writing    == {"caching", "loading", "saving"}

-----------------------------------------------------------------------------
(* The user-interface thread: the three requests.                          *)

Begin(request, list, first) ==
  /\ upc = "idle" /\ upc' = first
  /\ op' = request /\ updated' = list
  /\ report' = "none" /\ previous' = NoTarget
  /\ before' = [target |-> config[request.provider].target, key |-> secret[request.provider]]
  /\ alone' = (\A q \in Providers : rpc[q] \notin Writing)
  /\ UNCHANGED <<conf, fileVars, overlay, refreshVars>>

(* commit_provider_and_credential saves the configuration alone for a      *)
(* blank key, and arms the quarantine first for any other.                 *)
CommitStart(keyed) == IF keyed THEN "arm" ELSE "save"

(* Mutant: the list that is saved holds the provider of the request only.  *)
WithNoOther(p, t, models) == [NoConfigs EXCEPT ![p] = [target |-> t, models |-> models]]

With(p, t, models) == [config EXCEPT ![p] = [target |-> t, models |-> models]]

(* add_provider_config, under a generated id or one that is free.          *)
Add(p, t, keyed) ==
  /\ ~Configured(p)
  /\ keyed => t \notin NoAuth
  /\ Begin([kind |-> "add", provider |-> p, target |-> t, keyed |-> keyed],
           With(p, t, NoTarget), CommitStart(keyed))

(* Mutant: no gate.                                                        *)
MayAlwaysMove(p, t, keyed) == TRUE

(* The gate of update_provider_config: a blank key may not move to another *)
(* target while a credential could be selected.                            *)
MayMove(p, t, keyed) ==
  \/ t = config[p].target \/ keyed \/ t \in NoAuth
  \/ \E key \in Reads(p) : UsableKey(p, key) = NoTarget

(* update_provider_config, from the edit dialog (a manual model is one     *)
(* that keeps the target).  Another target drops the models.               *)
Update(p, t, keyed) ==
  /\ Configured(p)
  /\ keyed => t \notin NoAuth
  /\ MayMove(p, t, keyed)
  /\ IF t = config[p].target
     THEN Begin([kind |-> "update", provider |-> p, target |-> t, keyed |-> keyed],
                config, CommitStart(keyed))
     ELSE Begin([kind |-> "update", provider |-> p, target |-> t, keyed |-> keyed],
                With(p, t, NoTarget), "invalidate")

(* delete_provider_config.                                                 *)
Delete(p) ==
  /\ Configured(p)
  /\ Begin([kind |-> "delete", provider |-> p, target |-> NoTarget, keyed |-> FALSE],
           With(p, NoTarget, NoTarget), "revoke")

-----------------------------------------------------------------------------
(* The user-interface thread: the steps of a request.                      *)

(* A step goes on to another, or the function returns or raises and its    *)
(* local variables with it.                                                *)
Goes(to)  == upc' = to /\ UNCHANGED <<report, updated, previous>>
Ends(how) == upc' = "idle" /\ report' = how /\ updated' = NoConfigs /\ previous' = NoTarget

(* What every step of a request leaves alone.                              *)
StepFrame == UNCHANGED <<conf, op, before, alone, refreshVars>>

(* delete_cached_catalog: a failure is ignored.                            *)
Invalidate ==
  /\ upc = "invalidate"
  /\ Goes(CommitStart(op.keyed))
  /\ cache' \in {cache, [cache EXCEPT ![op.provider] = NoTarget]}
  /\ StepFrame /\ UNCHANGED <<config, secret, marked, overlay>>

(* quarantine_provider: the file first, then the overlay.                  *)
Armed ==
  /\ marked' = marked \union overlay \union {op.provider}
  /\ overlay' = overlay \union marked'

Arm ==
  /\ upc = "arm"
  /\ \/ Goes("store") /\ Armed
     \/ Ends("unarmed") /\ UNCHANGED <<marked, overlay>>
  /\ StepFrame /\ UNCHANGED <<config, secret, cache>>

(* load_secure_credential, then save_secure_credential.                    *)
Store ==
  /\ upc = "store"
  /\ previous' \in Reads(op.provider)
  /\ \/ upc' = "save" /\ secret' = [secret EXCEPT ![op.provider] = op.target]
     \/ upc' = "abandon" /\ UNCHANGED secret
  /\ StepFrame /\ UNCHANGED <<config, marked, overlay, cache, updated, report>>

(* save_provider_configurations.  A delete ends with it; so does a save    *)
(* with a blank key.                                                       *)
Save ==
  /\ upc = "save"
  /\ \/ /\ config' = updated
        /\ \/ op.keyed /\ Goes("disarm")
           \/ op.kind = "delete" /\ Ends("deleted")
           \/ ~op.keyed /\ op.kind # "delete" /\ Ends("saved")
     \/ /\ UNCHANGED config
        /\ \/ ~op.keyed /\ Ends("unsaved")
           \/ op.keyed /\ previous # NoTarget /\ Goes("restore")
           \/ op.keyed /\ previous = NoTarget /\ Goes("remove")
  /\ StepFrame /\ UNCHANGED <<secret, marked, overlay, cache>>

(* Mutant: whether the previous key was put back is not looked at.         *)
RestoreUnchecked ==
  /\ upc = "restore"
  /\ Goes("settle")
  /\ secret' \in {secret, [secret EXCEPT ![op.provider] = previous]}
  /\ StepFrame /\ UNCHANGED <<config, marked, overlay, cache>>

(* The configuration was not written: the previous key is put back, or     *)
(* else the new one is deleted, or else both stay under quarantine.        *)
Restore ==
  /\ upc = "restore"
  /\ \/ Goes("settle") /\ secret' = [secret EXCEPT ![op.provider] = previous]
     \/ Goes("remove") /\ UNCHANGED secret
  /\ StepFrame /\ UNCHANGED <<config, marked, overlay, cache>>

Remove ==
  /\ upc = "remove"
  /\ \/ Ends("removed") /\ secret' = [secret EXCEPT ![op.provider] = NoTarget]
     \/ Ends("stranded") /\ UNCHANGED secret
  /\ StepFrame /\ UNCHANGED <<config, marked, overlay, cache>>

(* clear_provider_quarantine: the file first, then the overlay.            *)
Cleared ==
  /\ marked' = marked \ {op.provider}
  /\ overlay' = overlay \ {op.provider}

(* Where its failure is ignored: after a key that was not stored, after a  *)
(* restored one, and twice (commit, then add or update) after a save.      *)
Disarm ==
  /\ \/ upc = "abandon" /\ Ends("notStored")
     \/ upc = "settle" /\ Ends("restored")
     \/ upc = "disarm" /\ Goes("disarmAgain")
     \/ upc = "disarmAgain" /\ Ends("saved")
  /\ Cleared \/ UNCHANGED <<marked, overlay>>
  /\ StepFrame /\ UNCHANGED <<config, secret, cache>>

(* _purge_provider_state_strict: the key, the catalog, the quarantine.  A  *)
(* failure ends the delete.                                                *)
Revoke ==
  /\ upc = "revoke"
  /\ \/ /\ \E key \in Reads(op.provider) : key = NoTarget
        /\ Goes("purge") /\ UNCHANGED secret
     \/ /\ secret[op.provider] # NoTarget
        /\ \/ Goes("purge") /\ secret' = [secret EXCEPT ![op.provider] = NoTarget]
           \/ Ends("unpurged") /\ UNCHANGED secret
  /\ StepFrame /\ UNCHANGED <<config, marked, overlay, cache>>

(* Mutant: the catalog is purged as by an update, ignoring a failure.      *)
PurgeIfPossible ==
  /\ upc = "purge"
  /\ Goes("unmark") /\ cache' \in {cache, [cache EXCEPT ![op.provider] = NoTarget]}
  /\ StepFrame /\ UNCHANGED <<config, secret, marked, overlay>>

Purge ==
  /\ upc = "purge"
  /\ \/ Goes("unmark") /\ cache' = [cache EXCEPT ![op.provider] = NoTarget]
     \/ Ends("unpurged") /\ UNCHANGED cache
  /\ StepFrame /\ UNCHANGED <<config, secret, marked, overlay>>

Unmark ==
  /\ upc = "unmark"
  /\ \/ Goes("save") /\ Cleared
     \/ Ends("unpurged") /\ UNCHANGED <<marked, overlay>>
  /\ StepFrame /\ UNCHANGED <<config, secret, cache>>

-----------------------------------------------------------------------------
(* A refresh of a catalog: refresh_provider_catalog in a thread of its own.*)

RefreshFrame == UNCHANGED <<conf, secret, marked, overlay, uiVars>>

(* Asked for from the user interface, and begun whenever the thread runs:  *)
(* the provider can be used, and a request goes to its target.             *)
RefreshStart(p) ==
  /\ rpc[p] = "idle" /\ p \in conf.listed
  /\ Configured(p) /\ ~Quarantined(p)
  /\ config[p].target \in NoAuth \/ Usable(p)
  /\ rpc' = [rpc EXCEPT ![p] = "fetching"]
  /\ asked' = [asked EXCEPT ![p] = config[p].target]
  /\ RefreshFrame /\ UNCHANGED <<config, cache, snapshot, alone>>

RefreshOver(p) ==
  /\ rpc' = [rpc EXCEPT ![p] = "idle"]
  /\ asked' = [asked EXCEPT ![p] = NoTarget]
  /\ snapshot' = [snapshot EXCEPT ![p] = NoConfigs]

(* The request or a write failed, or the provider is not configured.       *)
RefreshFails(p) ==
  /\ rpc[p] # "idle"
  /\ RefreshOver(p)
  /\ RefreshFrame /\ UNCHANGED <<config, cache, alone>>

(* The answer came, and save_cached_catalog knows the provider.            *)
RefreshAnswers(p) ==
  /\ rpc[p] = "fetching" /\ Configured(p)
  /\ rpc' = [rpc EXCEPT ![p] = "caching"]
  /\ alone' = (alone /\ upc = "idle")
  /\ RefreshFrame /\ UNCHANGED <<config, cache, asked, snapshot>>

RefreshCaches(p) ==
  /\ rpc[p] = "caching"
  /\ rpc' = [rpc EXCEPT ![p] = "loading"]
  /\ cache' = [cache EXCEPT ![p] = asked[p]]
  /\ RefreshFrame /\ UNCHANGED <<config, asked, snapshot, alone>>

(* update_provider_config(models = ...): loads every configuration and     *)
(* saves them with the models of this one replaced.                        *)
RefreshLoads(p) ==
  /\ rpc[p] = "loading" /\ Configured(p)
  /\ rpc' = [rpc EXCEPT ![p] = "saving"]
  /\ snapshot' = [snapshot EXCEPT ![p] = config]
  /\ RefreshFrame /\ UNCHANGED <<config, cache, asked, alone>>

RefreshSaves(p) ==
  /\ rpc[p] = "saving"
  /\ config' = [snapshot[p] EXCEPT ![p] = [target |-> snapshot[p][p].target, models |-> asked[p]]]
  /\ RefreshOver(p)
  /\ RefreshFrame /\ UNCHANGED <<cache, alone>>

-----------------------------------------------------------------------------
(* The process ends, and another starts with the files as they are.        *)
Restart ==
  /\ upc # "idle" \/ overlay # {} \/ \E p \in Providers : rpc[p] # "idle"
  /\ overlay' = {}
  /\ Ends("crashed")
  /\ rpc' = [p \in Providers |-> "idle"]
  /\ asked' = [p \in Providers |-> NoTarget]
  /\ snapshot' = [p \in Providers |-> NoConfigs]
  /\ UNCHANGED <<conf, fileVars, op, before, alone>>

Init ==
  /\ conf \in Worlds
  /\ config = NoConfigs
  /\ secret = [p \in Providers |-> NoTarget]
  /\ marked = {} /\ overlay = {}
  /\ cache = [p \in Providers |-> NoTarget]
  /\ upc = "idle" /\ op = NoRequest /\ updated = NoConfigs
  /\ previous = NoTarget /\ report = "none"
  /\ rpc = [p \in Providers |-> "idle"]
  /\ asked = [p \in Providers |-> NoTarget]
  /\ snapshot = [p \in Providers |-> NoConfigs]
  /\ before = [target |-> NoTarget, key |-> NoTarget]
  /\ alone = TRUE

UiRequests ==
  \E p \in conf.providers :
    \/ \E t \in conf.targets, keyed \in BOOLEAN : Add(p, t, keyed) \/ Update(p, t, keyed)
    \/ Delete(p)

UiSteps ==
  \/ Invalidate \/ Arm \/ Store \/ Save \/ Restore \/ Remove \/ Disarm
  \/ Revoke \/ Purge \/ Unmark

RefreshSteps ==
  \E p \in Providers :
    \/ RefreshStart(p) \/ RefreshFails(p) \/ RefreshAnswers(p)
    \/ RefreshCaches(p) \/ RefreshLoads(p) \/ RefreshSaves(p)

Next == UiRequests \/ UiSteps \/ RefreshSteps \/ Restart

Spec == Init /\ [][Next]_vars

-----------------------------------------------------------------------------
(* Properties.                                                             *)

(* Every variable keeps its type.                                          *)
TypeOK ==
  /\ conf \in Worlds
  /\ config \in ConfigFile
  /\ secret \in [Providers -> MaybeTarget]
  /\ marked \subseteq Providers /\ overlay \subseteq Providers
  /\ cache \in [Providers -> MaybeTarget]
  /\ upc \in UiPcs
  /\ op \in Requests \union {NoRequest}
  /\ updated \in ConfigFile
  /\ previous \in MaybeTarget
  /\ report \in Reports
  /\ rpc \in [Providers -> RefreshPcs]
  /\ asked \in [Providers -> MaybeTarget]
  /\ snapshot \in [Providers -> ConfigFile]
  /\ before \in [target : MaybeTarget, key : MaybeTarget]
  /\ alone \in BOOLEAN

(* No key is written to the secret store unless its provider is in the     *)
(* quarantine file, so that a process that ends at any later point leaves  *)
(* a provider that is blocked after the restart ("NO credential mutation   *)
(* may begin", commit_provider_and_credential).                            *)
ArmedBeforeStored ==
  [][\A p \in Providers :
       secret'[p] # secret[p] => secret'[p] = NoTarget \/ p \in marked]_vars

(* The pair of the provider that the last request was about matched when   *)
(* the request began.                                                      *)
BeganPaired == before.key \in {NoTarget, before.target}

(* A request that began with a key and a target that belong together       *)
(* leaves them so, or leaves the provider unusable, whichever write fails  *)
(* and wherever the process ends: no key is used with a target it was not  *)
(* typed in for.  It takes that no refresh wrote at the same time, and, if *)
(* reads of the store fail, that the request carries a key: the gate of a  *)
(* blank one cannot see the key it guards.                                 *)
RequestKeepsPair ==
  op # NoRequest /\ alone /\ (conf.blind => op.keyed) /\ BeganPaired
    => Paired(op.provider) \/ ~Usable(op.provider)

(* The same for every provider and every history: a key can only be used   *)
(* with the target it was typed in for.                                    *)
UsedAsTyped == \A p \in Providers : Usable(p) => Paired(p)

(* "A blank key must never silently carry an implicitly endpoint-tied      *)
(* credential to the newly requested endpoint" (update_provider_config).   *)
BlankKeyCarriesNothing ==
  [][\A p \in Providers :
       upc = "save" /\ op.kind = "update" /\ ~op.keyed /\ config'[p].target # config[p].target
         => (Paired(p) \/ ~Usable(p))']_vars

Unchanged ==
  config[op.provider].target = before.target /\ secret[op.provider] = before.key

(* What the request reported is what the files hold: a save has both, "no  *)
(* provider changes were applied" and "restored" have neither, "removed"   *)
(* has no key left, and what could not be rolled back is blocked.          *)
ReportIsTrue ==
  alone =>
    /\ report = "saved" => /\ config[op.provider].target = op.target
                           /\ op.keyed => secret[op.provider] = op.target
    /\ report \in {"unarmed", "notStored", "restored"} => Unchanged
    /\ report \in {"removed", "stranded", "unsaved", "unpurged"} =>
         config[op.provider].target = before.target
    /\ report = "removed" => secret[op.provider] = NoTarget
    /\ report = "stranded" => Quarantined(op.provider)

(* A delete that reports success leaves nothing of the provider (the       *)
(* invariant of delete_provider_config), given that reads do not fail.     *)
DeletionIsComplete ==
  report = "deleted" /\ alone /\ ~conf.blind =>
    /\ ~Configured(op.provider) /\ ~Quarantined(op.provider)
    /\ secret[op.provider] = NoTarget /\ cache[op.provider] = NoTarget

(* A target changes only to what a request asked for that provider, though *)
(* every save writes the whole list back: no other provider is touched,    *)
(* and a refresh puts no old target back, unless one overlapped a request. *)
TargetsFollowRequests ==
  [][\A p \in Providers :
       config'[p].target # config[p].target =>
         ~alone \/ (p = op.provider /\ config'[p].target = op.target)]_vars

(* The models listed for a provider come from its target ("the old catalog *)
(* cache belongs to the previous endpoint and is invalidated").            *)
ModelsFollowTarget ==
  \A p \in Providers : config[p].models \in {NoTarget, config[p].target}
=============================================================================
