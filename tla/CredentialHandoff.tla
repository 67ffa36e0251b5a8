-------------------------- MODULE CredentialHandoff --------------------------
(***************************************************************************)
(* How a session comes by its key (application/credential_vault.py with    *)
(* session_runtime.py, model_gateway_resolution.py and                     *)
(* model_gateway_transport.py; configured_source.py for the sessions that  *)
(* fix nothing at their launch).                                           *)
(*                                                                         *)
(* The user interface forwards the key it holds to the worker it spawns.   *)
(* The worker reads the registry's files while the user may edit them: it  *)
(* resolves the model, fixes the credential authority and pins a lease     *)
(* under a ticket, and later builds the command of the transport and       *)
(* redeems the ticket for the environment of that command.  Nothing locks  *)
(* the files, so every reading is a step of its own; only the three that   *)
(* make up readiness() are taken together.                                 *)
(*                                                                         *)
(* The identity of a provider configuration (provider_runtime_identity) is *)
(* its target.  A key may be saved, forwarded, or not needed ("none");     *)
(* ambient variables, the CLI's store and CLI routes are left out.         *)
(***************************************************************************)
EXTENDS ProviderRegistry

CONSTANT Served   \* the provider of the session

ASSUME ServedAssumption == Served \in Providers

VARIABLES
  at,        \* what the worker does next
  phase,     \* "launch", then "pinned" or "fresh": is the session's key fixed?
  channel,   \* the variables the worker was spawned with: key and authority
  model,     \* provider_runtime_identity of the ModelBinding
  printed,   \* the ModelBinding holds a config_fingerprint
  seen,      \* the configuration session_authority has loaded
  binding,   \* the CredentialBinding: source_kind and provider_authority
  lease,     \* the key retained under the session's ticket
  command,   \* the target of live_config, the command of the child
  key,       \* the key in the environment of the child
  undisturbed \* (history) the registry rested, with a key that belonged to its
             \* target, while the lease was authorized and read

sessionVars == <<at, phase, channel, model, printed, seen, binding, lease, command, key,
                 undisturbed>>
allVars     == <<vars, sessionVars>>

NoChannel == [key |-> NoTarget, authority |-> NoTarget]
NoBinding == [source |-> "absent", authority |-> NoTarget]

Target  == config[Served].target
Blocked == Served \in marked

(* What the ladder of credential_source_for finds.                         *)
Sources ==
  {IF k # NoTarget THEN "saved" ELSE IF channel.key # NoTarget THEN "forwarded" ELSE "absent" :
     k \in Reads(Served)}

(* CredentialVault.readiness.                                              *)
Readiness ==
  IF ~Configured(Served) \/ Blocked THEN {"absent"}
  ELSE IF Target \in NoAuth THEN {"none"} ELSE Sources

(* What the files hold lets no key be used with a target it was not typed  *)
(* in for.                                                                 *)
PairHolds == Blocked \/ Target \in NoAuth \/ Paired(Served)

(* Every step of the worker: it writes nothing that is shared.             *)
Works == UNCHANGED <<vars, channel>>
Rests == Works /\ UNCHANGED undisturbed

-----------------------------------------------------------------------------
(* The user interface spawns a worker for a Local Project session ("model")*)
(* or a configured one ("command") with what                               *)
(* provider_session_credential_environment yields.                         *)
Starts(first) ==
  /\ at = "none" /\ upc = "idle"
  /\ at' = first
  /\ phase' = IF first = "model" THEN "launch" ELSE "fresh"
  /\ \E k \in Reads(Served) :
       channel' = IF Quarantined(Served) \/ ~Configured(Served) \/ k = NoTarget
                  THEN NoChannel ELSE [key |-> k, authority |-> Target]
  /\ UNCHANGED <<vars, model, printed, seen, binding, lease, command, key, undisturbed>>

(* resolve_binding: the identity of the model; a binding without a         *)
(* fingerprint for a provider that is blocked or has no key; and a live    *)
(* configuration, of the same identity, for any other.                     *)
ResolvesModel ==
  /\ at = "model" /\ Configured(Served)
  /\ at' = "screen" /\ model' = Target
  /\ Rests /\ UNCHANGED <<phase, printed, seen, binding, lease, command, key>>

ScreensModel ==
  /\ at = "screen"
  /\ at' = IF Blocked THEN "authority" ELSE "readiness"
  /\ Rests /\ UNCHANGED <<phase, model, printed, seen, binding, lease, command, key>>

LooksReady ==
  /\ at = "readiness"
  /\ \E s \in Readiness : at' = IF s = "absent" THEN "authority" ELSE "print"
  /\ Rests /\ UNCHANGED <<phase, model, printed, seen, binding, lease, command, key>>

Prints ==
  /\ at = "print" /\ Target = model
  /\ at' = "printScreen" /\ printed' = TRUE
  /\ Rests /\ UNCHANGED <<phase, model, seen, binding, lease, command, key>>

(* session_authority.  The launch goes on without a binding (None) if the  *)
(* provider is blocked or no longer configured.                            *)
Unbound == at' = "transport" /\ phase' = "fresh" /\ binding' = NoBinding

LoadsAuthority ==
  /\ at = "authority"
  /\ at' = "authorityScreen" /\ seen' = Target
  /\ Rests /\ UNCHANGED <<phase, model, printed, binding, lease, command, key>>

(* Mutant: the forwarded key is stamped with the present authority.        *)
IssuedAnywhere(authority) == channel.key # NoTarget

(* The channel's key may serve an authority: the one it was issued under.  *)
IssuedUnder(authority) == channel.key # NoTarget /\ channel.authority = authority

FixesAuthority ==
  /\ at = "authorityScreen"
  /\ \/ (seen = NoTarget \/ Blocked) /\ Unbound
     \/ /\ seen \notin NoAuth \union {NoTarget} /\ ~Blocked /\ IssuedUnder(seen)
        /\ at' = "lease" /\ binding' = [source |-> "forwarded", authority |-> seen]
        /\ UNCHANGED phase
     \/ /\ seen # NoTarget /\ ~Blocked
        /\ seen \in NoAuth \/ channel.key = NoTarget
        /\ at' = "safe" /\ UNCHANGED <<phase, binding>>
  /\ seen' = NoTarget
  /\ Rests /\ UNCHANGED <<model, printed, lease, command, key>>

(* safe_binding: a source, then the configuration it is bound to.          *)
FindsSource ==
  /\ at = "safe"
  /\ \E s \in Readiness :
       \/ s # "absent" /\ at' = "mint" /\ UNCHANGED phase
          /\ binding' = [source |-> s, authority |-> NoTarget]
       \/ s = "absent" /\ phase = "launch" /\ Unbound
  /\ Rests /\ UNCHANGED <<model, printed, seen, lease, command, key>>

Mints ==
  /\ at = "mint"
  /\ \/ /\ Configured(Served)
        /\ binding.source = "forwarded" => IssuedUnder(Target)
        /\ binding' = [binding EXCEPT !.authority = Target]
        /\ IF binding.source = "none" /\ phase = "launch"
           THEN Target = model /\ at' = "transport" /\ phase' = "pinned"
           ELSE at' = "lease" /\ UNCHANGED phase
     \/ /\ ~Configured(Served) \/ (binding.source = "forwarded" /\ ~IssuedUnder(Target))
        /\ phase = "launch" /\ Unbound
  /\ Rests /\ UNCHANGED <<model, printed, seen, lease, command, key>>

(* resolve_lease reads the value of the source of the binding.  The launch *)
(* retains it, if it coheres with the model; otherwise it goes to the child.*)
Resolves ==
  /\ at = "value"
  /\ \E value \in CASE binding.source = "saved"     -> Reads(Served)
                    [] binding.source = "forwarded" -> {channel.key}
                    [] binding.source = "none"      -> {NoTarget} :
       /\ value # NoTarget \/ binding.source = "none"
       /\ \/ /\ phase = "launch" /\ binding.authority = model
             /\ at' = "transport" /\ phase' = "pinned" /\ lease' = value /\ UNCHANGED key
          \/ /\ phase = "fresh"
             /\ at' = "requesting" /\ key' = value /\ UNCHANGED <<phase, lease>>
  /\ Rests /\ UNCHANGED <<model, printed, seen, binding, command>>

(* resolve_provider_live_config builds the command from one configuration. *)
(* Its fingerprint is compared with that of the model, if there is one.    *)
BuildsCommand ==
  /\ at = "command" /\ Configured(Served)
  /\ printed => Target = model
  /\ at' = "commandScreen" /\ command' = Target
  /\ Rests /\ UNCHANGED <<phase, model, printed, seen, binding, lease, key>>

(* _direct_runnable: without a source there is only a command that needs   *)
(* none.                                                                   *)
FindsRunnable ==
  /\ at \in {"printRun", "commandRun"}
  /\ Target \in NoAuth \/ Readiness # {"absent"}
  /\ at' = IF at = "printRun" THEN "authority" ELSE "environment"
  /\ Rests /\ UNCHANGED <<phase, model, printed, seen, binding, lease, command, key>>

(* The identity a comparison expects: that of the model, or of the command *)
(* where no model was resolved; that of the binding when it is authorized. *)
Expected ==
  CASE at = "transport" -> model
    [] at = "environment" -> IF model = NoTarget THEN command ELSE model
    [] at \in {"lease", "authorize", "redeem"} -> binding.authority

(* create_transport, transport_environment, transport_materialization and  *)
(* authorize_binding_for_transport compare the configuration...            *)
Compares ==
  /\ at \in {"transport", "environment", "lease", "authorize", "redeem"}
  /\ Target = Expected
  /\ at' = CASE at = "transport" -> "transportScreen"
             [] at = "environment" -> IF phase = "pinned" THEN "authorize" ELSE "fresh"
             [] at = "lease" -> "leaseScreen"
             [] at = "authorize" -> "authorizeScreen"
             [] at = "redeem" -> "redeemScreen"
  /\ undisturbed' = (IF at = "lease" THEN upc = "idle" /\ PairHolds ELSE undisturbed)
  /\ Works /\ UNCHANGED <<phase, model, printed, seen, binding, lease, command, key>>

(* ...and then ask whether the provider is blocked.                        *)
AfterScreen ==
  [printScreen |-> "printRun", commandScreen |-> "commandRun", leaseScreen |-> "value",
   transportScreen |-> "command", authorizeScreen |-> "redeem"]

Screens ==
  /\ at \in DOMAIN AfterScreen /\ ~Blocked
  /\ at' = AfterScreen[at]
  /\ Rests /\ UNCHANGED <<phase, model, printed, seen, binding, lease, command, key>>

(* redeem_lease takes the ticket's lease; a binding without one needs no key.*)
Redeems ==
  /\ at = "redeemScreen" /\ ~Blocked
  /\ at' = "requesting" /\ key' = lease /\ lease' = NoTarget
  /\ Rests /\ UNCHANGED <<phase, model, printed, seen, binding, command>>

(* Without a binding the environment is made from the files as they are.   *)
LooksFresh ==
  /\ at = "fresh"
  /\ \E s \in Readiness \ {"absent"} : at' = IF s = "none" THEN "requesting" ELSE "safe"
  /\ Rests /\ UNCHANGED <<phase, model, printed, seen, binding, lease, command, key>>

(* provider_direct_api_adapter: the child, one per request, compares its   *)
(* command with the configuration before it sends the key.                 *)
Sends ==
  /\ at \in {"requesting", "sent"} /\ Target = command
  /\ at' = "sent"
  /\ Rests /\ UNCHANGED <<phase, model, printed, seen, binding, lease, command, key>>

(* The session ends: a reading is not what it has to be, anything fails,   *)
(* or the child has run.  What the worker knew is gone with it.            *)
Stops ==
  /\ at # "none"
  /\ at' = "none" /\ phase' = "launch" /\ channel' = NoChannel
  /\ model' = NoTarget /\ printed' = FALSE /\ seen' = NoTarget
  /\ binding' = NoBinding /\ lease' = NoTarget /\ command' = NoTarget /\ key' = NoTarget
  /\ undisturbed' = FALSE
  /\ UNCHANGED vars

-----------------------------------------------------------------------------
SessionSteps ==
  \/ Starts("model") \/ Starts("command") \/ ResolvesModel \/ ScreensModel \/ LooksReady
  \/ Prints \/ LoadsAuthority \/ FixesAuthority \/ FindsSource \/ Mints \/ Resolves
  \/ BuildsCommand \/ FindsRunnable \/ Compares \/ Screens \/ Redeems \/ LooksFresh
  \/ Sends \/ Stops

RegistrySteps ==
  /\ Next
  /\ undisturbed' = (undisturbed /\ at \notin {"leaseScreen", "value"})
  /\ UNCHANGED <<at, phase, channel, model, printed, seen, binding, lease, command, key>>

HandoffInit ==
  /\ Init
  /\ at = "none" /\ phase = "launch" /\ channel = NoChannel
  /\ model = NoTarget /\ printed = FALSE /\ seen = NoTarget
  /\ binding = NoBinding /\ lease = NoTarget /\ command = NoTarget /\ key = NoTarget
  /\ undisturbed = FALSE

HandoffNext == SessionSteps \/ RegistrySteps

HandoffSpec == HandoffInit /\ [][HandoffNext]_allVars

-----------------------------------------------------------------------------
(* Properties.                                                             *)

Steps == {"none", "model", "screen", "readiness", "print", "printRun", "authority",
          "authorityScreen", "safe", "mint", "lease", "value", "transport", "command",
          "commandRun", "environment", "authorize", "redeem", "redeemScreen", "fresh",
          "requesting", "sent"} \union DOMAIN AfterScreen

(* Every variable keeps its type.                                          *)
HandoffTypeOK ==
  /\ TypeOK
  /\ at \in Steps /\ phase \in {"launch", "pinned", "fresh"}
  /\ channel \in [key : MaybeTarget, authority : MaybeTarget]
  /\ binding \in [source : {"absent", "none", "saved", "forwarded"}, authority : MaybeTarget]
  /\ model \in MaybeTarget /\ seen \in MaybeTarget /\ lease \in MaybeTarget
  /\ command \in MaybeTarget /\ key \in MaybeTarget
  /\ printed \in BOOLEAN /\ undisturbed \in BOOLEAN

(* A child sends a key, to a target that asks for one.                     *)
Keyed == at = "sent" /\ key # NoTarget /\ command \notin NoAuth

(* The pinned key was right when it was read: a forwarded one belonged to  *)
(* the authority it was issued under, one from the store to the            *)
(* configuration that the worker compared before it read the key.          *)
KnownKey ==
  IF binding.source = "forwarded" THEN channel.key = channel.authority ELSE undisturbed

(* The key that a launch pinned only meets the command of the target it was*)
(* typed in for, whatever the user saves, deletes or rolls back from the   *)
(* launch on until a child sends it ("the old secret is never stamped with *)
(* (or leaked to) the new authority", session_authority).  It takes that   *)
(* the model was resolved with a fingerprint, and, for a stored key, that  *)
(* no save ran between the authorization and the reading of the key: the   *)
(* configuration is compared, never the value.                             *)
PinnedKeyMeetsEndpoint ==
  Keyed /\ phase = "pinned" /\ printed /\ KnownKey => key = command

(* The same for every session and every edit.                              *)
KeyMeetsEndpoint == Keyed => key = command
=============================================================================
