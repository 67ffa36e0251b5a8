----------------------- MODULE CredentialHandoffProofs -----------------------
(***************************************************************************)
(* What holds of the credential handoff for every set of providers,        *)
(* targets and surroundings.                                               *)
(***************************************************************************)
EXTENDS CredentialHandoff, ProviderRegistryProofs

Authorizing == {"lease", "leaseScreen", "value"}

LaunchSteps == {"none", "model", "screen", "readiness", "print", "printScreen", "printRun",
                "authority", "authorityScreen", "safe", "mint"} \union Authorizing

CommandSteps == {"commandScreen", "commandRun", "environment", "authorize", "authorizeScreen",
                 "redeem", "redeemScreen", "requesting", "sent"}

(* Where a session with a pinned key, or with none yet, can be.            *)
PhaseInv ==
  /\ phase = "launch" => at \in LaunchSteps /\ lease = NoTarget /\ key = NoTarget
  /\ phase = "pinned" => at \in {"transport", "transportScreen", "command"} \union CommandSteps
  /\ at = "none" => phase = "launch"

(* The binding names the source that was found; a forwarded key is bound   *)
(* to the authority it was issued under, a pinned one to that of the model.*)
BindingInv ==
  /\ at \in {"mint"} \union Authorizing => binding.source # "absent"
  /\ (at \in Authorizing \/ phase = "pinned") /\ binding.source = "forwarded" =>
       channel.authority = binding.authority
  /\ phase = "pinned" => binding.authority = model

(* While the lease of a resting registry is resolved, the files are as they*)
(* were authorized.                                                        *)
RestInv ==
  undisturbed =>
    /\ at \in {"leaseScreen", "value"} => Target = binding.authority /\ PairHolds
    /\ at = "value" => ~Blocked

(* The value of a pinned key is the channel's, or belongs to the model.    *)
Belongs(k) ==
  \/ k = NoTarget
  \/ binding.source = "forwarded" /\ k = channel.key
  \/ binding.source # "forwarded" /\ (undisturbed => k = model \/ model \in NoAuth)

LeaseInv == phase = "pinned" => Belongs(lease) /\ Belongs(key)

(* A command that was compared with the fingerprint of the model is for    *)
(* its target.                                                             *)
CommandInv == phase = "pinned" /\ printed /\ at \in CommandSteps => command = model

HInv == RequestInv /\ HandoffTypeOK /\ PhaseInv /\ BindingInv /\ RestInv /\ LeaseInv /\ CommandInv

-----------------------------------------------------------------------------
LEMMA HInvInit == HandoffInit => HInv
<1> SUFFICES ASSUME HandoffInit PROVE HInv
  OBVIOUS
<1>1. TypeOK /\ RequestInv
  BY InitType DEF HandoffInit
<1>2. HandoffTypeOK
  BY <1>1 DEF HandoffInit, HandoffTypeOK, Steps, NoChannel, NoBinding, MaybeTarget
<1> QED
  BY <1>1, <1>2
  DEF HandoffInit, HInv, PhaseInv, BindingInv, RestInv, LeaseInv, CommandInv, LaunchSteps,
      Authorizing, CommandSteps

(* A step of the registry leaves the session alone, and ends the rest.     *)
LEMMA RegistryKeeps ==
  ASSUME HInv, RegistrySteps
  PROVE  HInv'
<1>1. (TypeOK /\ RequestInv)'
  BY NextType DEF HInv, HandoffTypeOK, RegistrySteps
<1>2. HandoffTypeOK'
  BY <1>1 DEF HInv, HandoffTypeOK, RegistrySteps
<1>3. RestInv'
  BY DEF HInv, RestInv, RegistrySteps
<1> QED
  BY <1>1, <1>2, <1>3
  DEF HInv, PhaseInv, BindingInv, LeaseInv, Belongs, CommandInv, RegistrySteps, HandoffTypeOK

(* The files keep their types while the worker reads them.                 *)
LEMMA FilesType ==
  ASSUME TypeOK
  PROVE  /\ Target \in MaybeTarget
         /\ \A k \in Reads(Served) : k \in MaybeTarget
         /\ \A k \in Reads(Served) : k # NoTarget => k = secret[Served]
         /\ Readiness \subseteq {"absent", "none", "saved", "forwarded"}
BY ServedAssumption
DEF TypeOK, Target, ConfigFile, Reads, Readiness, Sources, MaybeTarget

(* A step of the worker leaves the registry as it is.                      *)
LEMMA WorkKeeps ==
  ASSUME TypeOK, RequestInv, UNCHANGED vars
  PROVE  TypeOK' /\ RequestInv'
BY NextType

(* Two of the conjuncts are about pinned keys only.                        *)
LEMMA UnpinnedKeeps ==
  ASSUME phase' # "pinned"
  PROVE  LeaseInv' /\ CommandInv'
BY DEF LeaseInv, CommandInv

-----------------------------------------------------------------------------
(* The launch: until a key is pinned there is none.                        *)

LEMMA StartsKeeps ==
  ASSUME HInv, NEW first \in {"model", "command"}, Starts(first)
  PROVE  HInv'
<1>1. TypeOK' /\ RequestInv'
  BY WorkKeeps DEF HInv, HandoffTypeOK, Starts
<1>2. HandoffTypeOK'
  BY <1>1, FilesType DEF HInv, HandoffTypeOK, Starts, NoChannel, Steps, MaybeTarget
<1>3. phase' # "pinned"
  BY DEF Starts
<1>4. PhaseInv' /\ BindingInv' /\ RestInv'
  BY <1>3
  DEF HInv, PhaseInv, BindingInv, RestInv, Starts, LaunchSteps, Authorizing
<1> QED
  BY <1>1, <1>2, <1>3, <1>4, UnpinnedKeeps DEF HInv

(* The steps that look at the files and only decide how the launch goes on.*)
LEMMA LooksKeep ==
  ASSUME HInv, ResolvesModel \/ ScreensModel \/ LooksReady \/ Prints \/ LoadsAuthority
  PROVE  HInv'
<1> DEFINE Looking == LaunchSteps \ (Authorizing \union {"none", "mint"})
<1>1. /\ UNCHANGED <<vars, channel, phase, binding, lease, command, key, undisturbed>>
      /\ at \in Looking /\ at' \in Looking
      /\ model' \in MaybeTarget /\ printed' \in BOOLEAN /\ seen' \in MaybeTarget
  BY FilesType
  DEF HInv, HandoffTypeOK, ResolvesModel, ScreensModel, LooksReady, Prints, LoadsAuthority,
      Rests, Works, LaunchSteps, Authorizing
<1>2. TypeOK' /\ RequestInv'
  BY <1>1, WorkKeeps DEF HInv, HandoffTypeOK
<1>3. HandoffTypeOK'
  BY <1>1, <1>2 DEF HInv, HandoffTypeOK, Steps, AfterScreen, LaunchSteps, Authorizing
<1>4. phase' # "pinned"
  BY <1>1 DEF HInv, PhaseInv, LaunchSteps, Authorizing, CommandSteps
<1>5. PhaseInv' /\ BindingInv' /\ RestInv'
  BY <1>1, <1>4 DEF HInv, PhaseInv, BindingInv, RestInv, LaunchSteps, Authorizing
<1> QED
  BY <1>2, <1>3, <1>4, <1>5, UnpinnedKeeps DEF HInv

LEMMA FixesAuthorityKeeps ==
  ASSUME HInv, FixesAuthority
  PROVE  HInv'
<1>1. TypeOK' /\ RequestInv'
  BY WorkKeeps DEF HInv, HandoffTypeOK, FixesAuthority, Rests, Works
<1>2. HandoffTypeOK'
  BY <1>1
  DEF HInv, HandoffTypeOK, FixesAuthority, Rests, Works, Unbound, NoBinding, Steps, MaybeTarget
<1>3. phase' # "pinned"
  BY DEF HInv, PhaseInv, FixesAuthority, Unbound, CommandSteps
<1>4. PhaseInv' /\ BindingInv' /\ RestInv'
  BY <1>3
  DEF HInv, PhaseInv, BindingInv, RestInv, FixesAuthority, Rests, Works, Unbound, IssuedUnder,
      LaunchSteps, Authorizing
<1> QED
  BY <1>1, <1>2, <1>3, <1>4, UnpinnedKeeps DEF HInv

LEMMA FindsSourceKeeps ==
  ASSUME HInv, FindsSource
  PROVE  HInv'
<1>1. TypeOK' /\ RequestInv'
  BY WorkKeeps DEF HInv, HandoffTypeOK, FindsSource, Rests, Works
<1>2. HandoffTypeOK'
  BY <1>1, FilesType
  DEF HInv, HandoffTypeOK, FindsSource, Rests, Works, Unbound, NoBinding, Steps, MaybeTarget
<1>3. phase' # "pinned"
  BY DEF HInv, PhaseInv, FindsSource, Unbound, CommandSteps
<1>4. PhaseInv' /\ BindingInv' /\ RestInv'
  BY <1>3
  DEF HInv, PhaseInv, BindingInv, RestInv, FindsSource, Rests, Works, Unbound, LaunchSteps,
      Authorizing
<1> QED
  BY <1>1, <1>2, <1>3, <1>4, UnpinnedKeeps DEF HInv

(* A binding of a provider that needs no key is pinned without a lease.    *)
LEMMA MintsKeeps ==
  ASSUME HInv, Mints
  PROVE  HInv'
<1>1. TypeOK' /\ RequestInv'
  BY WorkKeeps DEF HInv, HandoffTypeOK, Mints, Rests, Works
<1>2. HandoffTypeOK'
  BY <1>1, FilesType
  DEF HInv, HandoffTypeOK, Mints, Rests, Works, Unbound, NoBinding, Steps, MaybeTarget
<1>3. PhaseInv'
  BY DEF HInv, PhaseInv, Mints, Rests, Works, Unbound, LaunchSteps, Authorizing, CommandSteps
<1>4. BindingInv'
  BY DEF HInv, HandoffTypeOK, PhaseInv, BindingInv, Mints, Rests, Works, Unbound, IssuedUnder,
         Authorizing, CommandSteps
<1>5. RestInv'
  BY DEF RestInv, Mints, Unbound
<1>6. LeaseInv'
  BY DEF HInv, PhaseInv, LeaseInv, Belongs, Mints, Rests, Unbound, CommandSteps
<1>7. CommandInv'
  BY DEF HInv, PhaseInv, CommandInv, Mints, Unbound, CommandSteps
<1> QED
  BY <1>1, <1>2, <1>3, <1>4, <1>5, <1>6, <1>7 DEF HInv

(* The lease is read: the one step that pins a key.                        *)
LEMMA ResolvesKeeps ==
  ASSUME HInv, Resolves
  PROVE  HInv'
<1>1. PICK value \in CASE binding.source = "saved"     -> Reads(Served)
                       [] binding.source = "forwarded" -> {channel.key}
                       [] binding.source = "none"      -> {NoTarget} :
        /\ value # NoTarget \/ binding.source = "none"
        /\ \/ /\ phase = "launch" /\ binding.authority = model
              /\ at' = "transport" /\ phase' = "pinned" /\ lease' = value /\ UNCHANGED key
           \/ /\ phase = "fresh"
              /\ at' = "requesting" /\ key' = value /\ UNCHANGED <<phase, lease>>
  BY DEF Resolves
<1>2. at = "value" /\ Rests /\ UNCHANGED <<model, printed, seen, binding, command>>
  BY DEF Resolves
<1>3. binding.source \in {"none", "saved", "forwarded"}
  BY <1>2 DEF HInv, HandoffTypeOK, BindingInv, Authorizing
<1>4. /\ value \in MaybeTarget
      /\ binding.source = "saved" /\ value # NoTarget => value = secret[Served]
      /\ binding.source = "forwarded" => value = channel.key
      /\ binding.source = "none" => value = NoTarget
  BY <1>1, <1>3, FilesType DEF HInv, HandoffTypeOK, MaybeTarget
<1>5. TypeOK' /\ RequestInv'
  BY <1>2, WorkKeeps DEF HInv, HandoffTypeOK, Rests, Works
<1>6. HandoffTypeOK'
  BY <1>1, <1>2, <1>4, <1>5 DEF HInv, HandoffTypeOK, Rests, Works, Steps
<1>7. PhaseInv'
  BY <1>1, <1>2 DEF HInv, PhaseInv
<1>8. BindingInv'
  BY <1>1, <1>2 DEF HInv, BindingInv, Rests, Works, Authorizing
<1>9. RestInv'
  BY <1>1 DEF RestInv
<1>10. CASE phase = "launch"
  <2>1. binding.authority = model /\ lease' = value /\ key' = NoTarget
    BY <1>1, <1>10 DEF HInv, PhaseInv
  <2>2. undisturbed /\ binding.source = "saved" => value = model \/ model \in NoAuth
    BY <1>1, <1>2, <1>4, <2>1 DEF HInv, RestInv, PairHolds, Paired, Target, Blocked
  <2>3. Belongs(value) /\ Belongs(NoTarget)
    BY <1>3, <1>4, <2>2 DEF Belongs
  <2>4. LeaseInv'
    BY <1>2, <2>1, <2>3 DEF LeaseInv, Belongs, Rests, Works
  <2>5. CommandInv'
    BY <1>1, <1>10 DEF CommandInv, CommandSteps
  <2> QED
    BY <1>5, <1>6, <1>7, <1>8, <1>9, <2>4, <2>5 DEF HInv
<1>11. CASE phase # "launch"
  BY <1>1, <1>5, <1>6, <1>7, <1>8, <1>9, <1>11, UnpinnedKeeps DEF HInv
<1> QED
  BY <1>10, <1>11

-----------------------------------------------------------------------------
(* The command, its environment, and the child.                            *)

LEMMA BuildsCommandKeeps ==
  ASSUME HInv, BuildsCommand
  PROVE  HInv'
<1>1. TypeOK' /\ RequestInv'
  BY WorkKeeps DEF HInv, HandoffTypeOK, BuildsCommand, Rests, Works
<1>2. HandoffTypeOK'
  BY <1>1, FilesType DEF HInv, HandoffTypeOK, BuildsCommand, Rests, Works, Steps, AfterScreen
<1>3. PhaseInv' /\ BindingInv' /\ RestInv'
  BY DEF HInv, PhaseInv, BindingInv, RestInv, BuildsCommand, Rests, Works, LaunchSteps,
         Authorizing, CommandSteps
<1>4. LeaseInv'
  BY DEF HInv, LeaseInv, Belongs, BuildsCommand, Rests, Works
<1>5. CommandInv'
  BY DEF CommandInv, BuildsCommand, Rests
<1> QED
  BY <1>1, <1>2, <1>3, <1>4, <1>5 DEF HInv

(* The steps that ask whether there is a source, and the sending.          *)
LEMMA AsksKeep ==
  ASSUME HInv, FindsRunnable \/ LooksFresh \/ Sends
  PROVE  HInv'
<1>1. /\ UNCHANGED <<vars, channel, phase, model, printed, seen, binding, lease, command, key,
                     undisturbed>>
      /\ \/ at = "printRun" /\ at' = "authority"
         \/ at = "commandRun" /\ at' = "environment"
         \/ at = "fresh" /\ at' \in {"requesting", "safe"}
         \/ at \in {"requesting", "sent"} /\ at' = "sent"
  BY DEF FindsRunnable, LooksFresh, Sends, Rests, Works
<1>2. TypeOK' /\ RequestInv'
  BY <1>1, WorkKeeps DEF HInv, HandoffTypeOK
<1>3. HandoffTypeOK'
  BY <1>1, <1>2 DEF HInv, HandoffTypeOK, Steps
<1>4. PhaseInv' /\ BindingInv' /\ RestInv'
  BY <1>1
  DEF HInv, PhaseInv, BindingInv, RestInv, LaunchSteps, Authorizing, CommandSteps
<1>5. LeaseInv'
  BY <1>1 DEF HInv, LeaseInv, Belongs
<1>6. CommandInv'
  BY <1>1 DEF HInv, PhaseInv, CommandInv, CommandSteps
<1> QED
  BY <1>2, <1>3, <1>4, <1>5, <1>6 DEF HInv

(* A comparison: the one of the lease begins the watch over the registry.  *)
LEMMA ComparesKeeps ==
  ASSUME HInv, Compares
  PROVE  HInv'
<1>1. /\ UNCHANGED <<vars, channel, phase, model, printed, seen, binding, lease, command, key>>
      /\ \/ at = "transport" /\ at' = "transportScreen"
         \/ at = "environment" /\ phase = "pinned" /\ at' = "authorize"
         \/ at = "environment" /\ phase # "pinned" /\ at' = "fresh"
         \/ at = "lease" /\ at' = "leaseScreen"
         \/ at = "authorize" /\ at' = "authorizeScreen"
         \/ at = "redeem" /\ at' = "redeemScreen"
      /\ at = "lease" => Target = binding.authority /\ (undisturbed' => PairHolds)
      /\ at # "lease" => undisturbed' = undisturbed
      /\ undisturbed' \in BOOLEAN
  BY DEF HInv, HandoffTypeOK, Compares, Works, Expected
<1>2. TypeOK' /\ RequestInv'
  BY <1>1, WorkKeeps DEF HInv, HandoffTypeOK
<1>3. HandoffTypeOK'
  BY <1>1, <1>2 DEF HInv, HandoffTypeOK, Steps, AfterScreen
<1>4. PhaseInv' /\ BindingInv'
  BY <1>1 DEF HInv, PhaseInv, BindingInv, LaunchSteps, Authorizing, CommandSteps
<1>5. RestInv'
  BY <1>1 DEF RestInv, Target, PairHolds, Paired, Blocked, vars, fileVars
<1>6. LeaseInv'
  BY <1>1
  DEF HInv, PhaseInv, LeaseInv, Belongs, CommandSteps
<1>7. CommandInv'
  BY <1>1 DEF HInv, CommandInv, CommandSteps
<1> QED
  BY <1>2, <1>3, <1>4, <1>5, <1>6, <1>7 DEF HInv

LEMMA ScreensKeeps ==
  ASSUME HInv, Screens
  PROVE  HInv'
<1>1. /\ UNCHANGED <<vars, channel, phase, model, printed, seen, binding, lease, command, key,
                     undisturbed>>
      /\ ~Blocked
      /\ \/ at = "printScreen" /\ at' = "printRun"
         \/ at = "commandScreen" /\ at' = "commandRun"
         \/ at = "leaseScreen" /\ at' = "value"
         \/ at = "transportScreen" /\ at' = "command"
         \/ at = "authorizeScreen" /\ at' = "redeem"
  BY DEF Screens, Rests, Works, AfterScreen
<1>2. TypeOK' /\ RequestInv'
  BY <1>1, WorkKeeps DEF HInv, HandoffTypeOK
<1>3. HandoffTypeOK'
  BY <1>1, <1>2 DEF HInv, HandoffTypeOK, Steps
<1>4. PhaseInv' /\ BindingInv'
  BY <1>1 DEF HInv, PhaseInv, BindingInv, LaunchSteps, Authorizing, CommandSteps
<1>5. RestInv'
  BY <1>1 DEF HInv, RestInv, Target, PairHolds, Paired, Blocked, vars, fileVars
<1>6. LeaseInv'
  BY <1>1 DEF HInv, LeaseInv, Belongs
<1>7. CommandInv'
  BY <1>1 DEF HInv, CommandInv, CommandSteps
<1> QED
  BY <1>2, <1>3, <1>4, <1>5, <1>6, <1>7 DEF HInv

LEMMA RedeemsKeeps ==
  ASSUME HInv, Redeems
  PROVE  HInv'
<1>1. TypeOK' /\ RequestInv'
  BY WorkKeeps DEF HInv, HandoffTypeOK, Redeems, Rests, Works
<1>2. HandoffTypeOK'
  BY <1>1 DEF HInv, HandoffTypeOK, Redeems, Rests, Works, Steps, MaybeTarget
<1>3. PhaseInv' /\ BindingInv' /\ RestInv'
  BY DEF HInv, PhaseInv, BindingInv, RestInv, Redeems, Rests, Works, LaunchSteps, Authorizing,
         CommandSteps
<1>4. LeaseInv'
  BY DEF HInv, LeaseInv, Belongs, Redeems, Rests, Works
<1>5. CommandInv'
  BY DEF HInv, CommandInv, Redeems, CommandSteps
<1> QED
  BY <1>1, <1>2, <1>3, <1>4, <1>5 DEF HInv

LEMMA StopsKeeps ==
  ASSUME HInv, Stops
  PROVE  HInv'
<1>1. TypeOK' /\ RequestInv'
  BY WorkKeeps DEF HInv, HandoffTypeOK, Stops
<1>2. HandoffTypeOK'
  BY <1>1 DEF HandoffTypeOK, Stops, NoChannel, NoBinding, Steps, MaybeTarget
<1> QED
  BY <1>1, <1>2, UnpinnedKeeps
  DEF HInv, PhaseInv, BindingInv, RestInv, Stops, LaunchSteps, Authorizing

-----------------------------------------------------------------------------
LEMMA HInvNext == HInv /\ [HandoffNext]_allVars => HInv'
<1> SUFFICES ASSUME HInv, [HandoffNext]_allVars PROVE HInv'
  OBVIOUS
<1>1. CASE SessionSteps
  BY <1>1, StartsKeeps, LooksKeep, FixesAuthorityKeeps, FindsSourceKeeps, MintsKeeps,
     ResolvesKeeps, BuildsCommandKeeps, AsksKeep, ComparesKeeps, ScreensKeeps, RedeemsKeeps,
     StopsKeeps
  DEF SessionSteps
<1>2. CASE RegistrySteps
  BY <1>2, RegistryKeeps
<1>3. CASE UNCHANGED allVars
  <2>1. TypeOK' /\ RequestInv'
    BY <1>3, WorkKeeps DEF HInv, HandoffTypeOK, allVars
  <2>2. RestInv'
    BY <1>3 DEF HInv, RestInv, Target, PairHolds, Paired, Blocked, allVars, sessionVars, vars,
                fileVars
  <2> QED
    BY <1>3, <2>1, <2>2
    DEF HInv, HandoffTypeOK, PhaseInv, BindingInv, LeaseInv, Belongs, CommandInv, allVars,
        sessionVars
<1> QED
  BY <1>1, <1>2, <1>3 DEF HandoffNext

(* Every variable of the handoff keeps its type.                           *)
THEOREM HandoffTypes == HandoffSpec => []HandoffTypeOK
<1>1. HInv => HandoffTypeOK
  BY DEF HInv
<1> QED
  BY <1>1, HInvInit, HInvNext, PTL DEF HandoffSpec

(* A pinned key meets only the command of its own target: the forwarded one*)
(* because the binding is of the authority it was issued under, a stored   *)
(* one because the files rested while it was read, and either because the  *)
(* binding and the command are both of the model's target.                 *)
LEMMA HInvMeets == HInv => PinnedKeyMeetsEndpoint
<1> SUFFICES ASSUME HInv, Keyed, phase = "pinned", printed, KnownKey PROVE key = command
  BY DEF PinnedKeyMeetsEndpoint
<1>1. command = model /\ binding.authority = model
  BY DEF HInv, BindingInv, CommandInv, CommandSteps, Keyed
<1>2. Belongs(key) /\ key # NoTarget /\ model \notin NoAuth
  BY <1>1 DEF HInv, LeaseInv, Keyed
<1>3. CASE binding.source = "forwarded"
  <2>1. channel.authority = binding.authority
    BY <1>3 DEF HInv, BindingInv
  <2> QED
    BY <1>1, <1>2, <1>3, <2>1 DEF Belongs, KnownKey
<1>4. CASE binding.source # "forwarded"
  BY <1>1, <1>2, <1>4 DEF Belongs, KnownKey
<1> QED
  BY <1>3, <1>4

(* The key a launch pinned is sent only to the target it was typed in for, *)
(* whatever the user does to the registry meanwhile.                       *)
THEOREM PinnedKeysMeet == HandoffSpec => []PinnedKeyMeetsEndpoint
<1> QED
  BY HInvInit, HInvNext, HInvMeets, PTL DEF HandoffSpec
=============================================================================
