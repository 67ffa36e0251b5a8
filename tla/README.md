# Agentic Debugger in TLA+

This directory holds TLA+ models of the Agentic Debugger (`src/`), the TLC
configurations that check them, and proofs about them that TLAPS checks. All
paths below are relative to the repository; unless said otherwise, code names
refer to `agentic_debugger/application/`.

Contents: [the system](#1-the-system) · [what is modelled](#2-the-modules) ·
[what is checked](#3-the-runs) · [what is proved](#4-the-proofs) ·
[what the code does not keep](#5-disagreements-found) ·
[what is left out](#6-what-is-not-modelled) · [the plan](#7-the-plan)

## 1. The system

Agentic Debugger lets a language model drive a debugging session against a
Python project: a user interface (or a headless script) starts a *worker
process* per session; the worker runs an *execution source* (an agent
controller, its model, a PDB session, a patcher, a verifier), and records what
happens in an append-only *journal*; a *supervisor* in the parent process turns
worker, journal and exit into one result; a *history* lists the sessions on
disk. The models a session may use come from *providers* that the user
configures, each with an endpoint and a key.

### Inventory

| Component | Code | State it keeps | Operations | Talks to |
|---|---|---|---|---|
| Session events | `events.py`, `event_contracts.py`, `event_payloads.py` | none (contract over a stream) | construct, validate a complete stream | everybody who reads a journal |
| Journal | `journal.py`, `emitter.py` | the file, the stream's buffer, next sequence, sticky failure | create, append, flush, close, read | worker writes; supervisor and history read |
| Session worker | `worker.py`, `../cancellation.py` | outcome, started, cleanup verdict, token | start request, gates, source, cleanup cycle, terminal, fatal exit | supervisor over stdin/stdout; journal; disk |
| Supervisor | `worker_process.py`, `worker_protocol.py` | ready, terminal, fatal, error envelopes, surfaced events, cancel flags, result | start, cancel, wait, close, reader loop, escalation, classification | worker, journal, disk |
| Live runner | `../ui/models.py` | stop flag, delivered count, terminal | start, cancel, close, drive | supervisor, history, UI thread |
| Headless driver | `scripts/local_project_headless.py` | one session | run, interrupt | supervisor, history, worktree |
| History | `history.py` | manifest and result files | register, list, classify | journal files |
| Process tree | `process_tree.py` | job handle; registry of request groups | kill ladder, liveness, SIGTERM handler | worker and its descendants |
| Command transport, command runner | `command_transport.py`, `../runtime/command_runner.py` | the process group of the command that runs | request or run with cancel and timeout | process tree registry |
| Provider registry | `provider_management.py`, `provider_config.py`, `provider_credentials.py`, `provider_catalog.py` | configuration file, secret store, quarantine file and its overlay in memory, catalog cache | add, update, delete, refresh a catalog | vault, UI, one thread per refresh |
| Credential vault | `credential_vault.py`, `session_runtime.py`, `configured_source.py` | leases by ticket | readiness, bind, authorize, resolve, retain, redeem | provider registry, worker launch, model transport |
| PDB session | `../runtime/pdb_session*.py` | process, reader threads, response queue, state, belief about the target | start, requests, stop, overflow cleanup | PDB worker process |
| PDB worker | `../runtime/pdb_worker*.py` | target, its pauses, the request it serves | hello, run, start paused, resume, status, inspect, terminate, shutdown | session over its stdin and stdout; the target |
| Patcher | `../runtime/patcher.py`, `../runtime/patch_apply.py` | snapshot of the active patch; files | apply, revert | tools |
| Agent controller | `../agent/` | phase, budgets, stage of the pipeline, stop reason | loop, tool dispatch, policy, pipeline after a patch | model adapter, tools, events |
| Local Project tools | `local_project_tools.py` | candidate, test evidence, revisions of the commands | apply, revert, syntax, reproduction, regression, classify, revise | patcher, command runner, events |
| Local Project | `local_project*.py` | git worktree and its registration | validate, create, clean up, apply to the owner's repository | UI, worker, supervisor |
| Gateway and protocols | `model_gateway*.py`, `provider_http.py` | none across requests | resolve a route, request, parse | vault, registry |
| Presentation | `presentation*.py`, `workstream*.py`, `replay.py` | reductions of an event list | reduce, replay | UI |
| Verifier | `../evaluation/local_project_verifier.py` | export, workspaces, evidence of four commands | evaluate one candidate | source, command runner, the owner's repository |
| Evaluation, benchmarks, research | `../evaluation/`, `../quixbugs/`, `../bugsinpy/`, `scripts/`, ... | files of one batch | sequential batch steps | runtime |

### Interactions

The supervisor and the worker share three things: the worker's stdin (start,
cancel), its stdout (ready, event, terminal, fatal, error), and the journal
file, which is the authority: an event message carries only a sequence number,
and makes the supervisor read the file. The supervisor runs a reader thread;
the live runner adds a driver thread and is called from the UI thread. The
worker runs its main thread and a thread that turns cancel messages into token
requests. The history reads the file again, after everybody else.

### Hard behaviours, and what makes each part correct

* **Crashes at any point.** The worker dies between any two steps, in the
  middle of a record, after the terminal record but before the terminal
  message. Correct means: the same verdict whichever of journal and envelope
  survives; a prefix of a journal is interrupted, never malformed, never
  complete.
* **Failing disk.** `write`, `flush` and `fsync` fail separately, and a failed
  flush may still reach the file later. Correct means: no later record is
  written behind a hole, and a failure is not upgraded to success.
* **Cancel, deadline, crash and completion race** in three processes' worth of
  threads. Correct means: *cancelled* is reported exactly when the journal
  says so; something ends every session that was closed or has a deadline.
* **Who removes what.** Work directory and worktree can be removed by worker,
  supervisor, headless driver and UI. Correct means: a claimed cleanup is true,
  nobody removes under a live worker.
* **Everything ends.** No driver finishes while its worker lives; no driver
  waits for ever for a dead one.
* **Transactions over several files.** A provider save writes quarantine,
  secret store and configuration; every write, and every roll-back, can fail,
  and the process can end in between. Correct means: no key is used with an
  endpoint it was not typed in for, and what is reported is what is on disk. A
  patch replaces files one by one and takes them back the same way, and each
  replacement and each restoration can fail. Correct means: the tree is what the
  patch manager reports, and nobody works on a tree that could not be repaired.
* **Read, modify, write without a lock.** A catalog refresh runs in its own
  thread and rewrites the configuration file beside the edits of the UI thread.
* **A check, and later a use, by different processes.** The UI hands a key to the
  worker, the worker fixes the authority of its session from files that the UI
  may be rewriting, and a child of the worker sends the key many steps later.
  Correct means: a key only meets the endpoint it was typed in for.
* **Request/response over a pipe with timeouts.** The PDB worker answers late, or
  dies, or its target writes into the channel or leaves a child that holds it
  open; a second thread stops the session meanwhile, and a full queue tears it
  down. Correct means: no answer reaches another request, a session that failed
  does not come back, no worker is left, every call returns.
* **Four memories of one patch.** The tree, the patch manager, the tools
  (candidate, evidence) and the journal each keep their own account of what is
  applied and what was tested. Correct means: they agree whenever one of them
  is used.
* **Cancellation through layers.** The token is looked at in the loop, the
  model request, the pipeline, the verifier and the source, and its error
  crosses all of them. Correct means: nothing starts after it, the run ends,
  and ends as cancelled.
* **Process groups of commands.** A command may leave children in its group and
  may ignore SIGTERM, and the worker may be ended in the middle of the cleanup.
  Correct means: no group outlives the request, nor the worker.
* **A repository that somebody else works in.** The setup, the verifier and the
  gates of an apply read HEAD, its tree and the status with one git command each,
  and the owner, or the thread of a second press of the key, may change them
  between any two. Correct means: a certificate is about the commit it names, no
  matter when HEAD moved; only what was verified reaches the owner's tree.

`PROJECT.json` lists every hazard at its line with the properties that cover
it, and those that none covers yet with the reason.

## 2. The modules

| Module | Models |
|---|---|
| `SessionEvents` | the journal's vocabulary: statuses, transitions, the scanning validator, prefix rules, `read_session_journal`, `SessionResult`'s rules, the derivation of a result from a journal, `HistoryStore.register` |
| `SessionStreams` | the stream contract as `events.py` documents it, rule by rule over the positions of a stream, and a specification that grows every stream one record at a time |
| `SessionWorker` | `worker.py` over `journal.py`, `emitter.py`, `cancellation.py`: actions only, no specification of its own |
| `SessionBoundary` | `SessionWorkerProcess` and its two drivers, composed with `SessionWorker`; the specification, the fairness and the properties |
| `SessionVerdict` | the abstract promise of the boundary: an outcome recorded at most once, a verdict given at most once that never contradicts it |
| `SessionBoundaryProofs` | theorems about `SessionEvents`, `SessionStreams` and `SessionBoundary`, the refinement included |
| `ProviderRegistry` | add, update, delete and catalog refresh over configuration, secret store, quarantine and catalog cache |
| `ProviderRegistryProofs` | theorems about `ProviderRegistry` |
| `CredentialHandoff` | how a session comes by its key: from the launch over binding, lease and ticket to the child that sends it; composed with `ProviderRegistry` |
| `CredentialHandoffProofs` | theorems about `CredentialHandoff` |
| `PdbWorker` | the PDB worker, its target and what the target leaves behind: actions only |
| `PdbSession` | `PdbSession` with its transport and its threads, composed with `PdbWorker` |
| `PdbSessionProofs` | theorems about `PdbSession` |
| `PatchStore` | what a patch manager promises: apply and revert are atomic, or the tree is damaged; actions over three variables |
| `Patcher` | `PatchManager`, file by file; implements `PatchStore` |
| `PatcherProofs` | theorems about `Patcher`, the refinement included |
| `RepairSession` | the controller loop, the pipeline after a patch, the tools and the end of a Local Project run, over `PatchStore` |
| `RepairProofs` | theorems about `RepairSession` |
| `CommandGroups` | the process groups of model requests and test commands in a worker |
| `CommandGroupsProofs` | theorems about `CommandGroups` |
| `LocalProjectVerifier` | the independent verifier, and the owner of the repository: actions only |
| `LocalProjectApply` | the sessions on one repository, from validation to certificate, and the threads that apply candidates, composed with `LocalProjectVerifier` |
| `LocalProjectApplyProofs` | theorems about `LocalProjectApply` |
| `MCSessionBoundary`, `MCProviderRegistry`, `MCCredentialHandoff`, `MCPatcher`, `MCLocalProjectApply` | instances for TLC |

### Correspondence to the code

**Events.** A record keeps its sequence, its kind, whether it carries the
run id, status and reason of a terminal, and the `verified` flag of
`cleanup.completed`. All kinds the lifecycle rules ignore are `progress`. Six of the
reasons of *failed* are one value; `journal_error` stays apart since readers
look at it. `Scan` is a fold over the file with the code's variables as a
record (`ScanStep`). `ReadState` is `read_session_journal` with one more value:
`"unreadable"`, for the exception that its strict decoder raises when the file
ends inside a character. Such ends exist only in configurations with
`unicode`; a session whose records are pure ASCII never has one.

**Worker.** `wpc` is the program point of the main thread. At the points of
`Emitting` the next thing it does is to append `RecordAt(wpc)`, so that every
emit of `run_worker` is one action, `EmitRecord`, with the three outcomes of an
append: durable; durable but reported as failed (fsync); left in the stream's
buffer with nothing or half of it in the file. A notification goes with every
successful append (`_NotifyingJournalSink`); consecutive ones are one, since
each makes the reader read to the end of the file. `Gate` is `token.check()` at
its three places, `CheckRaises` what it raises and where that leads; the
explicit cancel has two steps as in `CancellationToken.request` (reason, then
event), and the deadline is a clock of its own. `SourceEmits` and `SourceEnds`
stand for every execution source: it may emit, swallow or propagate the
failure of the sink, ignore the token for ever, fail or return. `Dies` is the
death of the process at any point, including in the middle of an append; what
was handed to the operating system survives.

**Supervisor.** `dpc` is the program point of whoever calls `start()` and
`wait()`. The reader thread is `ReaderTakes`; `received` is the set of the last
envelopes it stored. `UserCancels` and `UserSends` are the two halves of
`cancel()` (flag under the lock, then `_send_cancel` under the lock again), so
that a cancel may be overtaken by the handshake. `Classify` is
`_classify_drained_exit` and what it calls, with the post-mortem removals in
the same step: they are made on a dead worker and nothing else observes the
directory in between. `Reap` is the end of `wait()`. `ClassifyRaises`,
`JournalRaises` and `readerGone` are the exception of the decoder on its way
through `wait()`, `start()` and the reader thread.

**Drivers.** `conf.live` chooses between `LiveSessionRunner` (`follow` is
`_drive_events`; the UI thread can cancel and close at any time) and the
headless driver (straight into `wait()`, interrupted by Ctrl+C once).
`conf.posix` chooses whether a spawned worker runs at once or is first
suspended and contained, and whether an unreaped child still answers
`pid_is_alive`.

Waits that the code bounds generously and that end by themselves (the drain of
the reader after the worker's exit, the reap of a killed worker) are taken to
end before their timeout; see the plan for the variant in which they do not.

**Provider registry.** A *target* stands for a base URL together with its
authentication mode, and is also what a key and a catalog are known by: the
target the key was typed in for, the target that sent the catalog. So "the key
belongs to the endpoint" is `secret[p] = config[p].target`. `upc` is the
program point of the user-interface thread, which runs one request at a time
(the dialogs are modal): `Begin` is everything the request does before its
first write, in particular the list it will save (`updated`), which is the
whole configuration file as it was then. `Arm`, `Store`, `Save`, `Restore`,
`Remove` and `Disarm` are the writes of `commit_provider_and_credential`, one
action each with its failures; `Revoke`, `Purge`, `Unmark` those of a delete.
Every file is replaced by `os.replace`, so that a write happens or does not.
`rpc[p]` is the refresh thread of a provider: the request, the cache, the load
of the configuration and the save that writes it back whole (`snapshot`).
`Restart` ends the process at any point and forgets the overlay and the
threads. `conf.blind` is a secret store whose reads may fail, which the code
cannot tell from an empty one (`_wincred_read`).

`before` and `alone` are history: target and key when the request began, and
whether no refresh wrote while it ran. They state properties of one request
without assuming anything about the ones before it.

**Credential handoff.** `at` is the next step of a worker, which reads the files
of the registry without a lock, so that each reading is an action; the actions of
`ProviderRegistry` come between any two. `Starts` is the spawn, with the key and
its authority in the environment (`channel`), for a Local Project session or a
configured one. The steps up to `Prints` are `resolve_binding`, whose result is
the identity of the model and whether it has a fingerprint; `LoadsAuthority` and
`FixesAuthority` are `session_authority`, `FindsSource` and `Mints` are
`safe_binding`, `Resolves` is `resolve_lease` and, in a launch, `retain_lease`.
`BuildsCommand` and `FindsRunnable` are `resolve_provider_live_config`, `Redeems`
and `LooksFresh` the two ways through `transport_materialization`. Every check of
a configuration against something fixed before is `Compares`, with what it is
compared with in `Expected`, and every look at the quarantine behind it is
`Screens`; a check that fails leaves only `Stops`. `phase` says whether the key of
the session is pinned by its launch. A target stands for the identity of a
configuration, and a key for the target it was typed in for, as in
`ProviderRegistry`. `undisturbed` is history.

**PDB.** `at` has the program point of each of the four threads of the client:
the caller, which starts the session and makes one request at a time; a
stopper, which may call `stop()` at any point after the start; the reader of
stdout; and the coordinator of an overflow. `Kill`, `Close` and `Clear` are
`terminate_and_cleanup`, which three of them run, on shared handles (`proc`,
`closed`). `stdin`, `stdout`, `queue`, `held` and `serving` are the five places
where a line can be. An answer keeps the request it is for, whether it is a
success, the state and the pause it reports and the kind of line the target
stands on; that is all the validation of `pdb_session_outcomes.py` can trip over
(`Malformed`). `local` is what the session believes of the target, `target` what
the worker has. Of the worker, `stage` says whether it takes a request, waits
for its target while it serves one, or leaves. The target may pause, end, crash
the process, write lines into the channel, and start a child that survives the
worker and keeps the pipe open. `laddered` is history. Windows and POSIX differ
in how a group is killed only, which is not looked into.

**Patches.** The content of a file is the patch whose version it is, `NoPatch`
for the original, or `Damaged`. `BeginApply` and `BeginRevert` are everything up
to the first write; `Writes`, `WriteFails` and `VerifyFails` the replacement of
one file; `Restores` and `RestoreFails` its way back, after which `Fails`
reports whether everything was undone (`sound`). Parsing and authorising a diff
come before and touch nothing. `PatchStore` has the same operations as one step
each, `Breaks` being a failure that was not undone. `RepairSession` extends it:
in the worker one thread does both, so that nothing comes between the files of
one operation.

**Repair run.** `pc` is the program point of the loop, `stage` the next or
running step of `run_post_patch_validation`, `tool` the handler that runs.
Everything the model may answer is a disjunct of `ModelStep`: a failing request,
an answer that the phase does not allow, a tool that only looks, a transition, a
tool that acts. `Observes` is what loop and pipeline make of a tool's
observation: it ends the run (`fatal`), lets the pipeline go on (`ok`) or goes
back to the model (`abort`). `AutoReverts` and `ApplySucceeds` are the two
changes of the tree in one `handle_apply_patch`, with the journal record between
them. `evidence` keeps of which tree and which revision of the command a
recorded result is; the code keeps a Boolean, and `EvidenceIsCurrent` says that
this is enough. `attempts` is the reduction of the journal's patch events, and
`ActiveCandidate` is `active_candidate_attempt`. `Concludes`, `Verifies` and
`Aborts` are `run_local_project_session` behind `controller.run`.

**Command groups.** `at` is the program point of the worker's main thread, which
runs one command after the other; `members` the live processes of each group,
the leader and (as one) whatever it has left in the group. `Signals` is a
SIGTERM to the group, of which any of them may die, `Empties` the SIGKILL.
`kind` tells a model request from a test command that polls the token (baseline
and verifier) and one that does not (the tools). `Terminated` is the signal
handler of the worker at any point, `Killed` an end without it.

**Verifier and apply.** `head` and `work` are the owner's repository: its commit,
and the marks of what is not committed, the owner's own edits and the candidates
that were applied, wholly or in part. The owner (`Owner`) changes both at any
time. A look of the verifier is three git commands and three actions
(`ReadsHead`, `ReadsTree`, and the status, by which it becomes `Seen`); a tree is
named by its commit, so that a look may have HEAD of one commit and the tree of
another. A workspace remembers which commit it is a
copy of, whether the candidate is in it and whether a command has run in it;
`records` keeps the result of each of the four commands with the workspace as it
was before. That is what `Genuine` judges, while `Permits` and the fields of
`cert` are what the code looks at. A `Thread` of `LocalProjectApply` is the worker
thread of one press of the apply key: it passes the gates for HEAD, status and
`git apply --check` twice, as the screen and `apply_patch_to_project` do one after
the other, and then writes. A press while another thread is in its git command
cancels the thread but not the command. `moved` and `touched` are history: what
changed behind the last reading of a thread. The patch a session's journal shows
is the one that was verified, or none (`RepairSession`, `JournalMatchesStore`,
apart from disagreement 1).

## 3. The runs

State counts are for two TLC workers.

| Run | Configuration | Size | Shows |
|---|---|---|---|
| `events` | streams of at most 7 records, each with a right or a skipped sequence number and with or without run id | 813 000 states | the scan accepts exactly what its documentation states; every cut of a complete journal is interrupted; a complete journal with an ordinary cleanup yields a legal result |
| `boundary` | live driver on POSIX; headless driver on Windows with a Local Project and records outside ASCII, on POSIX with a deadline, and on POSIX with a source that emits one record | 692 000 states | the nine properties below |
| `progress` | live driver on Windows; headless driver on POSIX with a deadline; no source record, with fairness | 477 000 states | `SessionEnds`: a close, an interrupt, a deadline or the death of the worker ends the session |
| `registry` | one provider with two remote targets and one without authentication, a store whose reads fail or not, a catalog; two providers with one target, one of them with a catalog | 428 000 states | the properties further below |
| `handoff` | one provider, with two remote targets and a store that can be read, or with one remote target, one without authentication and a store whose reads may fail; any number of sessions, one after the other | 994 000 states | `PinnedKeyMeetsEndpoint` |
| `pdb` | four requests, two pauses, one line of junk, a queue of two | 154 000 states | the properties further below |
| `patcher` | three files, two patches of two files each that share one | 86 000 states | the properties further below, and that `Patcher` implements `PatchStore` |
| `repair` | two patches, two attempts, three test runs, one revision of each command | 339 000 states | the properties further below |
| `groups` | three commands of any kind, one after the other | 65 000 states | the properties further below |
| `apply` | two commits, two sessions, one thread that applies | 446 000 states | the properties further below |
| `retained_candidate`, `cancel_swallowed` | as `repair`, without revisions | until the counterexample | disagreements 1 and 2 of section 5 |

Of the type invariants only `pdb`'s is also checked by its run, since its bound on
the queue is one the code has to keep; all of them are theorems (section 4).

Properties of `boundary`:

* `JournalNeverMalformed` — no failure, crash or kill makes the journal read as
  malformed, or complete with a result that `SessionResult` refuses.
* `EnvelopeMatchesJournal` — the terminal envelope says what the supervisor
  would have derived from the journal, so losing it changes nothing.
* `CleanupClaimsAreTrue` — a verified cleanup means both directories are gone,
  and stays true.
* `CancelledIsDurable` — *cancelled* only if somebody asked, and the journal
  holds request and terminal.
* `HistoryAgrees` — the history lists what the supervisor reported, except for
  journal failures (section 5).
* `WaitSurfacesJournal` — after `wait()` every record is visible and the
  worker is reaped.
* `NoWorkerLeft` — no driver ends before its worker.
* `PostMortemAfterDeath` — the supervisor removes directories of dead workers
  only.
* `ImplementsVerdict` — the boundary implements `SessionVerdict` under
  `recorded <- Recorded`, `verdict <- result.status`.

Properties of `registry`:

* `RequestKeepsPair` — a request that began with a key and a target that belong
  together ends so, or with a provider that cannot be used, whichever write
  fails and wherever the process ends.
* `ReportIsTrue` — "no provider changes were applied", "restored", "removed"
  and success each say what the files hold.
* `DeletionIsComplete` — a successful delete leaves no configuration, key,
  catalog or mark.
* `TargetsFollowRequests` — whole-list saves change no target but the one that
  was asked for.

Three of them are conditional, and the conditions are where the code stops:
`alone` excludes a refresh that wrote during the request (nothing prevents it,
and it then writes back what the request replaced); `~blind` excludes a store
whose read failed (the gate of a blank key and the delete take it for empty);
and `RequestKeepsPair` speaks of one request that began well, since over several
the code does not keep the pair (disagreements 10 and 11).

Property of `handoff`:

* `PinnedKeyMeetsEndpoint` — a key that a launch pinned meets, in the child that
  sends it, the endpoint it was typed in for, whatever is saved, deleted or rolled
  back in between.

It too states where the code stops. The model must have a `config_fingerprint`:
a binding without one (of a provider that was blocked or had no key at its launch)
is compared by identity before the command is built and not after, so that the
command may be of another configuration than both checks around it saw. A stored
key must not be saved anew between the check of the configuration and the reading
of the key; and neither it nor a forwarded one may come from a wrong pair that an
earlier request left (disagreements 10 and 11): the identity of a configuration
is compared at each step, the key never. And a session whose
launch fixed nothing reads the files as they are. `KeyMeetsEndpoint`
(`MCKeyMeetsEndpoint.cfg`) has no such conditions and fails in each of these ways.

Properties of `pdb`:

* `NoLeakedWorker` — a worker that lives can be reached, and none lives behind
  a session that was stopped, or that failed and is cleaned up.
* `ChannelQuiet` — between two requests nothing that answers an earlier one is
  in any of the five places where it could be.
* `BeliefIsTrue` — what the session believes of the target between two requests
  is so.
* `NeverRevived` — nothing writes over a stop, or makes a failed session ready.
* `CallsReturn`, `StopReturns` — every request and every stop ends, except in
  the one wait that has no bound (`Wedged`): closing a pipe that the reader is
  inside, while a child of the target holds the other end. See disagreement 6.

Properties of `patcher`:

* `TreeIsExact` — between two operations the tree is exactly that of the active
  patch, unless an operation said that it could not clean up.
* `RevertIsComplete` — a revert that succeeds has put everything back, after
  any history of failures.
* `ImplementsStore` — the manager is the atomic store of `RepairSession`.

Properties of `repair`:

* `EvidenceIsCurrent` — recorded evidence is of the tree that is there and of
  the command that would run now.
* `PipelineCompletesResolved` — the pipeline completes a run only for the
  candidate that is in the tree, after both commands passed on just that tree.
* `JournalMatchesStore` — between two tools the journal's active candidate is
  what the patch manager would revert.
* `CancelIsFinal` — once cancelled, a run starts no tool, and nothing changes but
  by the handler that was running.
* `CancelEndsRun` — a cancelled run ends, although an ordinary one has no bound.

Properties of `groups`:

* `NoGroupOutlives` — nothing is left of a request that is over, nor of a test
  command that was cancelled or timed out.
* `OrphanOnlyInLaunch` — a worker ended by SIGTERM leaves no model command,
  except one between its `Popen` and its registration.
* `CancelEndsCommand` — a cancelled session gets its main thread back.

Properties of `apply`:

* `CompletedHasProof` — a verdict *completed* has all four results, in the order
  and with the values that its record demands, the repository as it was and
  nothing left behind.
* `ResolvedIsGenuine` — a certificate that permits an apply rests on commands run
  on the commit the session was made from, each in a workspace of its own, the
  baseline without and the rest with the candidate, whenever the owner moved HEAD.
* `OnlyVerifiedLands` — no candidate without such a certificate is in the owner's
  tree, in part or whole.
* `AppliesOnVerifiedBase` — `git apply` runs on that commit with a clean tree,
  unless either changed after the thread's last reading of it; a second press
  included.

**Bounds and why they are enough.** `MaxEvents = 7` holds two complete cleanup
cycles with a start and a terminal between them, or one cycle with every
optional record: each rule of the validator relates at most three positions.
The field `records` of a configuration says how many records the source of the
worker may emit. One gives a record that can fail, be cut, or be swallowed
between two lifecycle records, and a sticky emitter a second attempt: `source`
is one program point, and what a second record adds is a longer file.
The configurations of `boundary` are not the full product of the five flags,
which would take TLC beyond minutes. The four chosen have each flag on in one
and off in another, with both drivers and both platforms; the other runs add
the live driver on Windows, and on POSIX with a project or with records outside
ASCII. Each of the 32 combinations has also been run by itself against the same
properties, which hold in all of them: 24 with `records = 1`, and the eight
that are too large for that (the live driver with at least two of `local`,
`deadline` and `unicode`) with `records = 0`. Nothing else in the session's
models is bounded: the queues are finite because each side sends finitely many
messages.
In `registry` neither the number of requests nor that of crashes is bounded,
the state space is finite by itself. A key can belong to the current target,
to another, or be missing, so two remote targets suffice for one provider, and
a third brings the mode without authentication. Two providers meet only in the
list that is written back whole, where one target is enough to see an entry
come or go; both providers with both remote targets and a catalog have also
been run once (1.3 million states).
In `handoff` nothing is bounded but the sets. A session reads one provider, and a
key belongs to its target or to another: two targets of the one kind, or one of
each. Catalog refreshes, which write no key and no target, are left out of the
instance (`listed` is empty). The `VIEW` leaves out the parts of the state that
no step reads: the history variables of the registry, what the last request
reported, and a request that is over. The property does not read them either.
In `pdb`, `MaxRequests = 4` are a hello, a start and two requests behind it,
which is what a late answer, a resume or a stale inspection takes; two pauses
make an inspection of an earlier one possible; the queue has the capacity of the
code, two, and a line of junk, an answer and the end of the pipe overflow it.
In `patcher` neither operations nor failures are bounded. A failure can come
before, between and after the replacements of two files, and the two patches
share one file and differ in another, so that what one leaves in the way of the
other shows.
In `repair` the budgets of the code (`PatchBudget`, `TestBudget`) bound what
changes the tree and the evidence, and are what the loop itself checks; the
number of requests to the model is not bounded. The product has two attempts,
as here, which a replacement, a duplicate and a second try take; ten test runs,
here three, one more than a pipeline needs; and two revisions, here one. The
theorems hold for any.
In `groups` the commands do not share anything but the main thread and the
token, so that two would show what one leaves for the next.
In `apply` nothing is bounded but the sets: the owner edits, commits and moves
HEAD for ever. Two commits let HEAD move away and come back between two looks;
with two sessions one candidate can lie in the tree while another is verified or
applied. Two threads matter only to each other's gates: `MCDoublePress.cfg` has
two with one session (12 000 states), and the theorems any number of each.

**Deadlock.** `boundary`, `progress`, `registry` and `patcher` check it: a
session that is over rests in an explicit step (`Rest`), so any other state
without a successor is a thread waiting for ever; in the registry another
request and in the patcher another operation is always possible. `events`,
`pdb` and `groups` stop at their bounds, and a repair run stops when it is over
(`CHECK_DEADLOCK FALSE`); that they stop nowhere else is what their liveness
properties say. In `apply` the owner can always act, and in `handoff` a session can
always stop, so that the question does not arise.

**Fairness** (`FairSpec`) is weak fairness of everything the operating system
schedules: the reader, the driver, the second half of a cancel, the cancel
thread, the main thread of the worker outside its source, and the clocks.
`time.sleep` loops and blocking reads justify it. It assumes nothing of the
user, of crashes, or of the source: a source that never ends and never looks at
its token is a behaviour. No action can be taken for ever, since each consumes
a message, a deadline or a program point; hence one fairness condition over
their disjunction is fairness to each.
In `pdb` fairness is to each of the four threads of the client and to nothing
else: neither that the worker answers nor that the target ends is assumed, since
every wait of the client but one has a timeout. In `repair`
it is fairness of the run as one thread, with no assumption on which way a step
goes: the model may go on asking for tools for ever, and only a cancel is
claimed to end that. In `groups` it is fairness of the main thread; the commands
may never end, read or die of a SIGTERM.

**Mutants.** Each property of a passing run has a definition that breaks it the
way a slip in the code would (`PROJECT.json`, `mutants`): for example, a
failure that is raised but not remembered (`AppendFailsOnce`) makes the journal
malformed; an exit classified without reading the journal
(`ExitResultWithoutJournal`) breaks the refinement; a grace period that `wait()`
does not arm (`EnterWaitWithoutGrace`) breaks `SessionEnds`; a
delete that purges the catalog as leniently as an update does
(`PurgeIfPossible`) breaks `DeletionIsComplete`; a forwarded key that is bound to
the present configuration instead of the one it was issued under
(`IssuedAnywhere`) breaks `PinnedKeyMeetsEndpoint`; a PDB request that times out
without taking the worker down (`TimesOutRaising`) breaks `ChannelQuiet`; a
patch whose last file is not counted as replaced when its verification fails
(`VerifyFailsUncounted`) breaks `TreeIsExact`; a revert that is not recorded
(`RevertSucceedsUnrecorded`) breaks `JournalMatchesStore`; an export of what HEAD
is now instead of what it was read as (`ExportOfHead`) breaks `ResolvedIsGenuine`,
and an apply that trusts the result on the screen (`ProvenByScreen`) breaks
`OnlyVerifiedLands`; and a group that is unregistered before it is cleaned (`ClosesUnregistered`) breaks
`OrphanOnlyInLaunch`.

## 4. The proofs

Every safety property that a passing run checks, invariant, action property or
refinement, is a theorem; the five liveness properties are not. Where an invariant
was hard to find, TLC checked it on the instance of its run first.

### The journal and its validator

`Scan` is a left fold over the records, by the operators of the community
modules a recursive function over the *sets* of positions. `SessionBoundaryProofs`
first derives the two equations everything else uses, `ScanEmpty` and
`ScanAppend`, and an induction over sequences, `SeqInduction`. The library's
induction theorems take a predicate as a parameter, which the installed provers
cannot instantiate; stated about a *set* of numbers (`SetInduction`, from the
well-founded order of the naturals and `WFMin`) and a set of sequences, the
principle can be cited. From there:

| Theorem | Statement |
|---|---|
| `ScanMeans` | for every stream of records, of any length, the flags of the scan are facts about the records, and acceptance means numbering, one start, the right binding to the run, and the rules of a terminal |
| `ScanMeetsContract` | `StreamSpec => []ValidatorMeetsContract` |
| `EveryCutIsInterrupted` | `StreamSpec => []CutJournalIsInterrupted` |
| `CompleteAlwaysHasResult` | `StreamSpec => []CompleteJournalHasResult` |

`MaxEvents` is not bounded in these theorems, so that they speak of streams of
every length that grow record by record. The argument for the first: `Reads`
says what the scan's state is in terms of positions *before* the next record
(`StatusBefore`, `CycleOpen`, ...); none of these changes for an earlier position
when a record is added (`BeforeEarlier`, `CycleAppend`, `StatusBeforeAppend`); so
the scan accepts a record exactly when the `Rule` of its position holds
(`StepAccepts`), and a stream when all of them do (`ScanIsRules`); and the
contract, with its conditions on whole streams, is those rules and a terminal
(`ContractIsRules`).

### The worker boundary

`SessionBoundaryProofs` proves for every set of configurations, with any number
of source records in each (assumption `ConfigsAssumption`, nothing else):

| Theorem | Statement |
|---|---|
| `TypeCorrect` | `Spec => []TypeOK` |
| `NoWorkerIsLeft` | `Spec => []NoWorkerLeft` |
| `WaitShowsEverything` | `Spec => []WaitSurfacesJournal` |
| `NoPostMortemRace` | `Spec => PostMortemAfterDeath` |
| `WriteInvariant` | `Spec => []WriteInv` |
| `JournalStaysWellFormed` | `Spec => []JournalNeverMalformed` |
| `ReportInvariant` | `Spec => []ReportInv` |
| `EnvelopesMatch` | `Spec => []EnvelopeMatchesJournal` |
| `CleanupClaimsHold` | `Spec => []CleanupClaimsAreTrue` |
| `CancellationIsDurable` | `Spec => []CancelledIsDurable` |
| `HistoriesAgree` | `Spec => []HistoryAgrees` |
| `BoundaryKeepsItsPromise` | `Spec => ImplementsVerdict` |

They rest on three inductive invariants, each using those before it. `IInv`, for
the end of a session:

* `TypeOK`. It is inductive by itself only because it ties the token's parts
  together (whoever has signalled has a reason): `CheckRaises` turns the reason
  into the outcome.
* `JournalInv`. A fatal envelope is in the pipe or received only while its
  worker is at its last step or dead, and is the last message in the pipe
  (`FatalIsLast`); half a character is at the end of the file only in a session
  that has such characters; only the live driver is stopped. Needed because the
  driver may end on a fatal envelope without looking at the worker.
* `EndsInv`. A worker exists exactly from its spawn on; the driver is at the
  end of its program only once the worker is gone, or at its last step behind a
  journal that raised; a result is known only in the last phase; and a `wait()`
  that has returned one has surfaced the file and reaped the worker.

`WriteInv`, for what is written:

* `ControlInv`. Which of the worker's variables are set at which program points.
* `WriterInv`. As long as the worker can write, these variables say what the scan
  of its file would find: started, ended, the status, whether a cancellation is
  recorded, whether a cleanup is open and was verified. The worker never reads
  its journal back, so this correspondence is what makes its next record one
  the validator admits (`EmitLegal`).
* `JournalLegal`. The file is accepted so far, and so is the file with the record
  that waits in the buffer of a journal that failed, because a close may still
  flush it and a death in the middle of a write may leave it whole
  (`WorkerWrites`).

`ReportInv`, for what is reported:

* `MessageInv`. A terminal envelope, in the pipe or received, was sent by a worker
  that has taken its last step, over a complete journal whose derived result it
  carries; an error envelope by one that has no journal.
* `CleanInv`, `CancelInv`. Whatever the journal holds or may still come to hold
  (`Held`) that claims a verified cleanup, or a cancellation, is true of the disk,
  or was asked for.
* `ResultInv`. A result is *explained*: by a journal failure, a failed startup, the
  complete journal, or a dead worker without one.
* `RegisteredInv`. The history was written from the journal as it stays.

The refinement then needs a case per step that records or settles: `Recorded` may
change only when the terminal record enters the file, and a result only when it
is explained by what is recorded.

### The PDB session

`PdbSessionProofs` proves, for any number of requests beyond the hello
(`ClientAssumption`), of pauses, lines of junk and places in the queue:

| Theorem | Statement |
|---|---|
| `SessionInvariant` | `Spec => []IInv` |
| `TypeCorrect` | `Spec => []TypeOK` |
| `NoWorkerLeaks` | `Spec => []NoLeakedWorker` |
| `QuietChannel` | `Spec => []ChannelQuiet` |
| `BeliefTrue` | `Spec => []BeliefIsTrue` |
| `NeverRevives` | `Spec => NeverRevived` |

The invariant has six parts beside `TypeOK`. `StartInv`, `TeardownInv`, `CallInv`:
which thread may be where in which state of the session, who holds the request
lock, and who still has a live worker to kill. `TagInv`: every request and answer
on its way carries an identity that was given out, and the one of the request
under way only belongs to that. `StrayInv`: what carries none is junk or the end
of a pipe. `TrafficInv`: while the session serves, at most one of request, work
and answer is in the pipes, the worker, the queue or the reader's hands, and none
of them between two requests; this fails the moment a session goes on after a
timeout, and so is what `ChannelQuiet` needs. `BeliefInv`: what the client
believes is true before it sends, stays true until the worker takes the request
up, and becomes true of whatever it may learn from an answer it accepts.
Finding it showed that `TypeOK` is false of a session with a single request
number, whose `stop` has no number left for its shutdown request (hence the
assumption `MaxRequests >= 2`; the code's counter has no bound), and that
`BeliefIsTrue` does not need the exception for a reader error that it had.

### The other components

`ProviderRegistryProofs` proves every property of the run `registry` for every
set of providers and targets and all surroundings (assumptions
`TargetsAssumption` and `WorldsAssumption`, nothing else):

| Theorem | Statement |
|---|---|
| `RegistryTypes` | `Spec => []TypeOK` |
| `KeysAreArmed` | `Spec => ArmedBeforeStored` |
| `PairsAreKept` | `Spec => []RequestKeepsPair` |
| `ReportsAreTrue` | `Spec => []ReportIsTrue` |
| `DeletionsAreComplete` | `Spec => []DeletionIsComplete` |
| `TargetsAreRequested` | `Spec => TargetsFollowRequests` |

The invariant is again a conjunction, with one lemma per part (`MarkStep`,
`KeyStep`, ...), each of which uses only the parts it needs:

* `RequestInv`: which requests come to which program points. `RequestBegins`
  reduces the three kinds of request to one statement, `Sound`.
* `MarkInv`: overlay within file, and the provider in the file from before its
  key is written until the last steps. This is what a crash falls back on.
* `KeyInv`: the key at each program point is that of before, that of the
  request, or none; no key is one for a target without authentication, or the
  gate of a blank key would look away from it.
* `RefreshInv`: while `alone` holds no refresh is between its answer and its
  save during a request, and none will write an old target back after it.
  `RefreshTargets` follows: such a refresh changes no target.
* `ListInv`: the list to be saved differs from the file in the provider of the
  request only.
* `GateInv`: what the gate found is still so when the configuration is saved.
* `DeleteInv`: what a delete has purged stays purged.

From these, `PairWhileBusy` says that a provider whose request is under way is
blocked unless its pair matches, which leaves `PairStep` the last step of each
request. All of `IInv` has also been run through TLC on the instance of
`registry`.

`CredentialHandoffProofs` proves, under the same assumptions and for any provider
served (`ServedAssumption`), `HandoffTypes` (`HandoffSpec => []HandoffTypeOK`) and
`PinnedKeysMeet` (`HandoffSpec => []PinnedKeyMeetsEndpoint`). The invariant `HInv`
follows the key: `BindingInv` — a forwarded key is bound to the authority it was
issued under, a pinned binding to that of the model; `RestInv` — while the registry
rests, the files are what the lease was authorized for, and the provider is not
blocked when the key is read; `LeaseInv` — a pinned key is the forwarded one, or
belongs to the model; `CommandInv` — a command compared with a fingerprint is the
model's. Key, binding and command then meet in the model. A step of the registry
touches none of this except that it ends the rest (`RegistryKeeps`), which is why
no invariant of the registry but its types is needed.

`PatcherProofs` proves, for any finite set of files and any patches over them
(`PatchAssumption`):

| Theorem | Statement |
|---|---|
| `TypeCorrect` | `Spec => []TypeOK` |
| `TreeExact` | `Spec => []TreeIsExact` |
| `RollbackExact` | `Spec => RollbackIsExact`: a failure that reports a complete rollback left everything as it was |
| `RevertComplete` | `Spec => RevertIsComplete` |
| `Refinement` | `Spec => ImplementsStore` |

The invariant says of an operation under way which files are written and which
are left (`Progress`): what is replaced has the target's content, what is not has
that of before, and as long as no restoration failed an undo leaves everything
but its remaining files as before; and that what it would put back is the tree
that the snapshot describes (`Recorded`). The
refinement maps a state in the middle of an operation to the store before it,
so that every step but the last is a stutter.

`RepairProofs` proves, for any patches, budgets and number of revisions
(`StoreAssumption`, `LimitsAssumption`):

| Theorem | Statement |
|---|---|
| `TypeCorrect` | `Spec => []TypeOK`, budgets included |
| `EvidenceCurrent` | `Spec => []EvidenceIsCurrent` |
| `CompletedIsResolved` | `Spec => []PipelineCompletesResolved` |
| `JournalCorrect` | `Spec => []JournalMatchesStore` |
| `DamageIsFinal` | `Spec => []DamageEndsTheRun`: a damaged tree is never worked on again |
| `CancelRespected` | `Spec => CancelIsFinal` |

Its invariant adds four parts to `TypeOK` and `EvidenceIsCurrent`. `Control`: where
the loop can be, and what a running tool was dispatched for, in particular that
its budget was there. `Store`: the tree is the active patch unless the run has
failed, and the candidate is the active patch if there is one (the converse is
disagreement 1). `Pipeline`: a stage relies on an active patch, and the last one
on resolved evidence. `Journal`: exactly one attempt is *applied* if a patch is
active, the last one unless the run failed, and none otherwise.

`CommandGroupsProofs` proves for any number of commands `TypeCorrect`,
`GroupsEnd` (`Spec => []NoGroupOutlives`) and `OrphansAreLaunches`
(`Spec => []OrphanOnlyInLaunch`). The invariant: which groups may have members
at which program point (`Place`), a request past its registration is registered
until it is clean (`Registry`), and groups of earlier commands that were cleaned
stay empty (`Quiet`).

`LocalProjectApplyProofs` proves, for any commits, sessions and threads
(`VerifierAssumption`, `ApplyAssumption`: the value for *none* is not one of
them, nor a session the owner's own edits):

| Theorem | Statement |
|---|---|
| `TypeCorrect` | `Spec => []TypeOK` |
| `CompletedProven` | `Spec => []CompletedHasProof` |
| `ResolvedGenuine` | `Spec => []ResolvedIsGenuine` |
| `VerifiedLands` | `Spec => []OnlyVerifiedLands` |
| `AppliesOnBase` | `Spec => []AppliesOnVerifiedBase` |

The invariant follows the evidence on its way. `OnPlan`: what the verifier
exports, works in and records is of the commit it was bound to, since it exports
only a commit that it has compared with that one, whatever HEAD is by then.
`Progress`: which results are there at which stage. `Places`: one session is live,
and the verifier's commit is that session's. `Working`, `LandsCertified`: threads
and tree know only sessions with a certificate. `HasRead`: what a thread has read
is so, or has changed since.

Only model-checked: the liveness properties (`SessionEnds`, `CallsReturn`,
`StopReturns`, `CancelEndsRun`, `CancelEndsCommand`), since they rest on fairness,
which is out of TLAPS' reach; and the statements of section 5, which TLC refutes.

## 5. Disagreements found

Each is a configuration in which TLC finds the statement violated. The first
two are runs of the project, with the quotes and their places in
`PROJECT.json`, `findings`; the others are checked by hand with the
configuration named (`tlc -config MCCancelBound.cfg MCSessionBoundary`).

1. `RetainedCandidateIsActive` (run `retained_candidate`): a second
   `APPLY_PATCH` takes the first patch out of the tree before its own is
   refused, and forgets to forget it. The source then retains the first as an
   active candidate (`local_project_source.py:322`), verifies it on a clone, and
   may report the session fixed by a patch that is not in the workspace and that
   the journal has as reverted.
2. `CancelledRunIsCancelled` (run `cancel_swallowed`): the cancellation error that
   the controller lets through is caught by the source as any exception
   (`local_project_source.py:314`) and becomes *controller failed*. A cancel in
   the middle of a repair is reported as *failed*, a passed deadline too.
3. `JournalFailureStaysFailed` (`MCJournalFailure.cfg`, `MCSessionBoundary`): an
   fsync failure on the terminal record is reported as `journal_error` and listed by the history as
   *succeeded*, while `journal.py:13` says that such a journal "must never be
   upgraded to success".
4. `DeadWorkerIsNoticed` (`MCDeadWorker.cfg`, `MCSessionBoundary`): on POSIX the live runner takes a
   dead, unreaped worker for a living one.
5. `StatusAfterStepSucceeds` (`MCPdbStatus.cfg`, module `PdbSession`):
   `get_target_status` of a target that a step has paused outside a breakpoint is
   taken for a violation of the protocol (`pdb_session_outcomes.py:296`) and kills
   the session, although `pdb_session.py:864` offers to "Advance to the next traced
   line". Only tests ask for the status today.
6. `WedgesOnlyAfterLadder` (`MCPdbWedge.cfg`, `PdbSession`): the pre-release notes
   (`docs/pre-release-hardening-2026-08-27.md:83`) have `stop()` wait for an orphan
   only after the kill ladder. With a worker that died by itself there is no
   ladder (`pdb_session_transport.py:122` returns early), the child keeps the pipe
   open, the reader stays in `readline`, and `close()` of the buffered pipe waits
   for it: for as long as the child lives. The join timeouts behind it are
   reached only afterwards.
7. `CancelIsBounded` (`MCCancelBound.cfg`, `MCSessionBoundary`): a cancel without a
   close is not followed by the grace period and the kill that
   `docs/architecture/local-application-v1.md:876` promises: the deadline is
   computed on entry to `wait()`, which the live runner has not reached.
8. `NothingLeftBeforeStart` (`MCBeforeStart.cfg`, `MCSessionBoundary`): the
   worktree of a Local Project session outlives a session that ends before
   `session.started` under the live runner; `worker.py:640` says nothing is left.
9. `TornTailIsInterrupted` (`MCTornTail.cfg`, `MCSessionBoundary`): a journal cut
   inside a character raises instead of reading as interrupted (`journal.py:243`);
   in the supervisor's reader thread the same exception ends the thread while
   the worker is healthy (`readerGone`).
10. `UsedAsTyped` (`MCFailedRollback.cfg`, `MCProviderRegistry`): a save that fails
    to store its key clears a quarantine that an earlier, crashed save left behind
    (`provider_management.py:198`), and the key of the earlier one is usable with
    an endpoint it was not typed in for.
11. `BlankKeyCarriesNothing` (`MCBlankKey.cfg`, `MCProviderRegistry`): by way of a
    target without authentication, two edits with a blank key move a stored key
    to another endpoint, past the gate at `provider_management.py:515`.
12. `ModelsFollowTarget` (`MCStaleCatalog.cfg`, `MCProviderRegistry`): a catalog
    that arrives after the endpoint was edited becomes the catalog of the new
    endpoint (`provider_catalog.py:764`).

Smaller things met on the way, which no property states:

* `stop()` may raise `ValueError` when another thread has closed the pipe between
  its look at the worker and its write, and then leaves the state `stopping`.
* The window of `OrphanOnlyInLaunch` (`command_transport.py:300`) is one that the
  docstring of `install_worker_request_group_cleanup` (`process_tree.py:394`) does
  not mention. Test commands and PDB workers have groups of their own that are
  never registered, so that a SIGTERM of the worker leaves them
  (`process_tree.py:16` says so in general).
* The tools run their test commands without a `cancel_check`
  (`local_project_tools.py:406`): a cancel waits for the command, up to 30 seconds,
  as long as the whole grace period of the supervisor.
* A test command that ends by itself may leave children behind in the workspace.
* A `git apply` that its timeout kills (`local_project.py:369`) is reported as a
  failure, though part of the candidate may be in the owner's tree; the next
  press is then refused for uncommitted changes.
* A `git worktree add` that its timeout kills (`local_project_git.py:354`) is
  followed by the removal of the directory only, so that a registration without
  a worktree may stay in the owner's repository.

## 6. What is not modelled

`PROJECT.json`, `components`, gives the reason for each part. In short:

* Data: payloads, paths, encodings, size bounds, diagnostics, liveness
  messages.
* The drain, reap and join timeouts of the supervisor firing; the capacity of
  pipes; the supervisor's own death.
* In `PdbSession`: a `stop()` concurrent with `start()`; what stacks, frames and
  expressions contain; the validation of scripts and breakpoints, which is one
  refusal.
* In `RepairSession`: the ledger of hypotheses, the proof gate and the limit of
  model calls (the product sets neither), the PDB tools (they only look),
  capabilities that are not granted, failing emissions, the artifacts written at
  the end. The verifier is one step there, with any verdict; `LocalProjectVerifier`
  has its inside.
* In `LocalProjectVerifier`: parsing of the patch and the limits of diagnostics;
  who may be cancelled by which token. In `LocalProjectApply`: two verifications
  at a time (the UI has one session), a repository that is replaced as a whole.
* In `CommandGroups`: Windows, where a job object replaces the group; processes
  that leave their group; reuse of process ids; the worker's group itself, which
  `SessionBoundary` ends in one step. PDB workers are in `PdbSession`.
* The inside of the other execution sources; of the gateway, what is not the
  resolution and transport of a model of the registry: requests, HTTP, parsing.
* In `CredentialHandoff`: keys from the environment, the CLI's store or session
  memory; the routes of CLIs, command profiles and the ladder; the order of the
  UI's own readings at a spawn (one thread, one step).
* In the registry: legacy records and their migration, session keys (nothing
  sets one), keys from the environment, the `enabled` flag (nothing clears it),
  a second application process, and a second refresh of the same provider (the
  screen starts one at a time).
* The two writes with which the history registers a session: see the plan.
* Screens, dialogs and the reductions for display, except that of patch attempts.
* Batch tools: evaluation, demo, comparison, benchmarks, research scripts. They
  are most of the lines of the repository, sequential, and not part of the
  program that ships; the models cover the concurrent and durable core.

## 7. The plan

Done, each with its runs and mutants: `SessionEvents`, `SessionWorker`,
`SessionBoundary`, `SessionVerdict`; `ProviderRegistry`; `CredentialHandoff`; `PdbWorker` and
`PdbSession`; `PatchStore` and `Patcher`; `RepairSession`; `CommandGroups`;
`LocalProjectVerifier` and `LocalProjectApply`; and the proofs of section 4.

Next, in this order:

1. `History`: the two writes of `register` against listing and crashes.
2. Its proof: `HistoryAgrees` with a `register` that may crash between its writes,
   from `ReportInv`.
3. A variant of `SessionBoundary` in which the bounded waits time out, and its
   composition with `CommandGroups` in place of the one step that ends a worker.
