# PortusOS runtime: TLA+ models, checks and proofs

This directory is a verification development for PortusOS: TLA+ modules
translated from the Rust source of the runtime (`src/runtime`) and from the
Python build scripts (`src/scripts`), TLC runs on small instances, and TLAPS
proofs, for every instance, of the invariants of the task engine, the event
streams, the protected API provider, the policy administration, the provider
and artifact registries, the system index with health recovery, the socket
servers with the state database and the audit file, release candidates, the
build contract's commands, the installer, the launcher of Master Portus and
visual control.
`PROJECT.json` is its index: components, runs, mutants, the map from definitions
to source lines, findings, hazards and theorems.

## 1. The system

PortusOS is an operating system distribution with a local control plane. Its
parts, the state they keep and how they interact:

| Part | State | Operations | Talks to |
|---|---|---|---|
| `portusd` (runtime daemon) | `portus.db` behind one state mutex; children map; event hub; policy and provider snapshots | JSON requests over a Unix socket, one thread per connection; `task.events.follow` streams | every crate below |
| task engine (`portus-task`, `portus-state/task.rs`) | tasks, attempts, execution relationships, `Child` handles | launch, associate, refresh, cancel, reconcile after restart | store, operating system processes, hub |
| events (`portus-state/event.rs`, `portusd/events.rs`, `unix.rs`) | per-object bounded log, subscriber channels | append/prune, publish, follow | task engine, streams |
| protected API provider (`portus-apid`) | credential table, provider definitions, audit file | use, show, list, provision, rotate, revoke, delete | policy files, upstream HTTPS |
| policy (`portus-policy`, `portus-privd`) | `subjects.d/<uid>.toml`, live snapshot | evaluate, grant, revoke, bundle set, execute | apid and portusd read its files |
| servers (`*/unix.rs`, `portus-client`) | sockets, connection permits, workers | bind, accept, serve, shut down | clients |
| provider registry (`portus-provider`, `portus-state/provider.rs`) | registrations with detail rows, resource references, tombstones | reconcile a manifest directory, apply a probe, list, page | manifests on disk, browser adapter |
| artifacts (`portus-artifact`, `portus-state/artifact.rs`) | artifact rows, holds, relationships, tombstones | register, reconcile, hold, clean up, forget, list | file system, provider registry, tasks |
| system index (`portus-index`, `portus-state/index.rs`) | observations, relations, source and runtime state | collect, reconcile, correlate, refresh, rebuild, query, topology | `/proc`, X11, i3, OpenRC, desktop files |
| health (`portus-health`, `portus-state/health.rs`) | observations, recovery attempts | observe, record, decide a restart | index, registry, probes |
| state store, audit file | `portus.db` with its migration history and copies; active file and archives | open, migrate, append, rotate | all daemons |
| visual control, browser integration | leases, grants, sessions | acquire, control, stop | desktop backend, browser |
| `portus-os`, `portus-api`, `portus-auth`, `portus-master` | none of their own | one request per invocation; launching a session | the daemons |
| installer, build harness, build contracts, Python scripts | files on disk, build records | staged installation, build stages, storage layout | external tools |

What is hard about it: operations of several durable statements under one mutex
that may fail, or crash, between any two of them while operating-system
processes change state on their own; streams that read pages of a log that is
being pruned; requests of `portus-apid` that take the store lock several times;
a policy whose truth is a set of files but whose decisions are taken in memory;
power loss between write, fsync, rename and directory fsync.

What makes each part correct:

- *task engine*: a task is called succeeded, failed or cancelled only when its
  process is gone and for the reason recorded; no process is lost track of;
  every started task ends;
- *events*: a follower misses nothing silently and is woken or timed out;
- *protected API*: a secret is used only while it is current, under the
  definition it belongs to, after an audit record, and answers are honest;
- *policy*: what is on disk always loads, confirmed changes survive, decisions
  follow the committed policy;
- *servers*: a serving daemon is reachable, the connection limit is never
  exceeded or leaked, every connection and every shutdown ends;
- *provider registry*: one active registration per type, removal only when a
  complete reading of the directory misses the manifest, nothing removed revives;
- *artifacts*: a verdict rests on what really was at the path, only cleanable
  content is removed, events and listings agree with the rows;
- *index and health*: what is shown as current is current, a handle names one
  resource for ever, queries are complete, the restart budget holds;
- *store and audit file*: a daemon serves only the schema it knows, every
  migration has its copy, the archives are the latest records in order;
- *build and release*: buildiso runs only on the frozen package set, a report of
  success is proven by its evidence, an accepted candidate is the sealed one, a
  plan adds up and hides nothing that is still open;
- *installer*: what an administrator wrote below `/etc` is never overwritten or
  removed, and the report of a run says what the run did;
- *launcher*: the logins of a user end in one session, and nothing in the
  workspace that the launcher did not make is changed;
- *visual control*: input and captures reach only the target that was asked for,
  while it is what the caller saw, and each of them is accounted for.

## 2. Modules

| Module | Models | Kind |
|---|---|---|
| `TaskEngine` | `portus-task/src/lib.rs` over `portus-state/src/task.rs` | state machine |
| `TaskContract` | the promise of the task life cycle (docs/TASKS.md) | abstract specification |
| `TaskEngineProofs` | invariants and refinement of `TaskEngine` | proofs |
| `EventStream` | `portus-state/src/event.rs`, `portusd/src/events.rs`, `serve_task_event_stream` | state machine |
| `ProtectedApi` | `portus-apid` core, store, authorizer, upstream | state machine |
| `ProtectedApiProofs` | invariants of `ProtectedApi` | proofs |
| `PolicyAdmin` | `portus-policy`, `portus-privd` core and repository | state machine |
| `PolicyAdminProofs` | invariants of `PolicyAdmin` | proofs |
| `ProviderRegistry` | `portus-provider`, `portus-state/src/provider.rs`, projection of `portus-browser-integration` | state machine |
| `ArtifactRegistry` | `portus-artifact`, `portus-state/src/artifact.rs`, artifact operations of `portusd/src/core.rs` | composition with `ProviderRegistry` |
| `RegistryProofs` | invariants of `ProviderRegistry` and `ArtifactRegistry` | proofs |
| `SystemIndex` | `portus-index`, `portus-state/src/index.rs`, index methods of `portusd/src/core.rs` | state machine |
| `HealthRecovery` | `portus-health`, `portus-state/src/health.rs`, health methods of `portusd/src/core.rs` | composition with `SystemIndex` |
| `ObservationProofs` | invariants of `EventStream`, `SystemIndex` and `HealthRecovery` | proofs |
| `StateStore` | `portus-state/src/store.rs`, `migration.rs` | component of `RuntimeServer` |
| `AuditFile` | `portus-audit/src/lib.rs` | component of `RuntimeServer` |
| `RuntimeServer` | `unix.rs` of `portusd`, `portus-apid`, `portus-privd` | composition of both |
| `RuntimeServerProofs` | invariants of `RuntimeServer`, `StateStore` and `AuditFile` | proofs |
| `RepositoryClosure` | package closure of `scripts/artix/context.py` | state machine |
| `NativeBuild` | the native build around it in `context.py` | composition with `RepositoryClosure` |
| `BuildIteration` | `scripts/build_iteration.py` | composition with `NativeBuild` |
| `BuildProofs` | invariants of `BuildIteration`, `NativeBuild` and `RepositoryClosure` | proofs |
| `ReleaseCandidate` | `portus-build/src/candidate.rs`, `validation.rs` | state machine |
| `BuildPlan` | `portus-build-contract/src/lib.rs`, the commands of `portus-build/src/lib.rs` | state machine |
| `Install` | `portus-install/src/lib.rs` | state machine |
| `MasterLaunch` | `portus-master` (`launch.rs`, `workspace.rs`, `system.rs`) | state machine |
| `VisualControl` | `portus-visual` (`controller.rs`, `model.rs`) | state machine |
| `HostToolsProofs` | invariants of the last five | proofs |
| `MCHostTools` | `ReleaseCandidate` and the four after it, one of them per behaviour | model values |
| other `MC*` | small instances of the rest | model values |

### TaskEngine

One engine operation is in progress at a time (the state mutex of `portusd`), so
`pc` names its next durable step. `st`, `relMode`, `relStatus` and `att` are the
columns `tasks.state`, mode and status of the execution relationship and the
attempt's outcome; `proc` is the operating-system process; `children` is
`TaskEngine.children`. Each durable call is one action with three outcomes: it
succeeds, it fails without effect (`"lost"`), or it commits and the read or
`notify_event` behind it fails (`"unreported"`); in the last two cases the
operation takes the `?` or error branch of the code. `process_exits`,
`process_dies` and `portusd_crashes` are the environment and may happen between
any two steps. `needs_reconciliation`, `restart_reconciling` and
`restart_interrupt` are `reconcile_after_runtime_restart`. Task titles, reasons,
timestamps and event texts are left out: no guard reads them.

`TaskContract` forgets attempts, relationships, failures and the runtime: tasks
move along the life cycle, and a verdict is given only when the task is not
live. `ImplementsContract` is the refinement with
`live <- {t : process of t runs}`.

### EventStream

`rows` and `last` are a task's retained events and sequence; `queued` counts the
wake-ups in a stream's bounded channel; each stream's thread goes through
subscribe, read, write, wait, and the final read after its idle timeout. Reading
runs `refresh_all`, so a read may itself commit events of exited processes. The
payloads of events are their sequence numbers. `ExitClosesStreams` asks for more
than the idle timeout gives: because the follower's own reads collect exits, the
task it follows becomes terminal and the follower gets the end frame, though no
other client asks; the ends it does not promise (a broken connection, a failed
read, a client that is behind) are named in the formula.

### ProtectedApi

Each request is a thread; a step is one store call, one decision or one audit
record, because the store mutex is released between them. A secret is identified
by the provider it was stored for and the request that stored it. `usable` and
`moved` are history variables for the properties. `Situations` names what
clients ask for and what else may happen in a behaviour.

### PolicyAdmin

`disk` is what the file system shows, `stable` what a power loss is sure to
leave, `unsynced` the files whose contents were never fsynced; the commit is one
action per system call of `commit_subject`. Grants are sets, because a validated
subject has no duplicate scope and the order of its grants is never read.
`holder` is the policy mutex. The executor runs outside it.

### ProviderRegistry

`regs` holds every registration ever made, in the order of its UUIDv7 id, with
the detail rows that `replace_provider_details` rewrites; a removed one is a
tombstone with its successor. A reconciliation is one action per transaction
(`job` is where it stands): read and validate the directory, register each
manifest, remove what is missing, store the status; it may stop at any of them.
A browser probe is captured in one action and applied in another, as the adapter
does. The pager is a client between two pages. Manifest text is reduced to the
fields validation compares.

### ArtifactRegistry

`op[c]` is a thread with what it captured under the mutex; looking at the file
and writing the verdict are separate actions, as in `reconcile_artifact` and
`cleanup_artifact`. Contents are model values and stand for their digests;
`seen` histories record what stood at each path. The environment rewrites and
deletes files, finishes tasks, removes providers and lets time pass. A thread
that pages through a listing records the artifacts its caller might read at every
page (`steady`), what the pages showed (`seen`) and what they showed although the
caller might not read it (`stray`); `MayRead` says who may, apart from the query
of `list_artifacts_visible`.

### SystemIndex and HealthRecovery

`calls[c]` is a request: the batches it has collected and those it has applied.
`world` is the machine (resources, the boot and the graphical session, and what
each collector is able to read). Applying is atomic per batch. `query` and
`topology` are operators over the tables, compared with a reference definition
in the states where no request is under way. A behaviour spends one `Budget`
(sequences of reconciliations, two at once, restarts, health requests, service
restarts). The providers' batch is what the registry holds: the registrations with
their capabilities, always recent, and the resources of providers, each with the
owner of its reference and as fresh as the reference is available
(`availability_freshness`). Such a resource is therefore stale or unavailable in an
index that is healthy, and `HealthyIsHonest` excepts it by name: what a caller of
a healthy index sees is recent, or it is a resource of a provider that the
registry itself called stale or unavailable when it was last read (`said`). The
batch's relations join a provider to its capabilities and to the resources that
are not unavailable. The supervisor that asks for the restart budget is external: the
repository holds the decision and its history, not the caller.

### RuntimeServer, StateStore, AuditFile

A daemon's main thread runs the calls of `bind` one by one (checks, opening the
store, restart work, probe, unlink, bind, permissions), then the accept loop;
`Budgets` lists scenarios. A connection has a permit (load and compare-exchange
are separate steps) and a thread that reads, with a time-out, and runs requests,
each reduced to the sequence of mutexes and audit records it takes. `StateStore`
keeps the rows of `schema_migrations`, the copies and the history of upgrades;
`AuditFile` one step per rename of a rotation. The three daemons differ in their
sequences of calls and in the admin socket.

### RepositoryClosure, NativeBuild, BuildIteration

Three layers of one build. The cache, its owner, the run's directories and the
evidence survive a crash; the ledger (`ev`), the working state and the mounts do
not. Error texts are the set of words that the classifiers search for. The
environment touches cached files, changes the repositories between databases and
downloads, interrupts and kills. `failing_stage` and the report validation are
the harness's independent reading of the evidence. The packing of packages into
batches is a recursive function over the sorted packages (`packed`, one
`add_to_batches` per turn of the loop); a package carries its place in the order
of the sort key (`rank`). Two things can make an entry of the ledger untrue, and
`LedgerMatchesCache` names both: another process changes a cached file
(`touched`), and the clean retry, which pacman gets when every file of a batch is
right and it still refuses, loses a file that is already `downloaded_verified`
(`spoiled`). In the second case the attempt no longer partitions what it asked
for, `record_package_progress_attempt` refuses it and the entry stays as it was
in the report of the failed run (`context.py` 1045-1140, 1427-1432); the property
says that the closure can then only fail.

### ReleaseCandidate

File contents are numbers and a hash is the content it was taken of. Commands
are runs of the CLI; those that write several files stop after any of them when
they are killed, and a killed write leaves `Torn`. Commands run one at a time.

### BuildPlan

A document of the contract graph is the facts its readers tell apart: what is
resolved, the numbers that are computed with, and flags for the fields that must
have one fixed value. A command first validates the whole graph, one action per
document read (`LineOf` gives the n-th one), and then reads again what it works
from; the authors may edit a document between any two reads. `reads` is what the
command has read so far. The checks of the artools adapter are among the
validation: they read the inventory and the services a second time, next to the
two profile documents (`validate_artools_profile_sources`), and refuse a service
without a name, an open role whose packages the image would carry, and layers that
hold other packages. A plan can therefore have an open role only of the build host
or of the classes that the image does not take from the distribution.
`calculate_disk_plan` keeps its checked `u64` arithmetic (`Fits`). A destructive
plan is prepared, shown and confirmed by its hash. The copying of
`stage-portus` is that of `Install`.

### Install

`stage` and `uninstall` go through the items of a manifest; each file operation
(look, copy to the temporary name, second look, removal, rename) is an action
that may fail or be the last one before the run is killed. An administrator edits
targets and the package is upgraded between any two of them. `edited` and `raced`
are histories: what an administrator last wrote, and the edits that fell into a
window that the code cannot see. One run at a time is assumed.

### MasterLaunch

`portus-bootstrap` and `portus-master` of one user run side by side without a
lock. Every check and creation of a path is an action, and so is every tmux
command; others may change a path between them. `found` and `intrusions` are
histories of the workspace.

### VisualControl

Several calls use the library at once. A call resolves its target from an index
observation, asks the policy, looks at the target, focuses it if it must, looks
again and acts; each call of the backend is an action, and the desktop changes
between them. `effects` records every capture and every input with what the
desktop really was at that moment.

## 3. Runs

| Run | Instance | Shows |
|---|---|---|
| `task` | 2 tasks, 2 principals, 1 failure, 1 crash | verdicts are true (`VerdictsAreTrue`), no single failure leaks a process, rows settle, refinement of `TaskContract`, cancellations and managed tasks settle |
| `stream_follow` | 2 tasks, 1 stream, retention 3, pages of 1, channel of 1, 5 events, 2 failures | no silent gap, complete ends, real gaps, no lost wake-up, streams close |
| `api` | 3 racing clients over 2 references with room for 1; or 2 clients asking anything with 1 failure and 1 restart; or 2 racing clients with 1 policy edit and 1 restart | secrets are current and match their definition, generations advance, audit before effect, honest answers |
| `policy_commit` | 3 requests, 2 subjects, 2 conflicting bundles, 1 failure, 1 crash or power loss | the policy loads, confirmed grants hold, memory follows disk, execution was allowed |
| `providers` | 2 types, 5 manifests (one smaller, one without sessions, one of user scope), 3 registrations, 5 events, pages of 1 | registry consistent through partial reconciliations, stale probes and paging |
| `artifacts` | 3 threads (the owner, another user and root), 1 path, 2 contents, 2 artifacts (private, shared or public), 3 operations, 3 clock values | evidence, events, cleanup rights, exact listings, final tombstones |
| `index` | 1 resource of each kind (a provider with a capability and a resource of the user), chunks of 2, scan bound 4, pages of 2; six budgets | current rows, honest health, backed instances, complete queries, stable handles, restart budget of 2 in a window of 3, also with a history that other recoveries push restarts out of |
| `server` | 2 daemons, 3 connections, 2 permits, 3 schema versions, 3 archives of one record; ten budgets | reachability, permits, drained shutdown, current schema, copies, audit order; connections and shutdowns end |
| `iso_build` | 1 run built up to twice, 2 mirrors, 2 packages, 2 repository states, 2 download attempts, 1 touched file | frozen closure at buildiso, honest ledger, cleanup, evidence and checksums |
| `host_tools` | five programs, one per behaviour. Candidate: 1 test, 1 evidence file, 1 imported group, 2 records, 2 edits, 1 supply, 1 killed command. Plans: 3 package roles (of the image, of the build host, of Portus), 3 first graphs (an open build-host role, a lock, a draft that is refused), 1 service, 1 edit, 1 command, 6 disk sizes around the limits, a `u64` of 300000. Installer: 1 binary, 1 configuration file, 3 manifests, 2 runs, 2 edits, 1 upgrade, 1 failure or kill. Launcher: 2 logins, 5 workspaces, 1 intrusion, 1 failure, 1 session that ends. Visual: 2 calls, 2 targets, 1 change of the desktop, 1 failure | accepted is real and its history verifies; plans add up and hide nothing; administrators' files stay and reports are honest; one session, workspace respected; only the requested target is touched, every action accounted for |
| `policy_conflict` | bundle changes only | violation: an invalid combination replaces a valid policy |
| `index_reappear` | a resource vanishes and returns | violation: reconciliation fails for good |

Bounds. Two tasks are enough for one task's failure to hit the bookkeeping of
another (`refresh_all` handles several completed children in one call); two
failures let a failure happen inside the handling of another. Three requests
are what the longest known race needs (use, delete, provision; a failed commit,
a commit from the stale snapshot, and a third party). Retention, page, channel,
chunk and archive limits are as small as they can be so that pruning, paging, a
full channel and a dropped archive all happen. Three registrations of two types
let one type be removed and installed again beside another; two threads are what
a stale verdict needs, and the third operation is the one that makes it stale.
The scenarios of `api`, `index` and `server` replace one large product of bounds
by several small ones: each lists what may happen together. Three connections
exceed two permits by one; two daemons are what a race for a path needs; three
schema versions leave one migration before and one after a crash. Two mirrors
and one batch limit give a recovered and a final failure. The programs of
`host_tools` get one failure, intrusion or change each, because a single event
opens each of their windows; its disk sizes lie on both sides of the thresholds
of `calculate_disk_plan`, and its `u64` is small enough for the checked
arithmetic to overflow. Every bound is a named constant. Deadlock checking is off where a finite number of requests or events
is eventually used up.

Several properties are conjunctions of named invariants that belong to one
question; each part is stated and explained on its own in its module:

| Property | Parts |
|---|---|
| `VerdictsAreTrue` | `ConfirmedStop`, `EvidenceBeforeVerdict`, `VerdictMatchesProcess` |
| `SecretIsRight` | `SecretWasCurrent`, `SecretMatchesDefinition` |
| `ClientSeesHistory` | `TypeOK`, `RetainedHistory`, `NoSilentGap`, `GapIsReal`, `EndIsComplete` |
| `StoreIsHonest` | `TypeOK`, `AnswerIsHonest`, `GenerationsAdvance` |
| `CommittedPolicyHolds` | `ConfirmedGrantHolds`, `LiveMatchesDisk`, `LiveAdvancesToDurable` |
| `AuthorityIsGranted` | `TypeOK`, `ExecutedWasAllowed`, `RootAuthorityAcknowledged` |
| `RegistrationsFitTogether` | `ProvTypeOK`, `UniqueActive`, `DetailsFitTogether`, `StatusMatchesRows`, `SuccessorChain` |
| `NothingRevives` | `RemovedProviderRefsDead`, `OneLiveGeneration` |
| `RowsAreBacked` | `ArtTypeOK`, `VerdictHasEvidence`, `RemovedWasCleanable`, `ResourceIsRegistered` |
| `ReadersSeeTheRows` | `EventsTellTheState`, `ListingIsExact` |
| `RunRecordIsHonest` | `BuildTypeOK`, `LedgerMatchesCache`, `CleanupIsHonest`, `SucceededIsProven`, `SumsMatchFiles`, `ReaderAcceptsWriter` |
| `CandidateIsReal` | `AcceptedIsReal`, `InitAllOrNothing` |
| `HistoryHolds` | `TypeOK`, `HistoryKept`, `HonestHistoryVerifies` |
| `IndexIsHonest` | `IdxTypeOK`, `CurrentRowsMatchSource`, `HealthyIsHonest`, `InstanceIsBacked` |
| `AnswersAreComplete` | `QueryMissesNothing`, `TopologyIsComplete` |
| `HealthRecordsHold` | `EventsTellHealth`, `RestartBudgetHolds` |
| `ServersHold` | `SocketsAreOwned` (`ServingIsReachable`, `StartsAlone`), `ThreadsAreCounted` (`ServerTypeOK`, `PermitsCountWorkers`, `ShutdownDrains`) |
| `FilesSurviveCrashes` | `ReadyIsCurrent`, `BackupsHold`, `AuditIsRecentHistory` |
| `PlansAreSound` | `BuildPlanTypeOK`, `DisksAddUp`, `PlansAreComplete`, `NothingOpenIsHidden`, `ReleaseWaits`, `ConfirmedAsShown`, `PreviewMatches` |
| `LaunchIsSafe` | `LoginsShareOneSession`, `WorkspaceIsRespected` |

`TypeOK`, `ChildrenMatchRows` and `OnlyOwnerCancels` of `TaskEngine` are proved
for every instance (section 4) and not repeated in a run.

Every property has a mutant: a plausible bug in a mapped definition (a dropped
guard, a missing fsync, an off-by-one) that TLC shows to violate it.

Fairness. `RuntimeFairness`: the thread that holds the mutex keeps running, the
kernel delivers SIGKILL, and portusd is started again after a crash (it is
supervised, docs/OPENRC_SERVICES.md:112). The engine has no thread of its own:
completions are collected inside client reads, so `ManagedTaskSettles` is
conditional on `WorkloadFairness` (processes end; some client keeps reading,
strongly fair because crashes disable reads). Stream threads run and
`recv_timeout` expires: weak fairness per stream. `RuntimeServer`: the main
thread of each daemon runs, among runnable worker threads some thread runs, and
some blocked read ends (workers set a read time-out). Clients send finitely many
requests: a client that keeps dripping bytes can delay a shutdown.

The two liveness properties of the task engine speak of behaviours without
statement failures (`faults = 0`): after one, a task may stay where it was.

## 4. Proofs

`TaskEngineProofs` proves, for every set of tasks and principals, every owner
function and all bounds, from the assumptions `OwnerAssumption`,
`IfStatesAssumption` and `BoundsAssumption` of `TaskEngine`:
type correctness, the three parts of `VerdictsAreTrue`, `ChildrenMatchRows`, `NoLeakedProcess`,
`QuiescentRowsSettled`, `OnlyOwnerCancels` and `ImplementsContract`.

None of the invariants is inductive by itself, because what a step may write
depends on what earlier steps of the same operation established. `IInv` adds:
`RowsInv` (which rows and processes go with each task state), `LaunchInv`,
`RefreshInv`, `CancelInv` and `RestartInv` (what holds at each `pc` of the
operation), `VerdictInv` (what an outcome says about the process), `LeakInv`
(with at most one failure so far, where a live process may be) and `SettledInv`
(with no failure so far, which rows are unfinished). The proof that `Next`
preserves it has one lemma per group of actions, with a step per action; the
refinement maps each action to `Advance`, `Judge`, `Spawn`, `End` or a stutter
from the same invariant.

`ObservationProofs` proves first, of `EventStream`, `TypeOK`, `ClientSeesHistory` and `NoLostWakeup` for
every number of tasks and streams, every retention, channel capacity, page
limit and set of resume points, from `SizesAssumption`, `ResumeAssumption` and
`StreamBoundsAssumption` (the sizes are positive, as the constants of the code
are). `ClientSeesHistory` speaks of what was delivered; that it stays true when
a page is written needs to know what the page held when it was read, although
commits and pruning go on meanwhile. `HistoryInv` therefore says of the log that
it is the unbroken run of the newest events (`LogInv`), of a page in hand that
it starts right after the cursor, has no hole and reaches the newest event of
its time unless it says that more follow (`PageFits`), and of a task that is over
that its log no longer grows (`ExitedAreOpen`). `StreamsInv` adds, for the
wake-ups, that a running stream is subscribed and that an event newer than the
page in hand has left a message in its channel.

`ProtectedApiProofs` proves both parts of `SecretIsRight`, `AuditedBeforeEffect` and `StoreIsHonest` for every set of requests, references
and providers, every credential limit and every store an earlier run could have
left, from `InputsAssumption`, `DefinitionsAssumption`, `StoreAssumption` and
`ApiBoundsAssumption`. A request takes the store lock twice, so `ApiInv` follows
what it knows in between: which kinds of request can be at each label
(`KindInv`), that an effect comes after the preflight record and before the
answer (`EffectInv`), that a secret in hand was active while the request ran and
fits the definition read earlier unless the reference was deleted (`SecretInv`),
the same of everything already sent (`SentInv`), and that a row's secret was
provisioned for the row's provider (`RowInv`). That a secret changes only with
its generation and only for UID 0 is proved of single steps from `ApiInv`.

`PolicyAdminProofs` proves `PolicyLoads`, `CommittedPolicyHolds` and
`AuthorityIsGranted` for every set of UIDs, actions and bundles, every limit on
grants and subjects and every number of failures, crashes and power losses, from
`RegistryAssumption`, `PoliciesAssumption`, `AskedAssumption` and
`PolicyBoundsAssumption` (the policy found at start loads, and every bundle is
valid: `validate_bundle` is a test of the registry). `PolicyInv` says that
whatever can be read back now or after a power loss is complete (`FilesInv`),
that the mutex has one holder (`LockInv`), how far the commit in progress is and
that its candidate still comes from the live snapshot (`CommitInv`), what a use
request knows of its decision (`RequestInv`), and that a confirmed grant is in
memory, in the files and in what a power loss leaves of them (`PromiseInv`).

`RegistryProofs` proves, of the provider registry, `RegistrationsFitTogether`, `NothingRevives`,
`PagingMissesNothing` and `OnlyMissingManifestsRemove` for every list of manifest
files, every content of them, every set of users and browser sessions and every
positive page limit, from `PageLimitAssumption` alone: the types of the
manifests' fields are derived, not assumed. `ProvInv` says of the registrations
of a type that only the latest can be active and that successors form a chain
(`RowsInv`), of the references that they belong to rows and tombstones stay
(`RefsInv`), what the browser adapter's probe and the reconciliation in progress
have found so far (`ProbeInv`, `JobInv`), and of a client that pages through a
listing that it has seen every entry up to its cursor (`PagerInv`).

The second half of the module proves `RowsAreBacked`, `ReadersSeeTheRows` and
`ForgottenIsFinal` of the composition with `ArtifactRegistry`, and that the
provider registry keeps its own two invariants there. It adds
`ArtifactAssumption`: requests have the shape the protocol gives them
(`Registrations`), every caller has a principal and the clock runs. How many
callers, paths, contents, tasks, holds and requests there are, and what the
requests say, is free. `RowsAreBacked` is not inductive, because a thread looks
at a file at one step and writes its verdict at a later one, when another thread
may have changed, removed or forgotten the row. `ArtInv` contains `ProvInv` and
says

- of each row that its verdict is justified by what stood at its path at some
  time, that only what may be cleaned was removed, and that its resource is in
  the registry (`Grounded`);
- of what a thread captured that it is a row that exists and differs from the
  present one only in the columns that change (`Captured`). From it follows that
  a verdict computed from the captured copy is justified for the row it is
  written to;
- of each thread what it knows at each point of its operation (`ThreadInv`, a
  disjunction over the operations);
- that references carry their first generation there (`FirstGeneration`), which
  the registry's invariant needs to survive the adapter's own references.

Everything in `Grounded` and `Captured` speaks of histories that only grow, so
one lemma (`ThreadsPreserve`) covers the threads that do not move in a step. The
pager of providers and that of artifacts share the lemma `PageCovers`. TLC
checked `ArtInv` on the instance of `artifacts`.

Of the index, `ObservationProofs` proves `IndexIsHonest`, `HandleIsOneResource` and
`HealthRecordsHold`, for any finite machine (`MachineIsFinite`: its resources
are finitely many, a window is on a workspace, capabilities and resources have a
provider; `RegistryIdentities`: their identities differ), any callers and budgets,
any interleaving of requests, collectors and restarts. The lemmas follow one
batch: its observations become rows (`ObservedRows`), what it did not see ages
(`UnseenRows`), its relations replace those of its source (`RelationsReplaced`).
The batches of a reconciliation are applied in order, so that what one batch
keeps all of them keep (`AppliedOK`, by the first batch that would not). `IndexInv` says of the tables

- that a handle and an identity each name one row (`Keyed`), which a batch
  preserves because it fails when an observation would give a second row to an
  identity;
- that a current row is of the generation its source was last seen in, is
  marked no fresher than the status of the source allows and, when the source is
  healthy, is recent or a resource of a provider that shows what the registry
  said of it (`RowOK`), also when another request's older batch arrives late;
- that relations join rows that exist, and that an index called healthy or
  degraded was correlated after its last batch, so that every recent instance
  has its process (`StateOK`);

and of a request that every batch it still holds is one a collector could have
returned (`RequestOK`). Handles are stable because every batch keeps the rows
(`Keeps`) and gives only new handles to new ones (`NewHandles`). `Tells` is the
invariant of health events. For the restart budget `RecoveryInv` says of every
restart that the history has it, or that it is older than the history may be, or
that as many attempts as the history holds were recorded after it
(`Remembered`): when the budget allows one more restart without a stable period,
fewer than the maximum of the restarts in the window are in the history, so one
of them was outranked (`BudgetUsed`, which counts with an injection). TLC checked
`IndexInv` on the instance of `index` before it was proved.

`RuntimeServerProofs` proves `ServersHold` and `FilesSurviveCrashes`, for any
finite set of connections, any number of daemons of each kind, any limit of
connections, any latest schema version, and any number and size of audit
archives. Its assumptions are `PermitsExist`, `SchemaVersions`, `AuditSizes`,
`ClientsAssumption` (numbers of connections and names of daemons are not the
values used for "nobody", and differ from each other) and `BudgetsAssumption` (what a start may find at the
paths and in the database; one version stands for every newer one, which the
code treats alike). No part of `ServersHold` is inductive by itself, because
each depends on how far every other daemon's start has come. `ServerInv` says

- that a start still has its steps in order, so that what is left of them says
  which sockets and which database the daemon holds already (`StartInv`);
- who owns each path, and that whom a rival's probe saw listening had lost the
  path or was leaving (`SocketInv`);
- that permits are threads, that the connection in the main thread's hands is
  the one it accepted, and that only a failed accept leaves a thread unknown to
  the drain (`ConnInv`);
- that the history in use has no hole, that a migration knows how far it is,
  and that while one daemon at a time is past the probes, its view of the
  history is exact and the copy it needs is complete (`StoreInv`). That a
  history without a hole is an initial part of the versions is shown with the
  least missing version.

For the audit files two parts more are needed, because threads write to them:
a thread has work only while its daemon is past the probes (`ThreadInv`), so that
while one daemon at a time gets past them no two processes rotate; and the files
are laid out for the rotation in progress (`AuditInv`). `FilesOK` says of a
rotation about to move file r that the files lie end to end in the history of
all records, that every archive is full, that the place the rotation fills next
is free, and that no more archives are missing before another one, or once
records were dropped, than rotations were cut short. Each of the steps of a
rotation (begin, drop the oldest, move one up, create and append) and its end by
an error or a crash keeps it in a lemma of its own. From it follows how
much a reader finds: a rotation in progress has one archive less, and its full
active file makes up for that. `Retained` is a `FlattenSeq`, a function that calls
itself; `FlattenIs` shows by the least position where they would differ that it is
the explicit function that starts and goes on alike.

TLC checked `ServerInv`, `ThreadInv` and `AuditInv` on the instance of `server`
before they were proved, the last also with fewer archives and larger files.

`HostToolsProofs` proves the properties of five programs that share no state.

- *Install*, from `InstallAssumption`: `AdministratorWorkStays` and
  `StagingIsHonest`, for every finite set of items, every set of manifests (valid
  or not), all contents and every number of runs, edits, upgrades and failures.
  Neither is inductive, since a run decides on a file at one step and replaces
  it up to five steps later. `InstallInv` says that the file in a run's hands is
  not one the administrator may rely on, and that its temporary file holds what
  was read (`WorkInv`), that a run works from a manifest that was validated,
  counts what it has done, and validated the policy files that nobody touched
  since (`RunInv`), and how each visited file was left (`VisitedInv`). That
  configuration is never the package's, and that eight decisions stay open, are
  lemmas about `validate_shape`.
- *MasterLaunch*, from `LaunchAssumption`: `LaunchIsSafe`, for every set of
  launchers and every workspace they may find. `LaunchInv` adds which paths a
  launcher has behind it at each step and that these stay good while others
  create, write and fail (`PathInv`), and that whoever means to attach has a
  session (`LoginInv`), also between `new-session` and the second `has-session`.
- *VisualControl*, from `VisualAssumption`: `ScreenIsRespected` and
  `CallsAreAccountedFor`, for every set of calls, requests, targets and
  desktops. `VisualInv` adds that a call under way passed every check, and that
  from its last look on its target suits it until somebody else changes the
  desktop (`CallInv`), that every effect was one of a call past acting
  (`EffectInv`), and that only calls that ended left records (`RecordInv`).

- *ReleaseCandidate*, from `CandidateAssumption` and `MarkersAssumption` (a
  missing or torn file is no result, no manifest and no seal): `CandidateIsReal`
  and `HistoryHolds`, for every finite set of tests, evidence files and groups
  and all bounds. The properties are not inductive: a killed command may leave
  the manifest of a result that never came beside the result before it, and then
  only the archive, which the recorder wrote first, still holds the evidence of
  the latter. `CandidateInv` says when anything can be recorded at all
  (`StageInv`), that a recorded result is current with its own manifest or
  archived with it (`RecordedInv`), that the command that runs has an attempt
  number and a result number nobody has, and has archived what it is about to
  overwrite (`ProcInv`), that without an edit or a kill whatever was hashed still
  fits, a growing command log included (`HonestInv`), and that SHA256SUMS and the
  seal agree (`SealInv`).
- *BuildPlan*, from `BuildPlanAssumption` (the documents have the shapes of the
  code's types, and there are finitely many roles): all of `PlansAreSound`, for
  any roles, services, documents, edits, disk sizes and commands. A command reads
  up to 32 documents one after the other, and what it says at the end is about
  all of them. `PlanInv` therefore says of the command in progress that it has
  read exactly the lines before its own and accepted each of them, that each is
  what the repository has as long as nobody edited, and that the report is that
  of the documents read once the lock was looked for (`ReadInv`). That an
  accepted document stays accepted when more is read (`AcceptedStays`) rests on
  the order of the lines (`LinesOfCommands`, `ReadBefore`): a document is only
  compared with earlier ones, and no line repeats. `EndInv` says how a finished
  command computed what it printed, and `HashInv` that a destructive plan carries
  its own hash and the owner's note that of the plan that was shown. From these
  follow, among others, that no edit opens the gate of a release candidate and
  that no validated document lacks a reason that the report takes for granted
  (`ReasonsAreGiven`).

The five inductive invariants were also checked by TLC on the instance of
`host_tools`.

`BuildProofs` proves `RunRecordIsHonest` and `BuildisoOnlyOnFrozenClosure`, for any
runs, files, databases, mirrors, caches, error texts and batch limit, and any
number of attempts, touches by other processes and builds started again. From
`ClosureAssumption`: a resolved closure is finite, with one file name and one
place in the order per package (pacman installs one package of a name), what
stands for an absent or a wrong file is no resolved hash, a cache
has an entry for every file, and the words the script uses when no mirror had a
file are its own. The properties are about what is left when everything is over,
and a build passes through some twenty places before. `BuildInv` says

- which of the harness, the outer and the inner process runs, and that only a
  build started by hand is one the harness does not wait for (`ProcessInv`);
- that an inner process that has not finished has no artifact, and that whoever
  reports success holds a result bound to the very report (`ProvenInv`);
- what each place of the closure has behind it: the anchor is the last mirror
  probed, the databases and packages are the frozen ones, no failure was written
  yet (`ClosureInv`);
- how the ledger, the audit, the batches and the attempts fit together while
  packages are fetched (`PlanInv`): the attempts are in order and each lists only
  files of its batch, the entry of a file is what the last attempt that asked for
  it said (`ToldByLast`), a batch behind the cursor ended with an attempt that
  passed and left nothing pending (`Done`), what is verified is in the cache
  unless another process touched it or the clean retry lost it (`CacheInv`), and
  a closure whose clean retry lost a file is about to record an attempt without it
  or has an error in hand (`SpoilInv`).

`ReaderAcceptsWriter` needs all of it: the harness recomputes the plan, the
counts and the verdict of every attempt from the report, and that each of its
conditions holds when the closure seals is the longest part of the proof. That the
batches of a plan are disjoint (`BatchesAreDisjoint`) rests on the order existing for
every finite set of packages (`OrderExists`) and on an invariant of the packing
loop, which is shown without an induction principle, by the least turn at which it
would fail. TLC checked `BuildInv` on the instance of `iso_build`. The
attempt to prove `CleanupIsHonest` showed that it was too strong with more than one
run, an instance that TLC does not reach: when the second build of one run is
over, a clean-up record of another run, whose own second build was killed, is
still the earlier one. The property now speaks of the run whose build ended.

Only model-checked:

- liveness, which is outside the prover's reach: `CancellationSettles`,
  `ManagedTaskSettles`, `ExitClosesStreams`, `EveryConnectionEnds` and
  `ShutdownCompletes`;
- `AnswersAreComplete` of `SystemIndex`: what the pages of a query add up to and
  what a breadth-first walk meets are folds and recursive functions over the
  tables, and to know them for every input takes an induction over data;
- what a recursive function computes for every input: in `BuildProofs` a plan
  of batches is proved to consist of disjoint batches of the pending packages, the
  part that the reports depend on (that the batches cover the closure is decided by
  `require_complete_verified_package_set`); that each pending package has a batch
  and that no batch of several packages exceeds the limit is not stated.

## 5. Findings

Two with a run that exhibits the behaviour (see "findings" in `PROJECT.json`):

1. A bundle selection that conflicts with another is refused and committed
   (docs/POLICY_IMPLEMENTATION.md:458; `policy_conflict`).
2. A resource that vanishes from the index and returns in the same source
   generation makes every later reconciliation fail, because the unique index on
   source, generation and identity also covers historical rows
   (docs/SYSTEM_INDEX.md:749; `index_reappear`).

Others met while modelling; the models behave this way and the properties are
stated so that they hold of the code as it is:

- A process that exits by itself just before `kill` is recorded as cancelled
  (docs/TASKS.md:1283), and a cancel call that fails after its first commit
  leaves a running task in `cancelling` (docs/TASKS.md:722).
- The event hub keeps subscribers of tasks that publish nothing more
  (`portusd/src/events.rs:184`).
- The number of subjects is bounded by the policy loader but not by mutations
  (docs/POLICY_IMPLEMENTATION.md:538).
- A reconciliation that captured an artifact before its cleanup turns `removed`
  back into `missing` or `available` (docs/ARTIFACTS.md:412). A hold placed after
  the eligibility check, or content replaced after the digest check, does not
  stop the deletion.
- The cause of a failed package acquisition may be taken from an attempt other
  than the last (docs/BUILD_HARNESS.md:662), and an interrupt while files are
  hashed produces evidence the harness rejects: `ReaderAcceptsWriter` leaves
  acquisition out.
- A second build of a run stops because its closure directory exists, after the
  cache was handed to `alpm` and before the block that hands it back
  (`context.py:1993`, comment at 2427).
- An interrupted harness waits 10 and 5 seconds and then seals the checksums,
  although the native build may still be writing: excepted in `SumsMatchFiles`.
- A release recorder killed between the two archive copies leaves an attempt
  without manifest that never verifies again; a torn `result.json` blocks its
  test; after `append_validation_command` verification fails until the result is
  recorded again. No lock keeps two recorders apart.
- In the index, the i3 batch is applied before the X11 batch, so the workspace of
  a new window appears one reconciliation late; a lookup by authoritative
  reference may answer with a historical row right after a reboot; an older
  collected batch may be applied after a newer one.
- The restart budget is checked and recorded under separate acquisitions of the
  mutex, and a clock that is set back loosens it. Other recoveries count toward
  the pruned history: once 32 attempts were recorded after a restart the budget
  forgets it, even within the window (the hypothesis of `RestartBudgetHolds`). A crash between a health row and its event loses the
  event: excepted in `EventsTellHealth`.
- Only the probe of the socket path keeps two daemons apart. Two that start at
  once over a stale socket can unlink each other's path (excepted in
  `ServingIsReachable`), both run restart reconciliation on the shared database,
  and the second may overwrite the copy taken before a migration. `Drop` removes
  the path whoever bound it. The accept loops of `portus-apid` and `portus-privd`
  drain the use socket before they look at the admin socket and the stop flag.

- At this commit the calamares contract must call its storage implementation
  `linux-verified` (`validate_calamares`) and `validate_repository` lists that as
  unresolved: the graph is never resolved for release and the gate of `build-iso`
  for a release candidate never opens. `prepare_destructive_plan` and
  `confirm_destructive_plan` are called by tests only. A document that is edited
  between the validation and the second reading can give a plan whose list of
  open facts, or whose profile, is not that of its packages, and an artifact that changes between
  `stat` and read a preview whose size is not that of its hash:
  `NothingOpenIsHidden` and `PreviewMatches` except those edits.
- The installer loses an edit that falls between its second look and the removal
  or rename, and a package-owned file is absent when the run is killed between
  the two. A killed run may leave its temporary file. Staging over an existing
  credential database fails after everything was copied; uninstall creates
  parent directories that are missing.
- A launcher that fails while it writes AGENTS.md removes it, although another
  launcher may have found it and gone on: excepted in `WorkspaceIsRespected`.
- A screenshot whose file cannot be used, and a call that is refused after it
  moved the focus, leave no audit record: `CallsAreAccountedFor` excepts the
  first and asks no record for the second.

## 6. Not modelled, and the plan

Next, in this order:

1. The storage engine of the installer and the staging of the first ISO.
2. What else a plan of batches promises (section 4), stated and proved.

Left out for good: parsers of system text, argument parsing, output formatting,
wire types, TLS, the text of rendered configuration files, licence and release tooling (no state, or external programs). Poisoned mutexes
are not modelled: a panic in a request ends only that worker.
