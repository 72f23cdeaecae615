# Codebase Atlas: TLA+ models and proofs

Codebase Atlas keeps an index of one repository (a Provider database, a sidecar
of Python registrations, a generation manifest and an index state) and answers
queries about it from several processes at once: MCP servers and CLI commands,
here called frontends.  This directory holds models of the parts of it whose
correctness depends on the order in which processes act, on crashes and on
errors, the TLC configurations that check them, and TLAPS proofs about them.

Paths below are relative to `src/src/codebase_atlas/`.

## The system

| Component | State | Operations | Talks to | What is hard | What makes it correct |
|---|---|---|---|---|---|
| Refresh transaction: `refresh_coordinator.py`, `refresh_recovery.py` | four files of a generation, journal, backups, staged files; per process the generation id and the registration index | `refresh`, `query_snapshot`, `recover_refresh_transaction`, `refresh_with_retry` | leases, Provider transport, registration store, service | a process can die between any two file operations; any of them can raise; rollback and recovery can too | one generation or the other, never a mix; a query reads the generation it names; the lease comes back |
| Locks: `lifecycle.py` | flocks: project lease (exclusive or shared), operation lease, Provider write lock | acquire, acquire_shared, release | every command | fairness of polling, release after a kill | exclusion |
| Planning: `refresh_planner.py`, `index_state.py` | manifest, index state | `plan_refresh`, staged manifest | transaction | the source moves while it is hashed; renames | a plan that finds nothing to do is right |
| Registrations: `python_registration_store.py`, `providers/python_registrations.py` | sidecar | staging, incremental update, load | transaction | reuse of unchanged records, dependents | incremental = full |
| Query service: `service.py` | registration index, continuation cache | query, continue, `activate_generation` | transport | eviction, tokens of older generations | a token continues its own result or is refused |
| Provider transport: `provider_transport.py` | child process, response queue, ids | start, call, close | Provider daemon | timeouts, late answers, reader threads that outlive their child | an answer belongs to its request |
| Lifecycle: `project_lifecycle.py`, `lifecycle_recovery.py`, `enable_transaction.py`, `routing_transaction.py` | lifecycle state, journal, ten artifacts, removal marker | begin, allow, accept, rollback, recover | commands | edits by users during a transaction, crashes | all or nothing, user edits preserved |
| Commands: `simple_cli.py`, `maintenance.py`, `onboarding.py` | none of their own | enable, update, stop, verify, remove | lifecycle, leases | checks made before a lock is taken; removal moves the data directory | one operation at a time |
| Frontends: `mcp.py`, `reloadable_mcp.py`, `cli.py` | selected backend, fingerprint | handle, boot | lifecycle, service | selection changes during a request | a request runs on the backend its state selects |
| Rust refresh: `rust_refresh.py`, `rust_refresh_recovery.py` | shard, manifest, state, journal | refresh, recover | leases | as the first row, with a different commit rule | as the first row |
| Releases: `release_installation.py`, `session_update.py`, `version_check.py`, `provider_migration.py` | versioned installations | install, select, migrate | commands | two installers at once | an installation is complete or absent |
| Language providers, configuration, assets, native scanner | none that is shared | parse, format | service | data processing | not a matter of order |

`PROJECT.json` lists every component with its sources, and every hazard at the
line where it bites with the properties that cover it or the reason why none
does.

## Modules

One module models one component; its constants choose what may fail and bound
the exploration, and every bound is a guard of the action it limits.

| Module | Models | Composed with |
|---|---|---|
| `RefreshTransaction` | the refresh of one project: disk, leases, and one action per file operation of a refresh, a rollback, a recovery, a query and a start | implements `GenerationStore` |
| `GenerationStore` | what that transaction promises: a generation is replaced whole, by the old one again or by a later one, never under a query | |
| `RegistrationUpdate` | the document of Python registrations and its incremental update | one refresh at a time, whose publication is one step |
| `QuerySession` | a session's queries, refreshes with retries and evidence caches, beside another process | a refresh inside its lease publishes or fails as a whole, which is what `GenerationStore` promises |
| `ContinuationCache` | the resumable TypeScript references and their tokens | |
| `ReloadingMcp` | the bootstrap of a host connection and its backend processes | |
| `ProviderTransport` | requests to the Provider child, its reader threads, the machine-wide lock | two sessions |
| `RustSession`, `SerenaSession` | the two analyzer children and the service's use of them | |
| `RustRefresh` | the publication of the Rust facts and its journal | two processes |
| `LifecycleJournal` | enable, update and stop: journal, the two in-process transactions, ten artifacts, a refresh beside a recovery | |
| `LifecycleCommands` | enable, update, stop, verify, queries and refreshes side by side with their leases | journal and refresh are one step each |
| `Removal` | remove, the recovery of an interrupted one, restoration by enable | |
| `ReleaseInstall` | concurrent installers of releases | two installers |
| `ProviderMigration` | `migrate-provider --apply` | |
| `SessionUpdate` | the update at session start and the child it runs | |

Theorems and their proofs are in modules of their own, described under *Proofs*:
`RefreshTransaction_proofs`, `RegistrationUpdate_proofs`, `LifecycleCommands_proofs`,
`LifecycleJournal_proofs` and `Removal_proofs`, each of which extends the module it is
about; `Frontends_proofs`, which extends `QuerySession` and has the theorems about
instances of `ReloadingMcp` and `ContinuationCache` too; `Providers_proofs`, which extends `RustRefresh` and has
those about instances of `ProviderTransport`, `RustSession` and `SerenaSession`; and
`ReleaseInstall_proofs`, which extends `ReleaseInstall` and has those about instances of
`ProviderMigration` and `SessionUpdate`.

`MCRefreshTransaction` and `MCRegistrationUpdate` give one module its constants.
The other MC modules explore several sets of constants, each called a
*scenario*: the initial state chooses one.  Each extends one module there are
theorems about (`MCRegistrations`: `RegistrationUpdate`, `MCLifecycleFiles`:
`LifecycleJournal`, `MCLifecycleCommands`: `LifecycleCommands`, `MCUpdates`:
`ReleaseInstall`, `MCFrontends`: `QuerySession`, `MCProviders`: `RustRefresh`), so
that the properties TLC checks are the formulas that are proved.  Every other
component they hold is an instance over variables of its own, and the behaviour
is one of `Scenario!Spec`.  A property says which
scenarios it holds in; where it is absent from one, a limit listed below is the
reason, or the scenario has not what it takes.  Modules that share an MC module
do not interact there, and need not: enable, update and stop run under the
operation lease that remove takes too; a project has one language and one
analyzer for it, and Rust facts are refreshed under the exclusive lease, while
no query runs; installers, migrations and session starts are commands of
different users; the bootstrap talks to its backend through a pipe only.  What
they do share is in a module that has both sides (a recovery and a refresh in
`LifecycleJournal`, a removal and a late refresh in `Removal`, commands and
queries in `LifecycleCommands`, two sessions at one lock in
`ProviderTransport`).  Variables of an
instance that is not at work have the value `Absent`, those of an extended
module stay as they begin.

### How `RefreshTransaction` corresponds to the code

A *generation* is four files.  `file[a]` is the number of the refresh that built
the content of artifact `a`, 0 when the file does not exist; `nextGen` numbers
the refreshes.  What a file says is irrelevant to the properties, whose refresh
wrote it is everything.

*Backups are hard links.*  `RefreshRecoveryJournal.begin` and
`ProviderDatabaseBackup.create` call `os.link`, so at the time of the journal
all backups of an artifact and the artifact itself are one inode.  `orig[a]` is
the content of that inode, `linked` the artifacts whose file still is that
inode.  `os.replace(backup, destination)` does nothing when both are the same
inode, and then leaves the backup behind: `RenameOver` and `FailProvider` say so.

*Staged files* have random names.  `staging` holds `<<kind, artifact>>` for a
candidate, a backup or a recovery backup somebody remembers, and
`<<"orphan", directory>>` for one nobody does.  The orphan cleanup of the
recovery goes by name prefix and directory and removes both kinds.

*The journal* is its phase, the artifacts that existed, and the two generations
it names; `_write_atomic` replaces it in one step.

*Leases.*  `owner` holds `ProjectRefreshLease` exclusively, `readers` share it.
A kill releases both, as the operating system does for `flock`.

*Processes.*  `pc[p]` is the next operation, `tx[p]` the local variables of
`refresh()` and the entries of the journal object in memory, `view[p]` the
generation id (`idx`), the generation of the registration index in the service
(`svc`) and whether the start deferred its recovery.

| Code | Actions |
|---|---|
| `cli.py` start of a frontend, `RefreshCoordinator.__init__` | `Boot`, `Construct`, then the recovery actions |
| `query_snapshot`, `_replace_status` | `QueryBegin`, `QueryRefused`, `QueryBind`, `QueryEnd` |
| `refresh()`, try block | `RefreshStart`, `PlanNoop`, `PlanRefresh`, `StageRegistration`, `LinkBackups`, `WriteJournal`, `BackupProvider`, `AdmitProvider`, `CallProvider`, `Advance` (every journal phase), `StageManifest`, `PublishSidecar`, `PublishManifest`, `RecordState`, `Activate`, `CommitStaged` |
| `refresh()`, except and finally blocks | `FailManifest`, `FailSidecar`, `FailState`, `FailBytes`, `FailProvider`, `FailStatus`, `Finally`, `RaiseFinally` |
| journal `rollback()` and `commit()`, `_restore`, `_discard` | `UndoOne`, `DiscardOne`, `UnlinkJournal`, used by a refresh and by a recovery alike (`tx[p].why`) |
| `recover_refresh_transaction`, `_cleanup_owned_stage_files` | `Recover`, `CleanupData`, `CleanupCache` |
| a coordinator of another project in the same cache directory | `ForeignCleanup` |
| an exception | `RaiseForward` (to the except block), `RaiseRollbackAction` (to the next guarded action), `RaiseRecovery` (to the status, or out of the constructor) |
| a killed process | `Kill` |

The `Provider` of one project is an external process.  `CallProvider` assumes of
it what the code does: it publishes the rebuilt database by replacing the file,
and its answer may be lost or refused afterwards (an exception at the next step).
A Provider that goes on writing after its client gave up is outside the model.

Two constants choose which failures an instance has: `Raising` is the set of
stages in which a step may raise, `Killed` the set in which a process may be
killed.  The stages are `forward` (up to the publication of the state; for kills the
finally block too), `published` (the activation), `commit` (discarding the backups),
`rollback` (the except block and the journal rollback it calls), `finally` (only
raised in), `recovery` and `idle`.

*The finally block.*  Of what it calls before it gives the lease back, the commits
swallow an `OSError`, and `close()` of a staged object unlinks its file if that was
neither published nor removed.  So `RaiseFinally` needs a file that the except block
could not unlink.  It leaves the process at `stuck`, with its lease.

Left out of `RefreshTransaction`: what source a generation was built from (so the
guards on `source_before` and `source_after` are exceptions that may always
happen), validation of the journal's fields (files are written atomically and
nobody else writes them), a second thread of one process (`refresh_in_progress`
changes nothing), the Provider write lock (it orders projects, and there is one),
and one step stands for `begin()`'s four links, whose partial failure discards
what was linked.

### The other modules

*`RegistrationUpdate`.*  `tree` is the repository's Python files, each reduced to
what the analyzer takes from it: the line of every function and the functions it
registers.  `document` is `python-registrations-v1.json`, `run` the refresh in
progress.  `Begin`, `Hash`, `Stage`, `Publish` are the steps of the refresh;
`Stage` computes `Incremental` (changed files, dependents of a changed file,
retained records, known targets, as in
`build_incremental_registration_document`) or, without a usable document, the
full scan.  `Edit` changes one file at any moment, `Damage` makes the document
one that `_load_document` refuses.  How a name is bound inside a file is
abstracted, and no package file appears or disappears (that would rename the
modules of unchanged files).  `ModuleOf` may give two files one module name, as
`a.py` and `a/__init__.py` have; the instances below have distinct ones.

*`QuerySession`.*  A source is a content of the repository.  `Ask` is
`McpServer` choosing the refresh a tool needs, `RefreshCurrent` to `RefreshDone` are
`refresh_with_retry` with the coalescing behind another owner (`Coalesce`) and the
deadline, `Snapshot` the binding under the shared lease (`Activate` drops caches
and registrations of another generation), `Structural`, `Semantic` and `Scan` the
evidence, `References`, `Callers` and `LocateFiles` the answers.  The evidence
records the sources it was read from and whether all of it came in time.

*`ContinuationCache`.*  `cache`, `index` and `bytes` are the LRU, the key index and
the byte counter of `AtlasService`; `Compile`, `Store`, `Follow`, `FollowStale`,
`Activate`, `Reopen` its operations.  A token carries its session, epoch, entry
and offset, and for the properties what its client has seen.

*`ReloadingMcp`.*  `Receive` to `Answered` are one request: config and lifecycle are
read one after the other, the backend in use is kept or replaced, the message is
written and an answer awaited.  `procs` is every backend ever started with its
pipes; `Tick` is a part of the 65 s a wait may last, `Takes` bounds what a backend
works on one request.  Closing a backend is one step.

*`ProviderTransport`.*  `child[s]` lists the children of a session, each with what it
has been asked, what it wrote, and its reader thread; `tr[s]` is the transport
(request id, queue, state of the call).  `Receive` applies the checks of
`_receive` in their order.  `Lingers` lets a reader outlive the second it is
joined for, `IdleExits` a child die between calls.

*`RustSession`, `SerenaSession`.*  The start, the handshake, the readiness wait, the
retries and the deadline of a query; the child loads, answers, prints and crashes
on its own.  In `SerenaSession` nothing but the order of the lines pairs an
answer with its request, as in the protocol; `Close` reads one line, and a stray one
(`ReadsStray`) ends it with the child alive.  `expired` of `RustSession` is a history
variable: a query of this analyzer waited for an answer until its deadline.

*`RustRefresh`.*  As `RefreshTransaction` for the four files shard, manifest, pointer
and state; `accepted` remembers the last generation whose acceptance point was
passed.  An interrupt between the write of the phase and the assignment
`accepted = True` is not a step of its own.  `LeaveRaises` is a finally block that
cannot unlink a staged file; the process keeps the lease.

*`LifecycleJournal`.*  Content of an artifact is who wrote it.  `Script` is the order in
which each command authorizes, publishes and marks.  `Publish` is a publication with the
look of `EnableTransaction.run` at the result (`Observe`).  Config and Codex file are
written in place: `Takes` says what is compared before (of a config device and inode,
of the Codex file nothing), `Truncate` and `Publish` are the two halves of the write, and
`ToWrite` what it puts there, which for a Codex file that changed since the command
began is the user's text with the block of Atlas (`Merged`).  `Raise` in between puts the
old text back, or with `CutWrites`, as `KeyboardInterrupt` and the creation of a config
do, leaves the file torn.  `UndoRouting`, `UndoProvider`, `UndoFile` are the in-process
rollback, `Check`/`Restore`/`Unlink`/`Rmtree` the journal's.

*`LifecycleCommands`.*  A command passes `Prepare` (what it reads without a lease: the
state, the release), `Lock`, `Lease`, `Check` and its publications; a request
passes `Gate`, `Acquire`, `Answer`, with `verify` holding no lease at all.

*`Removal`.*  One action per publication, unlink and rename of `remove_project`, of its
rollback, of `_recover_incomplete_removal` and of `_restore_removed_project`.
`late` is a process that looked at the project before the removal and asks for its
lease after it.  `Raise` is an exception before the effect of a step, `RaiseUnrecorded`
one after it and before the variable that the rollback reads is set, `RollbackRaises` a
step of a rollback that fails and is only reported.  `failed` collects the parts that
these leave behind, and the properties except exactly them.  A configuration that was
created and not fully written stands as if it were whole, a state that is missing as
`ready` (as `operational_lifecycle_status` takes it), and `Enable` is the only command
that follows on a project whose rollback left something behind.

*`ReleaseInstall`.*  The content of an asset is the edition it was uploaded with, -1
when it was damaged on the way; `Publish` and `PublishProvider` are the renames,
whose loser finds the destination.  Four downloads stand for five, and all
versions bring one version of the Provider.

*`ProviderMigration`.*  Who a file names (legacy or shared identity) and which source
the database was built from.  `Plan` is `plan_provider_migration`.  One process
writes at a time (docs/DAILY_USE_PLAYBOOK.md:115); writing the config is one step.

*`SessionUpdate`.*  The parent's wait, termination and kill of its child, and the
child's indexing in place (legacy) or refresh transaction (shared), which is
all-or-nothing unless it is cut off.

## Runs

| Run | Module | Checks |
|---|---|---|
| `Refresh` | `MCRefreshTransaction` | `TypeOK`, `PublishedUniform`, `SnapshotBound`, `LiveStagingSurvives`, `RecoverableAtRest`, `QueryReadsFrozenFiles`, `ImplementsStore` (refinement) |
| `RefreshLease` | `MCRefreshTransaction` | `LeaseReleased` (liveness) |
| `Registrations` | `MCRegistrations` | `NothingStale`, `NeverForgets`, `PublishedTogether` |
| `LifecycleFiles` | `MCLifecycleFiles` | `OwnWritesRecognized`, `AllOrNothing`, `ReportHonest`, `UserEditKept`, `NothingHalfDone`, `CommandsSettle` (liveness) |
| `LifecycleCommands` | `MCLifecycleCommands` | `OneGeneration`, `TransitionIsOwned`, `NothingOverwritten`, `CommandsEnd` (liveness) |
| `Updates` | `MCUpdates` | `PublishedWhole`, `NeverReplaced`, `MigrationWhole`, `ReportTrue`, `AllEnd` (liveness) |
| `Frontends` | `MCFrontends` | `QueryOfOneGeneration`, `AcceptedWasCurrent`, `StaleOnlyFromCache`, `AnsweredBySelected`, `KeptIsWhole`, `EveryRequestEnds` (liveness) |
| `Providers` | `MCProviders` | `OwnAnswers`, `NothingLeftBehind`, `AnswersOfGeneration`, `RestIsLastAccepted`, `AcceptedStays`, `FactsOfTheirSource`, `EmptyAfterDeadline`, `QueriesEnd` (liveness) |
| `FailedRefreshView` | `MCRefreshTransaction` | `RegistrationBound`, violated |
| `JournalRefreshRace` | `LifecycleJournal` | `OneIndexGeneration`, violated |
| `RegistrationIncremental` | `MCRegistrationUpdate` | `IncrementalIsClean`, violated |
| `UpdateAfterRollback` | `LifecycleCommands` | `StoppedStays`, violated |

Every module has a `TypeOK`, which says what the variables hold.  The run `Refresh`
lists that of `RefreshTransaction`; those of the other modules with theorems are
part of their inductive invariants and proved.

### Scenarios and bounds

`Refresh`: two frontends, exceptions up to the publication, two kills up to the
commit, one full refresh (`MaxGen = 2`).  Two frontends are what every race here
needs; a third repeats the second's part, because all work is done under an
exclusive lease.  Two kills are what it takes to kill a refresh and the process
that recovers it.

`RefreshLease`: exceptions in every stage but the activation, the finally block
included, no kill, `MaxGen = 2`, a project without Python (one staged file instead of
two), and a cache directory shared with another project whose orphan cleanup runs at
any moment (`ForeignCleanup`; fair).  A process that is stuck with its lease is the end,
so deadlock is not checked.

`Registrations`: *Updates* (two files, two edits), *Lines* (two positions of a
function, one edit, one damaged document), *Routes* (three files, one edit), each
from every initial tree, and an edit may fall inside a refresh.  One edit lets a
target move, appear or disappear; the second does so to a document that is an
incremental one already.  *Raise* and *Kill* publish the document as one of the
four files of `RefreshTransaction`: exceptions up to and including the
activation, or a kill anywhere, and `MaxGen = 3`, two refreshes, what it takes
for a process to fall behind.  Only in *Kill*, where nothing raises, does `PublishedTogether` ask for
`RegistrationBound`.

`LifecycleFiles`: *Killed* (`LifecycleJournal` as it is: two commands, two kills, an
exception, an edit, one artifact missing), *JournalRefresh* (a first enable beside two refreshes of
other processes, an exception, no kill), *JournalSettle* (two kills, an exception,
an edit at any moment; fair), *RemovalKilled* (three commands, two kills, an edit),
*RemovalRaised* (three commands, two exceptions, an edit), *RemovalSettled* (late
refreshes and updates, two kills, an exception, an edit; fair).  In the three of the
removal one step, in *RemovalRaised* two, may fail after its effect or in a rollback.

`LifecycleCommands`: two users and two clients.  *Failing* (three commands, one query
or refresh, two releases, an exception), *Killed* (two commands, one request of any
kind, two releases, an exception and a kill), *Sessions* (one command, two requests,
which is what readers and a writer of the index need), *Updates* (three commands and
three releases, no failure: a third release is what an overtaken update would take
back).

`Updates`: *InstallRaces* (`ReleaseInstall` as it is: two installers, two versions, a second upload, a damaged
download, a kill, digests known), *InstallDamaged* (one version, no digests,
no kill; fair), *MigrateKilled* (two kills, an edit, three attempts),
*MigrateInterrupted* (two interrupts before the commit of the backups, an edit, four
attempts; fair), *MigrateEdited* (three edits, one attempt), *SessionReports* (no
timeouts, two edits, two failures, three sessions), *SessionCut* (timeouts; fair).

`Frontends`: *ReloadSelects* (queries, two changes of the project, a crash),
*ReloadLate* (refreshes that outlast the wait), *ReloadEnds* (slow starts and
notifications too; fair), *Session* (`QuerySession` as it is: callers, file location
and refreshes, no update before a query, three generations, two edits, two requests), *SessionRetry* (failing refreshes and refreshes of
another process; fair), *SessionCaches* (references and callers, three requests),
*Pages* (two keys, page sizes 1 and 2, three stores into a cache that holds two
entries of four nodes together), *Clears* (three epochs).

`Providers`: *TransportLate* (reader threads that outlive their child),
*TransportExclusive* and *TransportShared* (two sessions at one lock; the latter fair),
*RustAnswers* (edits between queries, a crash), *RustEnds* (slow load, edits in a
query and reverts; fair), *SerenaAnswers* (two crashes, four queries),
*SerenaHeld* (a stray line; fair), *RustPublish* (two processes, three generations,
a kill and an exception anywhere, those of a rollback included, no edit),
*RustSettles* (one process, two kills but not of a rollback, an exception; fair),
*RustFacts* (one process, two generations, two edits).  The last and the first are
restrictions of `RustRefresh` itself.  `EmptyAfterDeadline` is asked of *RustEnds*, where
an analyzer may answer emptily for as long as it likes after it has loaded.

A property of an MC module that joins several properties of its components does so
because they are one promise to the user (what is reported is so; what is kept is whole; everything
ends); each part is a definition of the component's module with a comment of its own.

### Fairness

Always weak, always of steps a running process takes by itself, never of the
environment: nobody has to start anything, fail, edit or be killed.

* `RefreshLease`: `Continue(p)`.  No step of a lease holder waits for another
  process; in the code each is bounded by a timeout.
* *JournalSettle*, *RemovalSettled*: the steps of the command or recovery at work, and
  that the user runs a command again (`Recover`, part of `RecoverStep`): the promise is
  about the next command.  Also `RefreshStep`, a refresh that goes on.
* `LifecycleCommands`: `Step(u)`, the step of every user's command, and `Serve(c)`, that of
  every request; waiting for a lease ends with the lease or its timeout.
* *InstallDamaged*, *SessionCut*: the steps of the installer, of parent and child.
  *MigrateInterrupted*: also `Start`, that the command is run again.
* *ReloadEnds*: the bootstrap, the clock (`Tick`), each backend's next step.
* *SessionRetry*: the session's step and the passing of its deadline; the other
  process may keep the lease for ever.
* *TransportShared*: the session and its reader thread; the child may never answer.
* *RustEnds*, *SerenaHeld*: the steps of the provider with its timeouts; not the child.
* *RustSettles*: the steps of the process at work, and that a recovery is begun.

### What the code does not keep

Four runs expect a violation; `PROJECT.json` quotes the line each contradicts.

* `FailedRefreshView`: `_replace_failure_status` adopts the generation id on disk but not
  its registration index; the next query finds nothing to reload.
* `JournalRefreshRace`: the recovery of a killed enable holds the operation lease, not
  the refresh lease; a refresh beside it leaves a database of one generation and an
  index state of another.
* `RegistrationIncremental`: an edited file that registers a function of an unchanged
  file nobody registered before; the incremental update leaves it out, a clean
  rebuild records it.
* `UpdateAfterRollback`: an update recognises an unchanged project by its
  `operation_generation`.  A command that fails puts the old number back and the next
  one counts up to the same number again: an update that saw it in between takes
  the project for unchanged, and a stopped project comes back ready.

The following behaviours break a property of the models too.  The scenarios above
exclude them by the constant named; setting it shows the behaviour.

| Module: property | Constants | Behaviour |
|---|---|---|
| `RefreshTransaction`: `PublishedUniform` | `"published"` in `Raising`, `"rollback"` in `Killed` | an exception after `mark_state_published()` is rolled back although the journal means accept; killed half-way the mixture is accepted |
| same | `"published"` and `"rollback"` in `Raising` | an exception after the publication, and another in the rollback it causes |
| same | `"commit"` in `Raising` | `commit()` fails after it discarded some backups |
| `RecoverableAtRest` | `"recovery"` in `Killed`, two kills | `_restore` consumes the backup the journal names; no recovery can be repeated |
| `LiveStagingSurvives` | `SharedCache` | the orphan cleanup of one project deletes the live Provider backups of another |
| `LeaseReleased` without its exception | `"finally"` and `"rollback"` in `Raising` | a staged file is unlinked neither by the rollback nor by `close()`: the refresh ends with its lease and lock |
| `LifecycleJournal`: `UserEditKept` | `EditsInRestore` | a recovery checks the digests of all repository files and then restores ten artifacts; an edit in between is overwritten, although docs/LIFECYCLE_CONTRACT.md:53-55 says that user edits are preserved |
| `UserEditKept` without its last disjunct | an edit | a config edited in place is truncated (device and inode are compared), so is a Codex file edited after it was read |
| `UserEditKept`, `OwnWritesRecognized` | `CutWrites` | a write in place that is killed, interrupted by `KeyboardInterrupt`, or of a config just created leaves a torn file, which is then taken for a user's edit |
| `Removal`: `RemovedIsRestorable` | `KillsInRestore` | an enable killed while it restores a removed project |
| same | a kill and an exception together | receipt *removed*, marker *removing*, rollback killed |
| same | `Late` | a refresh or update that was checked before the removal recreates the data directory |
| `EnableCanRestore` | `MaxFailures = 1` | an enable restores a removed project and raises after it created the configuration, before it knows the identity of the file: the data go back, the configuration stays, and with it no later enable restores the project, although CHANGELOG.md:133-135 says one can |
| `UnmarkedIsWhole` without what `failed` excepts | `MaxFailures = 1` | a step of a rollback fails, or one that it does not know of took effect: the marker goes although the part is not back |
| `UserEditKept` | `EditsRace` | the identity of the configuration is compared, not its content |
| `RegistrationUpdate`: `NothingStale` | two files of one module | an incremental update gives a reference another file of the module than a clean scan |
| same | `Reverts` | the hashes before and after agree although the scan read an edit |
| `LifecycleCommands`: `UpdateKeepsStatus`, `Upgrades` | an exception | as the run `UpdateAfterRollback`; `NothingOverwritten` demands them while no command has failed |
| `StoppedIsQuiet` | a query, a stop | the gate is not looked at again under the lease |
| `PassMeansReady` | a verify, a stop | verify's first snapshot is taken after its look at the state |
| `ReadyIsAccepted` | an enable of a stopped project | *ready* is published before the acceptance |
| `OneGeneration`, asked of `"cli"` too | a one-shot query, a command | a one-shot query holds no lease; the property exempts it |
| `ReloadingMcp`: `FailsForCause` | notifications, or refreshes | an error for a notification is read as the next answer; a refresh is cut after 65 s |
| `OneBackend` | `initialize` longer than the wait | a backend whose start timed out is left running |
| `QuerySession`: `NeverStaleSuccess` | `"references"`, two edits | evidence cached from an edit that was taken back; `StaleOnlyFromCache` says which part of an answer this can be |
| `QueryOfOneGeneration` | `Failures` | as the run `FailedRefreshView`: the status names the published generation, the registrations in memory are older |
| `ContinuationCache`: `PageOfCheckedSource` | an edit | the fingerprint is read after the compiler has ended |
| `RustRefresh`: `RecoverySettles` | `KilledUndoing` | as `_restore` above |
| `PreservedIsWhole` | a kill and an exception | a failed recovery is reported as *preserved* |
| `FactsOfTheirSource` | `Reverts` | manifests before and after the scan agree although the scan read an edit |
| `LeaseReleased`, were it asked | an exception in the finally block | `LeaveRaises`: as in `RefreshTransaction` |
| `RustSession`: `EmptyMeansNone` | `SlowLoad` | empty at the deadline is returned as nothing found, and from then on at once; what is kept is `EmptyAfterDeadline` |
| `AnswersOfGeneration` | `EditsInQuery` | sources are compared before the request only |
| `StartedOnDemand` | a crash | `_rust_started` stays true |
| `SerenaSession`: `OwnAnswers` | `MaxNoise = 1` | after a stray line every answer is the previous one's |
| `OneChild`, closed after a stray line | `MaxNoise = 1` | `close()` reads the line, raises `ValueError` past its handler and leaves the child running |
| `ProviderMigration`: `NotStranded` | a kill | legacy config with shared lifecycle state: the plan is *blocked* |
| `OneIdentity` | interrupts at `commitRegs`, `commitMan` | the index state and the sidecar are not rolled back |
| `FreshMeansIndexed` | two attempts, an edit | the database left by a failed attempt is published under the current fingerprint |
| `SessionUpdate`: `ReportTrue`, `UnwindsOnTerm` | `Timeouts` | a child cut off after it published; a shared update has no handler |
| `FreshMeansIndexed` | `Timeouts`, `Reverts` | the database of an edit under the index state of the source it was reverted to |

An edit undone between two snapshots (A-B-A) is invisible to all this code; the models
exclude it (`Reverts`) or ask only of requests during which nothing was edited.

## Proofs

Eight modules hold theorems.  They are about every value of the constants: any
number of processes, users, files, installers or generations and any bounds.  The
only general assumption is `ConstantsOK` of each module, which types the constants
and keeps the value for *nobody* apart from the processes.  An assumption beyond
that is a hypothesis of the theorem and is named below, with the behaviour that
makes it necessary.

| Theorem | States | Assumes |
|---|---|---|
| `RefreshTransaction_proofs!TypeCorrect` | `TypeOK` | |
| `LeaseExclusive` | `LeaseInv`, exclusion of the refresh lease | |
| `QueriesReadFrozenFiles` | `QueryReadsFrozenFiles` | |
| `OneGeneration` | `PublishedUniform` | `NoLateRaise` |
| `QueriesAreBound` | `SnapshotBound` | `NoLateRaise` |
| `RefreshImplementsStore` | `ImplementsStore`: refinement of `GenerationStore` | `NoLateRaise` |
| `RegistrationsAreBound` | `RegistrationBound` | `NoRefreshRaise` |
| `LiveStaging` | `LiveStagingSurvives` | `~SharedCache` |
| `InterruptedIsRecoverable` | `RecoverableAtRest` | `~SharedCache`, `UndisturbedUndo` |
| `RegistrationUpdate_proofs!TypeCorrect` | `TypeOK` | |
| `RecordsAreCurrent` | `NothingStale` | `~Reverts`, `OneFilePerModule` |
| `OwnRecordsKept` | `OwnComplete` | `~Reverts` |
| `UpdatesRemember` | `NeverForgets` | `~Reverts`, `OneFilePerModule` |
| `LifecycleCommands_proofs!TypeCorrect` | `TypeOK`, with the owners of both leases | |
| `TransitionsAreOwned` | `TransitionIsOwned` | |
| `ReadsOneGeneration` | `OneGeneration` | |
| `ChangesAreKept` | `NothingOverwritten` | |
| `LifecycleJournal_proofs!TypeCorrect` | `TypeOK` | |
| `OwnRecognized` | `OwnWritesRecognized` | `~CutWrites` |
| `RefusedIsTorn` | `OnlyTornRefused`: what recovery refuses although the user did not touch it is torn | |
| `CommandWhole` | `AllOrNothing` | `MaxRefreshes = 0` |
| `RefreshTouchesIndexOnly` | `SteadyAllOrNothing`: the same of all artifacts but the index files | |
| `ReportsAreHonest` | `ReportHonest` | `MaxRefreshes = 0` |
| `UserKeepsEdits` | `UserEditKept` | `~EditsInRestore`, `~CutWrites` |
| `RefreshesApart` | `OneIndexGeneration` | `Undisturbed` |
| `Removal_proofs!TypeCorrect` | `TypeOK` | |
| `UnmarkedWhole` | `UnmarkedIsWhole` | |
| `EditsStay` | `UserEditKept` | `~EditsRace` |
| `RemovedComesBack` | `RemovedIsRestorable` | `Late = {}`, `~KillsInRestore`, `MaxKills = 0 \/ MaxRaises = 0` |
| `Frontends_proofs!TypeCorrect` | `TypeOK` | |
| `OneGenerationPerQuery` | `QueryOfOneGeneration` | `~Failures` |
| `QueryIsBound` | `BoundWhileQuerying`: what of it holds after failed refreshes too | |
| `RefreshedIsCurrent` | `AcceptedWasCurrent` | |
| `FreshButForCaches` | `StaleOnlyFromCache` | |
| `TruncatedNeverCached` | `WholeEvidenceCached` | |
| `ReloadingTypes` | `TypeOK` of `ReloadingMcp` | |
| `BySelected` | its `AnsweredBySelected` | |
| `PipeIsEmpty` | its `PipeEmptyAtSend` | no notifications |
| `OneAtATime` | its `OneBackend` | `Timely` |
| `OnlyDeathFails` | its `FailsForCause` | `Timely` |
| `OneAnswer` | `PagesOfOneAnswer` of `ContinuationCache` | |
| `OfTheirEpoch` | its `TokensOfTheirEpoch` | |
| `PagesAreFresh` | its `ServedFresh` | |
| `ReleaseInstall_proofs!TypeCorrect` | `TypeOK` | |
| `InstalledWhole` | `PublishedWhole` | |
| `InstalledStays` | `NeverReplaced` | |
| `ReportsTrue` | `OneWinner` | |
| `NothingLeft` | `NoResidue` | |
| `OneUploadEach` | `OneUpload` | `HasDigests` |
| `MigrationTypes` | `TypeOK` of `ProviderMigration` | *Interrupts before commit* |
| `ConfigNames` | its `ConfigNamesPublished` | `InterruptAt = {}` |
| `MigratesWhole` | its `OneIdentity` and `NotStranded` | *Interrupts before commit*, `MaxKills = 0` |
| `MigrationIsFresh` | its `FreshMeansIndexed` | *Interrupts before commit*, `~SharedIndexed`, `MaxRuns = 1` |
| `SessionTypes` | `TypeOK` of `SessionUpdate` | |
| `SessionReportsTrue` | its `ReportTrue` | `~Timeouts` |
| `SessionIsFresh` | its `FreshMeansIndexed` | `~Reverts` |
| `Providers_proofs!TypeCorrect` | `TypeOK` | |
| `RestsAtAccepted` | `RestIsLastAccepted` | |
| `PointersLoad` | `PointerHasShard` | |
| `AnswersAreTrue` | `AnswersTrue` | |
| `AcceptedIsKept` | `AcceptedStays` | |
| `FactsAreLabelled` | `FactsOfTheirSource` | `~Reverts` |
| `TransportTypes` | `TypeOK` of `ProviderTransport` | |
| `OwnAnswer` | its `AnsweredByOwnChild` | |
| `LockFollowsChild` | its `LockGoesWithChild` | `"free"` is no session |
| `OwnFailures` | its `FailsForOwnReason` | `~Lingers`, `~IdleExits` |
| `AnalyzerTypes` | `TypeOK` of `RustSession` | |
| `AnalyzerHeld` | its `NoOrphan` and `Held` | |
| `EmptyIsLate` | its `EmptyAfterDeadline` | |
| `AnswersAreOfGeneration` | its `AnswersOfGeneration` | `~EditsInQuery`, `~Reverts` |
| `SerenaTypes` | `TypeOK` of `SerenaSession` | |
| `SerenaHeld` | its `OneChild` and `StartedIsHeld` | |
| `SerenaOwnAnswers` | its `OwnAnswers` | `MaxNoise = 0` |

`ReloadingMcp`, `ContinuationCache`, `ProviderTransport`, `RustSession`, `SerenaSession`,
`ProviderMigration` and `SessionUpdate` declare no assumption of their own; that their
constants have the types they are meant to have is the hypothesis of their theorems:
`Bounds`, `AnswersAreFinite`, `MaxCalls \in Nat`, `AnalyzerBounds`, `SerenaBounds`,
`MigrationBounds` and `SessionBounds`.

The assumptions:

* `NoLateRaise`: no step raises in the stages `published` and `commit`.  Kills are not
  restricted.  An exception there undoes what the journal has accepted (see the
  limits above).
* `NoRefreshRaise`: no step of a refresh raises, so that no except block is entered; a
  rollback or a recovery may, and kills are not restricted.  With it the status adopts
  a generation without its registrations (`FailedRefreshView`).
* `UndisturbedUndo`: `NoLateRaise`, no exception in a rollback or a recovery, and no
  kill in either.  `os.replace` consumes the backup it restores, so an undo cut short
  leaves a journal that names a backup which is gone.
* `~SharedCache`: no other project has its Provider databases in the same directory.
* `~Reverts`: no edit brings back a content that was there before while a refresh is
  reading.  Every such refresh compares a look before with a look after.
* `OneFilePerModule`: no two files have one module name.
* `HasDigests`: the release API names a digest for every asset.
* `~CutWrites`: nobody is killed or interrupted between the truncation or creation of a
  file that is written in place and its last byte.  Such a file is neither what was there
  nor what was authorized; `RefusedIsTorn` says that, the user's own doing apart, this is the
  only way to be refused.
* `MaxRefreshes = 0`: no other process refreshes during the command.  One that does
  moves the index files under the recovery (`JournalRefreshRace`); it moves nothing
  else, which is `RefreshTouchesIndexOnly`.
* `Undisturbed`: no command is killed, no repository file is edited under one, at most one
  step raises in all, and of the three index files that must agree all are there at first
  or none.  A command that comes to its end holds the refresh lease throughout; what
  interrupts it leaves a journal, and the recovery of that takes no refresh lease.
  Without it `JournalRefreshRace` is the counterexample.  How many commands and refreshes
  there are is not restricted.
* `~EditsInRestore`: the user does not edit between the check of the digests and the
  end of the restoration, which looks at them once.
* `Late = {}`: no refresh or update that looked at the project before its removal asks
  for its lease under it.  It would create a data directory in the place of the one
  moved away.
* `~EditsRace`: an edit of the configuration changes the identity of the file.
* `~KillsInRestore`: nobody is killed while a removed project is restored, which
  keeps no journal.
* `MaxKills = 0 \/ MaxRaises = 0`: a removal may be killed or fail, any number of
  times, but not both.  One that raises after its receipt says *removed* is rolled
  back; killed in that, the next command takes the receipt at its word.
* `~Failures`: no refresh of the session fails (`FailedRefreshView`).
* *No notifications*: nobody waits for the answer of a notification, and one that the
  backend answers with an error leaves it in the pipe, where the next request reads it.
* `Timely`: nor are there notifications, and a backend takes less than the wait for every
  message, `initialize` included.  One that is slower at its start is left running by the
  constructor that raises; one that is slower later is given up for another.
* `"free"` is no session: the value of a free lock.
* `~Lingers`: a reader thread ends within the second it is joined for.  One that does
  not may put the end of its own child in the queue of the next.
* *Interrupts before commit*, `InterruptAt \subseteq BeforeCommit`: a migration is
  interrupted at any step up to the recording of the index state, but not while it
  removes the backups, which its rollback would need, nor in the rollback.
* `InterruptAt = {}`: it is not interrupted at all.  Rollback restores one file after
  the other, the config not first.
* `MaxKills = 0`: it is not killed.  A kill leaves the rollback out.
* `~SharedIndexed`, `MaxRuns = 1`: there was no shared database, and the command runs
  once.  A sound database that is there already is published without being rebuilt.
* `~Timeouts`: the child of a session start takes less than the time it is given.
* `~IdleExits`: no child dies while no request waits for it; the next call would find
  what its reader left there.

### `RefreshTransaction`

`PublishedUniform` is not inductive: a step that removes the journal must know what
the files hold.  `GenerationInv` says it:

* `JournalInv`: unless a journal in a phase that will be rolled back is on disk, the
  files are uniform.  While there is any journal, the backups (`orig`) are uniform,
  and the artifacts it says existed are those with a backup.
* `ProcessInv(p)`: what the location of the owner adds: before the journal
  `orig = file`; after the call of the Provider the files replaced so far hold the
  candidate; in a rollback the files undone so far hold their originals; when the
  backups are discarded all of them do.
* `LeaseInv` makes the owner unique, so that no other process disturbs this, and
  `TypeOK` types it.

A kill leaves `JournalInv` alone and forgets the process; this is why the
invariant speaks of the disk separately from the process.  `SnapshotInv` adds what
binds a query: an admitted query has the manifest's id in memory and there is no
journal, the candidate a process activates is the manifest's, and once any process
knows a generation the project stays indexed (`Durable`), so that a manifest that is
absent cannot be mistaken for the one in memory.

`RegistrationsInv` is about the registrations in memory.  Whoever activates a generation
does so while the files agree, which `GenerationInv` knows; what is left are the places
where a generation is adopted without its registrations.  A start loads registrations
before it knows any generation; a recovery that fails falls back to no generation,
because the refresh that ran it has not planned yet.  Only the except block remains.

*The refinement.*  `GenerationStore` promises that a published generation is replaced
by a later one.  Neither invariant above says which of two generations is later, nor
that the generation a journal names is the one its backups hold; `OrderInv` does, and
`StoreInv == GenerationInv /\ SnapshotInv /\ OrderInv`.  Each step of the lease holder
is then a stutter, or the step that leaves the covering journal behind it (the
publication of the state, or the removal of a journal that was rolled back), and
every step of another process is a stutter or a step of a query.

*The staged files.*  `StagedInv`: a process that cleans up has nothing staged itself,
and what a live refresh holds is there; exclusion of the lease then gives
`LiveStagingSurvives`.  `BackupInv`: while a journal would be rolled back, and nobody is
doing so at the moment, every backup it names is there; a refresh that writes one,
its except block, and each step of an undo say which backups remain.

### `RegistrationUpdate`

The lemmas say what the pure operators return: what a scan finds describes its tree
(`ScanSound`, `ScanOwn`, `ScanComplete`, `ScanIs`), a retained record belongs to an
unaffected file (`RetainedUnchanged`), and from them that an incremental update of a
document that is good for the old files is good for the new ones (`UpdateIsSound`,
`UpdateKeepsOwn`, `UpdateRemembers`).  Files may change in any way, so these are statements
about two arbitrary trees, no induction.  `RegistrationInv` carries them through the
refresh: as long as the tree is the one the refresh began with (`Unedited`), its
hashes are those of that tree and what it has staged is good; an edit ends
`Unedited`, and `Publish` refuses without it.  `OneFilePerModule` is not needed for
what a file registers of itself.

### `LifecycleCommands`

`LifeInv` says what a command knows where it is: it has looked at the state under the
operation lease, the state it publishes on top of is the one on disk, and there is a
journal from the moment it has begun something.  `ReadInv` adds who holds the
refresh lease and that readers and a writer exclude each other, from which a
reader's generation stays the index.  `CalmInv` is about updates while no command has
failed: the state an update has read is older than the one on disk or is the one on
disk.  It is a condition (`Unfailing`) inside the property and the invariant, not an
assumption: with a failure this part is false, as `UpdateAfterRollback` shows, and
`Follows`, the rest of `NothingOverwritten`, is proved with failures and kills.

### `LifecycleJournal`

A command is a script over ten artifacts that differs from command to command; of
the scripts the proof uses only `WellPlaced` (nothing is published before it is
authorized, nothing twice, the mark is on the state that was published), which is
shown once by looking at each.  Then `JournalledInv`, for a journal that stands:

* `PlaceInv` says where a process is and what phase that takes, `TxInv` what the
  two transactions in the process remember, and `JournalInv` what the journal
  allows: of each repository file what it was and what the steps taken so far
  authorized.
* `OwnInv`: each repository file is one the journal allows, the user's, merged with the
  user's, or torn, and what a write in place has read (`tx.read`) is one of these but torn.
  This and not `OwnWritesRecognized` is inductive, because the write comes after the
  permission, and what is put back after an exception is what was read.
* `SavedInv`, `ProgressInv`, `OutcomeInv`: what is saved is what was there before, what
  has been published, and how far a restoration has come.  They speak of the
  artifacts that no refresh touches (`Steady`), which are all of them when there
  are no refreshes; this is how one proof gives both theorems.
* `RestoreInv`: while a restoration writes, what the user wrote is what it writes.

`RefreshesApart` goes through four invariants more.  `OursInv`: no file is the user's, so
`ExpectedInv`: the transactions of the process find what they expect, and what they authorize is
what the journal does.  `LeaseInv`: a rollback then restores every file and leaves no
journal, and whatever works has the lease, so a refresh only runs when nothing else does.
`IndexInv`: of the index files, a command publishes all or none (shown by looking at
the scripts, `AllIndexed`), a rollback restores all, and a refresh replaces all.

### `Removal`

`WholeInv` is about four ways through one project: forward (`Removing`), the rollback in
the process, the recovery of an interrupted removal, and the restoration with its
own rollback.  `MarkerInv` says which of them the marker on disk lets run, `RecordInv`
that what memory and receipt keep is a state worth going back to, `LifeInv` and
`HomeInv` where the lifecycle state and the data directory are, `RollbackFiles` and
`RecoveryFiles` that a file which is missing is one still to be written or one that
`failed` names: every such statement is about one part and excepts that part only, so that
a rollback step that fails disturbs what is said of its own part and nothing else.  This
is why `UnmarkedWhole` needs no hypothesis.  The types,
with the parts they need, are inductive alone (`Types`), so `TypeCorrect` has no
hypothesis.  `EditInv` (what the user wrote is there, and nothing is recovered that
was edited) gives `EditsStay`.  `RemovedIsRestorable` goes the other way: `ForwardInv` says
how much is gone, `StatusInv` that only a removal that came to its end says so in
its receipt, `RestoreInv` what the rollback of a restoration has still to take away.

### `QuerySession`

`BindInv`: a session that queries holds the shared lease, so the generation it is
bound to is the published one until it answers.  `SeenInv` relates what a request
remembers of the repository to what it is: it has seen the present source, and no
other if nobody edited meanwhile; `EvidenceInv` says which of the sources it has seen
each piece of evidence can be from.  `CacheInv` keeps what the clock cut short out of
the caches: a reference search asks the semantic runner only after a whole scan.
`ViewInv` (registrations in memory and the frontend's graph are of the generation that
the status names) needs that no refresh fails and is apart from the rest for that
reason.

### `ReleaseInstall`

`InstallInv`: an installer past its verification has assets that fit together, one that
renames names the Provider the store holds, a result describes what is there, and no
two results are new.  Only the two renames and the cleanup change what others see;
for every other step `Keeping` says that the installers do not disturb each other.
`UploadInv` adds, with digests, that the assets are of the edition whose listing was
fetched.

### `ProviderMigration` and `SessionUpdate`

A migration has three invariants, one for each thing that can cut it short.
`ProgressInv` says how far publication is at every step, whatever earlier attempts left:
the sidecar, the manifest and the state are shared before the config is.  With kills
only, that and `NamesInv` are `ConfigNames`.  With interrupts only, `IdentityInv` says
that `Restorable` holds until commit: what `did` marks has a legacy backup, and what it
does not mark is legacy still; the rollback then ends in `Legacy`, and a later attempt
starts from there.  `FreshInv` follows the single snapshot of the only attempt from
`before` through the database to the index state.

For `SessionUpdate`, `ReportInv` says that up to its last write the child leaves sidecar
and index state as the session found them (`AsFound`) or holds the backup that brings them
back, and that what it ends with is so; without a deadline the parent reads nothing else.
`AgeInv` orders the three states that are numbers: the index state is not newer than the
database, nor the database than the source.  If the index state is equal to the source,
the database is too; that is `FreshMeansIndexed`, and needs that numbers only grow.

### `RustRefresh`

`RestIsLastAccepted` needs what the files are while there is a journal.  `RustInv`: without
an open journal every file is the accepted generation; with one, each is the
accepted generation or the candidate, and has its backup or is the accepted one
already (`Undoable`).  The renames of an undo consume the backups one by one; if it
is cut short, what it has undone is covered by the second alternative.  The journal
then stays, and whether a later recovery can remove it is `RecoverySettles`, a liveness
property with a limit listed above; but no file passes for accepted that is not, and no
exception or kill has to be excluded.  `ProcInv(p)` adds the progress of
the process at work, whose lease makes it the only one.  `FactsOfTheirSource` has an
invariant of its own, `FactsInv`, on the sources the candidate was compared with.

### `ReloadingMcp`

What the bootstrap has read for a request is no older than the request (`OrderInv`), and a
backend in use was started for the lifecycle state that was read and has read a config no
older (`BackendInv`); that it takes its config when it initializes, after its start, is
what makes this more than an equality.  `BySelected` follows without any word on the
pipes, which is why it holds for slow and dying backends.  `PipeInv` is for these: a
backend waited for owes exactly one answer (`Owes`: unread, in work or in the pipe) and
the one in use owes nothing otherwise.  Under `Timely` the clock of the wait is that of
the work (`TimeInv`), so a wait ends with the answer or the death of the backend, and no
backend but the one in use, or being started, is alive (`OnlyInv`).

### `ContinuationCache`

An entry is never changed, only moved, dropped or put, so `EntryInv` says that each is the
whole answer of one source; for every operator on the cache it is enough that what is
left is out of what was there (`OutOf`).  `TokenInv` ties the tokens to it: what a client
has seen on its way to a token is the beginning of an answer, and if the entry of the
token is still there it is of that one, and of the present epoch.  This holds because an
id is given once, which the mutant `IdOfPrevious` gives up.

### `ProviderTransport`

`IdInv`: request ids grow and are not given twice, and everything a child was asked or
wrote, and everything in the queue, has an id below the next; so whatever has the id
waited for is of the child in use.  This is all `OwnAnswer` needs, however long a reader
thread of an earlier child lingers.  `OwedInv` adds that the one request a child has is
the one waited for.  `HolderInv` says at which steps a session has the machine-wide lock:
from its admission to the end of the handshake, or, when the Provider is exclusive, for
the life of its child.  `ReaderInv`, with readers that end in time, says that the
queue in use is filled by one thread only, from which a failure is always one of the
session's own child.

### `RustSession` and `SerenaSession`

The service has a flag (`_rust_started`, `_semantic_started`) and the provider a child, and
neither looks at the other; what relates them is an invariant.  For Rust, `HeldInv`: at
rest, and once closed, an analyzer runs only if the flag is set, because whatever resets
it has terminated the analyzer; for Serena, `KeptInv`: a child is held exactly while the
flag is set or a start is under way, and no other child lives.  Both hold however the
children die and the queries end.  `ClosedInv` adds what holds of a closed service, for
children that printed no stray line.  `SettledInv` says of an analyzer whose empty answers
are taken at once (`ready`) that it answers from its workspace or that a query has waited
for it until its deadline; every start and every termination forgets both.  `SourceInv`
says that it has read the generation's source while the repository has it, which
`AssertFresh` compares once per query.

`TurnInv` is why answers without ids are not mixed up: between two queries a living child
owes nothing and nothing of it is left in the queue, and during one it either still has
the request or has said one line.  A query that ends earlier than its answer terminates
the child (`ReadTimeout`), and a dead child says no more, whatever is left of it in the
queue.  A line of a library breaks exactly this, hence `MaxNoise = 0`.

### Model-checked only

* Liveness (`LeaseReleased` and the other properties marked so above): fairness and
  `ENABLED` are outside the prover.
* `PublishedTogether` joins the properties of two scenarios, `PublishedUniform` and
  `RegistrationBound`; each is proved of `RefreshTransaction`, as `OneGeneration` and
  `RegistrationsAreBound`.
* `NothingHalfDone`, `AnsweredBySelected`, `KeptIsWhole`, `MigrationWhole`, `ReportTrue`,
  `OwnAnswers`, `NothingLeftBehind` and `AnswersOfGeneration` join properties of
  instances.  What they say of `Removal`, `QuerySession`, `ReloadingMcp`,
  `ReleaseInstall`, `ProviderMigration`, `SessionUpdate`, `RustRefresh`, `LifecycleJournal`,
  `ProviderTransport`, `RustSession`, `SerenaSession` and `ContinuationCache` is proved of
  those modules, under the assumptions of the table, which are those of the scenarios.
  One part is checked by TLC only:
* `CacheAccounted` of `ContinuationCache`, that the three structures of the cache agree: its
  byte counter is a sum over a sequence, which takes an induction over data.

## Not modelled

* Parsers, formatters, the ranking and traversal of query answers, change analysis,
  rename detection, downloads as such and file templates: data processing without
  state that another process or a crash could disturb.
* The Provider (an external program): modelled from how the client uses it.  That it
  goes on writing after its client gave up is outside the models.
* Legacy daemon sessions of the Provider, the read-only status command, discovery of nested
  repositories, `version_check`, the native Rust scanner, scripts and tests.

## Plan

The models are complete as far as *Not modelled* says, and of every safety property that
a run checks there is a theorem but of `CacheAccounted`; what of it is not about the byte
counter could be proved from `EntryInv` and the places of the entries.  `OwnComplete` is proved
and not listed by a run.
