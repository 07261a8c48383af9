# EntropIA Lite: a TLA+ verification of the desktop's core

EntropIA Lite is a desktop archive (Tauri: a Rust backend under
`src/apps/desktop/src-tauri`, a Svelte frontend under `src/apps/desktop/src`,
shared packages and three crates). Several devices of one account keep the same
archive through EntropIA Cloud, each in its own SQLite file. This directory
specifies the three parts of the program where the hard behaviour is. The
synchronisation engine: what it does to a device's rows while the user goes on
editing, answers get lost, pages arrive in an inconvenient order, the program
stops in the middle and the server is restored from a backup. The processing
queue: what becomes of a unit of work (OCR of a page, its correction, an
embedding) that several batches ask for, while the user pauses, resumes, cancels
and retries them, attempts fail in every way and the program restarts. And the
import of documents from the Internet Archive: jobs whose files are downloaded by
one task and imported by another, cancelled at any moment, cut off anywhere and
begun again.

Paths below are relative to `src/apps/desktop/src-tauri/src/` unless they begin
with `src/`.

## 1. Inventory

| Component | State it keeps | Operations | Correct when |
|---|---|---|---|
| Sync core (`sync/{schema,capture,push,apply,cascade,pull,engine}.rs`) | the synced tables; `sync_oplog`, `sync_row_versions`, `sync_pending_rows`, `sync_conflicts`, `sync_meta` (cursor, epoch); the locals of a running cycle | capture triggers; snapshot, coalesce, push, apply results; pull a page, park, retry, give up; reset; cycle | no edit is lost or overwritten unpushed, foreign keys hold, versions say what the rows are, devices converge |
| Sync requests (`sync/engine.rs`, `sync/commands.rs`) | a channel of one slot, the batch, published status, backoff timers | request, tick, retry, drain, gate, run, shutdown | what was accepted is done; offline is left again |
| Sync session (`sync/session.rs`, `sync/http.rs`) | account, token, incarnation | register, login (seeds the oplog), logout (wipes it) | a cycle never mixes two accounts |
| Other sync cycles (`sync/writing_*`, `research_*`, `derived*`, `web_*`, `blobs.rs`, `asset_files.rs`) | their own cursors, outboxes and blob queues | push, pull, upload, download | as the core; no file named by a row is lost |
| Processing queue (`processing/{repository,scheduler,recovery,commands}.rs`) | batches, tasks, links and dependencies, leases, checkpoints, results; the locals of the supervisor | prepare, start, plan, claim, checkpoint, commit, fail, defer, pause, resume, cancel, retry, sweep, finalize, recover | a unit has one live task, worked on by one worker, only while a batch asks for it; its result is published once; pauses are reached, withdrawn work is let go |
| Internet Archive jobs (`src/crates/internet-archive/src/{job,store}.rs`, `internet_archive/{commands,runner,import}.rs`, `src/apps/desktop/src/lib/internet-archive-import.ts`) | one `job.json` per job: its state, its files' states and the names of their staged bytes; the bytes; the runner's, the importer's and the reconcile's locals | prepare, start, download, verify, begin, import, confirm, fail, cancel, recover, reconcile | whoever works on a file keeps it; a document is imported once and whole; what is staged on disk has a name in `job.json`; a cancel is heard |
| Approvals (`automation/approvals.rs`) | pending requests of assistants, in memory | request, decide, expire | an approval runs at most once, and only at the revision it was asked for |
| Writing (`writing/*`) | documents, revisions, journal of unsaved edits | edit, save, prune, recover, publish | an edit is saved or journaled, never both missing |
| Archive lifecycle (`lib.rs`, `archive_close.rs`, `backup.rs`, `instance_guard.rs`) | open connections, close phases | open, close with a last sync, compact, back up | nothing writes while it is compacted |
| Runtime dependencies (`runtime/*`, `deps/*`) | partial downloads, an operation lock | install, resume, repair | one operation at a time; a verified file only |
| Corpus, bibliography (`corpus/*`, `bibliography/*`) | rows and files | ingest, delete, import | rows and files agree |
| Retrieval, OCR, transcription, models (`rag`, `nlp`, `ocr`, `transcription`, `llm`, `src/crates/vecscan`) | indexes | numerical work | out of reach of a model checker |
| Automation server, connector, browser, interface | transport and views | requests and replies | mostly I/O |

How they interact. Every edit, whoever makes it (interface, corpus import,
executors of the queue, an approved action), is SQL on the archive's database
and passes through the capture triggers, which is how sync hears of it. The
engine has a thread and a connection of its own. Commands, a 60 s ticker
and backoff timers wake it through a bounded channel. A cycle is a series of short
transactions with network requests between them, so edits of the user fall
between any two of them. The queue has one supervisor thread, which plans, works
and settles in turn, and a watcher thread while a unit is worked on; the user's
commands write the same tables from connections of their own, so a command falls
between any two of the supervisor's statements, and some commands read outside
the transaction they write in. An import job has two workers: a runner that
downloads and verifies its files one after the other, and the dialog, which
imports what is verified through the corpus' own import and has it confirmed. They
meet in `job.json`, written whole under one lock, and in the archive; the commands
that start and cancel hold a second lock, so that a run is told to cancel or is
gone. One process at a time holds an archive's lock, so
there is one supervisor. The archive's close asks the engine for a last cycle,
stops the queue and then shuts the engine down.

Behaviours that are hard here: an edit between two transactions of a cycle; an
answer that is lost after the server judged the push; a child that arrives
before its parent; a delete above rows with unpushed edits; the restore of the
server; the one-slot channel; a unit shared by batches that pause, resume and
cancel independently; a command between the worker's look at the demand and what
it does about it; an end read before a retry and written after it; chains of
dependent units whose first fails; an import that is two transactions of the
archive between two writes of a file; a cancel that finds one file downloading,
one being imported and one waiting, or falls between the runner's look at its signal
and the write it goes on to; a document two jobs ask for; a partial download that a
stop leaves behind; stops between any two steps; and, in components not modelled, approvals that race with what they
approve and a journal replayed after a crash.

## 2. Modules

| Module | Models | Extends |
|---|---|---|
| `ArchiveTree` | rows, foreign keys, the walks over CASCADE and RESTRICT edges (`cascade.rs`, the walks in `apply.rs`) | |
| `SyncServer` | the server, from what the client relies on (external) | `ArchiveTree` |
| `DeviceStore` | one device's database and each transaction on it, as operators from store to store | `SyncServer` |
| `SyncCycle` | the devices, the user, the cycle's stages, faults, the server's restore; the properties | `DeviceStore` |
| `SyncRequests` | channel, batch, timers, gate and shutdown of `engine_loop` | |
| `QueueTables` | the queue's tables, its queries and the statements that compute new rows, as operators | |
| `ProcessingQueue` | the supervisor, the user's commands, crashes and recovery; the properties | `QueueTables` |
| `UnitWork` | abstract: what the queue promises about a unit of work; instantiated by `ProcessingQueue` | |
| `ImportJob` | the import jobs: job file, runner, importer, restarts, reconcile; the properties | |
| `MCSyncRows`, `MCSyncTree`, `MCQueue`, `MCImport` | the instances TLC checks | `SyncCycle`, `ProcessingQueue`, `ImportJob` |
| `SyncCycle_proofs`, `SyncTypes_proofs`, `SyncRequests_proofs` | theorems about sync | the modules they name (`SyncTypes_proofs`: `SyncCycle`) |
| `SyncVersions_proofs` | what versions, cursor and parked rows say of the server's log | `SyncCycle_proofs`, `SyncTypes_proofs` |
| `ProcessingQueue_proofs` | lemmas about the statements; the queue's types | `ProcessingQueue` |
| `QueuePromise_proofs`, `QueueIntent_proofs` | the holder, the one live task and the refinement; what runs was asked for | `ProcessingQueue_proofs` |
| `ImportJob_proofs` | theorems about the import jobs | `ImportJob` |

`PROJECT.json` maps each definition to the lines it stands for.

### DeviceStore and SyncCycle

A store is a record: `db` (row to content; `Gone` when absent), `oplog`, `rv`
(`sync_row_versions`), `cursor` (`last_pull_seq`), `parked`
(`sync_pending_rows`), `journal` (`sync_conflicts`), `epoch` (`server_epoch`).
A content is the stamp of the edit that wrote it. The stamp stands for the
oplog's `seq` and for `changed_at` at once, and one clock serves all devices, so
the model has neither clock skew nor two edits of the same millisecond.

Because a transaction is atomic in SQLite, each is one action. `PushAnswered` is the
one that stands for more: `build_changes` (`sync/push.rs:406`) reads the rows one by
one, outside a transaction, and the model builds all changes from one state. An edit
between two of these reads is newer than the snapshot and stays in the oplog, like
one that lands just before or just after the reads, and those are modelled; what is
not is a request with a parent as it was before such an edit and a child as it was
after.

| Action | Code |
|---|---|
| `UserWrite`, `UserDelete` | the user's statement with its capture triggers; a RESTRICT child forbids the delete, a CASCADE child goes along and is captured |
| `FullResync` | the reset `engine_loop` makes for `sync_full_resync` |
| `Begin` | `run_cycle` up to the push: health, `check_epoch`, retry of inherited parked rows |
| `TakeSnapshot` | `snapshot_oplog`; nothing pending goes straight to the pull |
| `PushAnswered`, `PushBroken` | build, refuse, send; the answer arrives, or is lost after the server judged a prefix of the request |
| `ApplyAnswers`, `FailAnswers` | `apply_push_results`, or its error, which ends the cycle |
| `Retry`, `PullReset`, `PullPage`, `FinalRetry` | `pull_loop` |
| `Stop` | an offline error or the end of the program between two transactions |
| `Restore` | the server goes back to a prefix of its log under a new epoch |

A row of the model may be written by any device when it is absent. Real row ids
are UUIDs, so two devices create the same id only by restoring an old version;
the model allows more than the code.

`ApplyPage` applies upserts parents first, then tombstones, and parks what would
break a foreign key at COMMIT: in the code, `collect_fk_violators` in rounds
until the page commits, in the model its fixed point (`Orphans`: an upsert stays
out when some ancestor is neither present nor brought by the page). `Ready` and
`Abandoned` are the same for `retry_pending_rows`, which goes row by row in
`server_seq` order with immediate foreign keys. `StillDirty` and `Rejected`
follow `apply_push_results` result by result in the order of the request, which
is the order of `WireRank` (table name, then row id).

### SyncRequests

One action per sender (`Ask`, `TickerFires`, `RetryFires`, `SetAuto`,
`CallShutdown`, each an attempt to `Offer`), one per branch of `engine_loop`
(`Receive`, `DrainOne`, `Stop`, `Refuse`, `SkipTick`, `CannotStart`, `Start`)
and one per outcome of a cycle. `taken` is history: the manual requests the
channel accepted and the engine has not answered for.

### QueueTables, ProcessingQueue and UnitWork

A unit is one kind of work on one page. Tasks do units, batches ask for them, and
a batch and a unit have one link, which names the task, the batch's wish
(`active`, `paused`, `cancelled`) and the task it waits for. A task is named by
the batch that first admitted it and its unit: a batch plans each page once, so
the pair names one row. `worker` holds the supervisor's locals and the step that
comes next, `call` what a command read and has not written yet. `asked` is
history: the batches the user wants run, since the process started.

Each action is one transaction, or one statement that changes something where the
code opens none; the reads of a command that come before its first write are one
step:

| Action | Code (`processing/`) |
|---|---|
| `Prepare`, `Start` | `prepare_batch`, `start_batch` |
| `ReadBatch`, `Pause`, `Resume`, `Cancel` | `control_batch`: the read and the judgement, then the transaction |
| `ListFailed`, `RetryLink`, `RetryTask`, `RetryBatch` | `retry_failed`, which opens no transaction: its targets, then a statement for each link, for each unit, which a collision on the unique index cuts short, and for the batch |
| `ConfigurationFixed` | the `resume_*_blocked` functions, when settings are saved |
| `Tick` | the start of a pass: `planning_batches`, `reconcile_contracts` |
| `ClassifyPage`, `AdmitPage`, `ClosePlanning` | `classify_batch_page`: its read phase, its write phase, the page past the last |
| `Promote`, `PlanningDone` | `promote_batches` and the promotion of every pass |
| `Claim`, `NothingToClaim` | `claim_next`, with the units it finds settled or drifted |
| `CheckDemand`, `Watch`, `ExecutorEnds` | `run_one`: the first look at the demand, the watcher, the executor and its checkpoints |
| `Commit`, `SourceMoved`, `ContractMoved` | `commit_success_with` and what follows its refusals |
| `AttemptFails`, `Parks`, `Interrupt` | `fail_attempt`, `block_running_task` and `defer_task`, `interrupt_task` |
| `LookAt`, `Finalize`, `LinksDone`, `Sweep` | `maybe_finalize_batch` for the unit's links and for open batches, its read and its write apart; `cancel_orphaned_tasks` |
| `Crash`, `Recover` | the process stops; `recover_session` |

Commands that read in one statement and write in a later one appear twice, whole
and split: those in `Overtaken` are split, so that others get in between. A retry is
always split, statement by statement, and the supervisor, other commands or a stop of
the process may come after each.
What a unit computes is a choice among the answers of `run_one`; which units a
page needs is a choice too (`PagePlans`), limited to what `plan_member` may
decide. The trigger of migration 0038 is `SettleDependents`, part of every step
that ends a task; it does not fire itself, as in the database.

`UnitWork` says nothing of batches or tasks: a unit is idle, queued or held; it is
held, one at a time, and its result published, once and for good, only while it
is wanted. The refinement maps the live task of a unit to `flight`, the succeeded
tasks to `results`, and the units with a running or ready batch behind an active
link to `wanted`.

### ImportJob

A job is a state and a function from its documents to a file: a state, and whether
the file names staged bytes. `bytes` is what is on disk whole, `partial` the
`<staging>.partial` files that are still downloaded, and `stray` says that a partial
is on disk whose staging name no file has any more. An item of the collection
is a document and whether it is whole: its asset, every page and their files. `run`
is the active run, `ui` the dialog and its importer, `rec` the reconcile that runs
once in a session. The code's `unavailable` is the model's `failed`; no code makes
a file `skipped_duplicate`.

| Action | Code (`internet_archive/`, TS: `internet-archive-import.ts`) |
|---|---|
| `Prepare`, `DiscardDraft`, `Start`, `CancelImport` | the commands of the dialog (`commands.rs`) |
| `Select`, `Look`, `Take` | a queued file is selected under the lock, the cancel signal looked at without one, the file made `downloading` in a second write |
| `Stream`, `Fetched`, `FetchFails` | the download: into its partial, which is renamed at the end, deleted before another attempt and when it fails |
| `Passed`, `Verify`, `Verified`, `SettleRun` | the look at the signal after the download, the writes to `verifying` and to `verified`, the last write of a run |
| `Look`, `Interrupted`, `Between`, `End` | the ways a run obeys its cancel: before a file, with a file in hand, between files, when it is unregistered |
| `ListVerified`, `ListDone`, `CloseDialog` | `maybeImport`, the loop of `importVerifiedFiles`, `checkDone` |
| `Begin`, `DiscardRemnant`, `BeginAgain`, `Importing` | `importFile`: `begin_file_import`, its look at the collection apart from its write; the remnant it may find |
| `CreateItem`, `RecordFiles`, `ImportFails` | `import_file` (`corpus/ingest.rs`): the item with its provenance, then its files in a second transaction, or the removal of both |
| `Validate`, `Accept`, `Refuse`, `Report`, `Drop` | `confirm_file_imported`, its validation apart from its write; `fail_file_import`; `dropUnconfirmed` |
| `Crash`, `Recover` | the process stops, perhaps with bytes deleted that `job.json` still names; `recover_all` |
| `ListReconcile`, `DiscardLeftover`, `Release` | `list_reconcile`, `resolveReconcileLeftovers` (TS), `finish_reconcile` |
| `Damage` | external: a page of the new item is gone before it is confirmed |

A write of `job.json` goes with the deletes of staged bytes made under the same
lock, and with those the code makes just before or after it, as one step; the
crash that separates them is part of `Crash`. What a crash leaves on disk with no name
`recover_all` deletes when it is whole, and never when it is a partial: it deletes the
names `job.json` had and files called `<uuid>.pdf` (`store.rs:357`), so the model keeps
the partial and, once its file has lost the name, remembers it in `stray`. A failed save is a fault of the two writes that end an
import, where it leaves a file whose bytes are gone.

A cancel sent between `Look` and `Take` does not stop `Take`: that one file is still
made `downloading` and counts as an attempt. `cancel.changed()` then fires at once and
the download is dropped, so `Interrupted` follows; the model allows the download to
end first, which is more than the code does. The same window lies between `Passed` and
`Verify`. `Take` finds a file that is not queued any more in no behaviour
(`InRunnersHands`): that branch of the code is a defence.

One dialog is open at a time and stays until its job has ended. The code ensures it by
`close()`, which does nothing while the job it shows is active
(`src/apps/desktop/src/views/InternetArchiveDialog.svelte:750`): the jobs it offers to
resume, which "survived a closed dialog" (line 168), are then those of an earlier
session. Two ways out are not modelled: a close before the first status of a job
arrived, and an unmount by the parent. After either a second dialog may import beside the loop of the first, and what
is proved of the importer assumes there is no second.

## 3. Runs

On two workers `queue_shared` takes two minutes and `import` three, the others less than
two.

| Run | Result | States | Shows |
|---|---|---|---|
| `sync_rows` | pass | 2 958 949 | one row, two devices, edits and deletes, lost answers, changes that may be refused, full resyncs and a restore: `CleanRowsMatchTheirVersion`, `NoUpsertSkipped`, `EditsLeaveOnlyWhenJudged`, `TypeOK` |
| `sync_cascade` | pass | 1 249 926 | parent and CASCADE child; children travel first, parents are deletable: `ForeignKeysHold`, `PendingEditsUntouched`, the two version invariants and `VersionsOnlyAdvance`. It begins with both rows everywhere, or with the child parked on one device |
| `sync_restrict` | pass | 784 314 | parent and RESTRICT child, both deletable, changes that may be refused: the same four |
| `sync_live` | pass | 93 778 | `Converges` when parents travel first and only the child is deleted |
| `requests` | pass | 3 640 | `TypeOK`, `AcceptedStaysCovered`, `OfflineRetried` |
| `queue_shared` | pass | 349 592 | two batches that ask for the same unit, every control on both, retries statement by statement, a fatal failure, stops at any step: `OneFlight`, `RunsOnlyWhenAsked`, `PauseIsReached`, `WithdrawnIsLetGo` |
| `queue_faults` | pass | 1 242 919 | one batch with OCR and derived work behind it, every way an attempt may end, every control overtaken between read and write: `TypeOK`, `HolderIsCurrent`, `KeepsItsPromise` |
| `import` | pass | 5 166 650 | two jobs that share a document, every fault, cancels and stops at any step, recovery and reconcile: `TypeOK`, `ImportedOnce`, `ImportedIsWhole`, `StagingIsNamed`, `CancelIsHeard` |
| `sync_deferred` | violation | | finding 1 |
| `sync_wedged` | violation | | finding 2 |
| `queue_chain` | violation | | finding 3 |
| `queue_resumed` | violation | | finding 4 |

What the properties mean:

- `ForeignKeysHold`: no committed archive holds a row without its parent.
- `PendingEditsUntouched`: a step that is not the user's changes a row only when
  no edit of it is waiting once the step has committed.
- `EditsLeaveOnlyWhenJudged`: an edit leaves the oplog only when the server has
  judged it or a later one of its row, or it was refused and journaled.
- `CleanRowsMatchTheirVersion`: a row without pending edits is the version it is
  based on. Its exceptions are named: the change was refused and journaled, the
  row went with its parent, it lost to a tombstone its dependents hold back.
- `NoUpsertSkipped`: the cursor never passes a live row the device does not
  account for.
- `VersionsOnlyAdvance`: within an epoch only a reset takes a row back to an older
  version; a row that was parked while its device moved on is forgotten, not applied.
- `Converges`: once edits stop, every device ends with the server's content,
  nothing to push and nothing parked.
- `AcceptedStaysCovered`: an accepted manual request is in the channel or in the
  batch until it is answered for, however requests are folded. It says nothing of a
  request that found the channel full, which the code drops (section 5), and nothing of
  a shutdown among the drained ones.
- `OfflineRetried`: the offline state is left, although every poke may be dropped.
- `TypeOK` of the queue: apart from the shapes, a unit that used up its attempts is
  not tried again. Rate limits are the exception the code makes.
- `HolderIsCurrent`: while the process is up, the running task is the one in the
  worker's hands: no verdict leaves a task running behind, no command, sweep or
  contract check takes it away.
- `OneFlight`: a unit has one live task, whoever admits, attaches to or reopens it.
- `RunsOnlyWhenAsked`: a batch the program means to run is one the user started,
  resumed or retried since the process started.
- `KeepsItsPromise`: the queue implements `UnitWork`. The run has one batch; that two
  batches keep the promise is the theorem `QueueKeepsPromise`.
- `PauseIsReached`: no batch stays `pausing`, whatever unit is held or shared.
- `WithdrawnIsLetGo`: a live task nobody asks for any more does not stay live; the
  process stops first, somebody asks again, or it is let go and swept.
- `DeadDependenciesSettled`, `ResumedUnitsGoOn`: what findings 3 and 4 refute.
- `TypeOK` of the imports: apart from the shapes, whoever works on a file has it in
  the state that says so. A cancel, a second command or a restart never takes a
  file out of the hands of the runner or the importer.
- `ImportedOnce`: a document is whole in the collection at most once, although the
  importer tells the corpus not to look for duplicates: what keeps it is the
  classification before an import, the removal of remnants and the write that
  takes a file only when it is still verified.
- `ImportedIsWhole`: a file that says it was imported has its document whole in the
  collection. One exception is named (`GivenUpElsewhere`): another job gave the
  document up and the reconcile removes its remnant by an old listing (section 5).
- `StagingIsNamed`: while the program is up, a staged file on disk, whole or still
  downloaded, is named by the file it was staged for, so a later cancel, end or
  reconcile finds it. One exception is named (`stray`): the partial of a download that
  a stop of the program cut off, which nothing finds again (section 5).
- `CancelIsHeard`: a run that was told to cancel, whenever it was told, does not end
  with work left: no file of its job is queued, downloading or being verified, not
  even one it took after it was told, and the job has ended or waits for a file that
  is being imported.

**Bounds.** Two devices: every conflict the code distinguishes is between one
device's pending edit and one remote version. One or two rows: the guards look
at a row, its parent, or what hangs below it; a longer chain only repeats the
walk, and the theorems of section 4 cover every forest. `PageLimit = 1` makes
every page a boundary, so a parent and its child always come in different pages;
`sync_wedged` uses 2. `MaxClock` is the number of edits: three edits of one row
give an edit that loses, one after the snapshot and one that wins.
`MaxEpoch = 2` is one restore. The tree runs (except `sync_live`) begin in `Synced`,
a state `Spec` reaches after two edits and a cycle of each device, so that their edits
go into conflicts; parking needs a device that does not have the parent, which there
comes from a delete of the parent and its return. `sync_cascade` also begins in
`HalfPushed`, which `Spec` reaches after three edits and a push that breaks off behind
the child: there a parked row can grow old. `Capacity = 1` is the code's; two timers are enough for one to be
pending while another is dropped. Symmetry permutes devices and is used only in
runs without liveness.

The queue has one page, since units of different pages meet only in the worker,
which holds one at a time, and in the end of a batch, which the two units of
`queue_faults` already give. `queue_shared` has two batches because every hazard of
sharing is between one that holds or left a unit and one that asks for it.
`queue_faults` has two kinds, a dependency and its dependent; the third kind adds
the chain of finding 3. `MaxAttempts` and `MaxChanges` (three or more in the code)
are 2 in `queue_faults`, so that a first failure is retried and a second one ends,
and 1 elsewhere. `Overtaken` splits every control there, so that others get in
between its read and its write. Two batches with two units each are left to the
theorems.

The imports have two jobs of which one asks for a document of the other: a job with
two files has one to download while another is imported and a third state between
them, and every hazard of the collection is between two jobs that hold the same
document. `MaxItem = 2` gives a remnant and a new item side by side; more items are
only more remnants, since a begin looks for the first whole item and then for the
first remnant. The theorems cover any number of jobs, documents and items.

**Fairness.** `SyncCycle!Fairness` asks for three things. Cycles start again and
again: the ticker pokes the engine every 60 s whatever the last cycle did. A
cycle that runs takes its steps: the engine's thread runs and every request has a
timeout. From some time on the network and the program stay up; without that no
sync protocol converges. Nothing is assumed about the user, whose edits
`MaxClock` ends. In `SyncRequests` the engine's loop and timers are weakly fair,
and draining ends (strong fairness of the branches after it): `drain_batch` runs
`try_recv` in a tight loop that the senders, one of them a minute's ticker, cannot
keep feeding. `requests` takes auto-sync on; with it off a retry poke dropped
behind a tick that will not run leaves the device offline until the user asks.
`ProcessingQueue` asks that the supervisor, when it has a step, takes one: its
thread loops without waiting on anyone, an executor returns (its calls have
timeouts), and a process that stopped is started again. The user's commands and
the watcher get no fairness, so the liveness properties hold although the user may
never come back and the watcher may never wake. `ImportJob` states no liveness: a
download may wait for the network and a dialog for the user as long as they like,
and a cancel with a file being imported does not end (section 5).

**Where convergence stops.** `Converges` fails, for the reasons of findings 1
and 2 and of the children given up too early (section 5), as soon as children travel before their parents or a parent can be deleted
over a dirty child. `sync_live` is the largest setting where the code promises it.

## 4. Theorems

Checked by TLAPS for every value of the constants:

| Theorem | Statement |
|---|---|
| `SyncCycle_proofs!ForeignKeysAlwaysHold` | `Spec => []ForeignKeysHold` |
| `SyncCycle_proofs!PendingEditsStayUntouched` | `Spec => PendingEditsUntouched` |
| `SyncTypes_proofs!SyncTyped` | `Spec => []TypeOK` (of `SyncCycle`) |
| `SyncTypes_proofs!EditsJudged` | `Spec => EditsLeaveOnlyWhenJudged` |
| `SyncVersions_proofs!NothingSkipped` | `Spec => []NoUpsertSkipped` |
| `SyncVersions_proofs!CleanRowsMatch` | `Spec /\ [][NothingCarried]_vars => []CleanRowsMatchTheirVersion` |
| `SyncVersions_proofs!UnparkedRowsMatch` | `Spec => []CleanRowsMatchTheirVersion`, when `MaxEpoch = 1` or no row has a parent |
| `SyncVersions_proofs!VersionsAdvance` | `Spec /\ [][NothingCarried]_vars => VersionsOnlyAdvance` |
| `SyncVersions_proofs!UnparkedVersionsAdvance` | `Spec => VersionsOnlyAdvance`, when `MaxEpoch = 1` or no row has a parent |
| `SyncRequests_proofs!RequestsTyped` | `Spec => []TypeOK` |
| `SyncRequests_proofs!AcceptedAlwaysCovered` | `Spec => []AcceptedStaysCovered` |
| `ProcessingQueue_proofs!QueueTyped` | `Spec => []TypeOK` (of `ProcessingQueue`) |
| `QueuePromise_proofs!HolderHeld` | `Spec => []HolderIsCurrent` |
| `QueuePromise_proofs!OneFlightHeld` | `Spec => []OneFlight` |
| `QueuePromise_proofs!QueueKeepsPromise` | `Spec => KeepsItsPromise`: `ProcessingQueue` implements `UnitWork` |
| `QueueIntent_proofs!OnlyAskedRuns` | `Spec => []RunsOnlyWhenAsked` |
| `ImportJob_proofs!ImportTyped` | `Spec => []TypeOK` (of `ImportJob`) |
| `ImportJob_proofs!StagingNamed` | `Spec => []StagingIsNamed` |
| `ImportJob_proofs!CancelHeard` | `Spec => CancelIsHeard` |
| `ImportJob_proofs!OnceImported` | `Spec => []ImportedOnce` |
| `ImportJob_proofs!WholeImported` | `Spec => []ImportedIsWhole` |

Assumptions: `TreeAssumption` (a finite forest, with `Ancestors` its closure),
`CascadeAssumption` (no RESTRICT edge below a CASCADE edge, true of the synced
schema), `WireAssumption` (a strict order), `BoundsAssumption`,
`RequestsAssumption`, `TablesAssumption` (the kinds of unit a batch may ask for,
with positive budgets), `ImportAssumption` (a job has at least one file).

*Foreign keys.* The invariant is `Shape /\ ForeignKeysHold`. `Shape` is what the
steps need of the types: each store is a record with its fields, whose `db` is a
function on `Row`, and the clock is a number, so a write never writes `Gone`.
`Contents` is the only operator through which remote versions reach the rows,
and `ContentsUpright` says when it keeps the foreign keys: tombstones take whole
subtrees, and every upsert finds its parent present or beside it. The page gives
that by `Orphans`, the retry by `Ready`, the results by `~Rejected`. A user's
delete needs `CascadeAssumption`: what the statement leaves behind would be a
RESTRICT child, which forbids it.

*Pending edits.* From the shape of the stores alone, `ContentsUntouched` reduces
each transaction to its guards: no upsert on a row that is dirty afterwards, no
tombstone over one. For a page and a retry that is the code's skip-if-dirty; for
the results it is `StillDirty`, since the purge is part of the transaction.

*Types.* `TypeOK` is inductive as it stands. Stamps are bounded by the clock and
versions by the log, so every type grows with the clock and the epoch
(`Growing`), and a step that advances one of them keeps what it does not touch.
Three facts carry the rest. The newest version and the cursor's next position
exist, because a bounded set of numbers has a greatest element, by the
well-foundedness of `<`. The server numbers the changes it accepts by counting
those before each of them: the count is one-to-one between two finite sets of
the same size, hence onto (`Numbered`), so the log it appends is a sequence. And
a request is finite, since the rows are.

*Edits.* `EditsLeaveOnlyWhenJudged` needs to know, when the results are applied, what
happened when they were asked for. `Answered` carries it over: while the answers of a
push wait, every edit of an answered row up to the snapshot has been judged, itself or
a later one. It holds when the answers arrive because a change carries the stamp of
the last edit it covers (`ChangeCovers`), and it lasts because whatever the user does
meanwhile is stamped after the snapshot and nothing else adds to the oplog.

*Nothing skipped.* `NoUpsertSkipped` is not inductive: the answers of a push and the
rows that are parked will be taken over later, and have to be worth taking then.
`AccountInv` says what they are. The property in its own terms is `Accounts`: for
every live row behind the cursor the store `Knows` its newest version, by a version as
new, a pending edit, the parking or the journal. Added to it: one parked version per
row, each a live one (`ParksLive`); the cursor within the log; one answer per row, and
every answer a version of the log that is not older than what the device had passed
(`Holds`). A page and a retry are then of one shape (`TookOver`): some rows are at the
versions that were taken, the others are as they were. A step of one device only
makes the log longer for the others, whose newest versions move past their cursors
(`LongerAccounts`); a restore makes every device one of an older epoch, of which
nothing is claimed until it has reset its cursor.

*Clean rows.* `CleanRowsMatchTheirVersion` rests on what a push sends: the row's
content at its stamp. Three facts tie a push that runs to the log. No two devices
have a pending edit under one stamp (`StampsApart`), so what the log holds under an
edit's stamp came from that edit. The last pending edit of a row stands for the
row's content, in the store and, when an answer was lost and the change went through,
in the log (`LastsHeld`); so a push that is repeated and answered with the version it
made the first time is answered with the row's content. And while answers wait, an
accepted one is the row's content unless a later edit waits, and a winner is newer
than what the row is based on (`AnswersFit`). That is what makes the order of
`apply_push_results` right: it looks for later edits after the purge, leaves a row that
lost and is still dirty at its old version, and writes a winner before its version is
recorded. Parked rows are versions of the log as it is (`ParksServed`), and here the
proof needs a premise.
`reset_for_reconciliation` (`sync/pull.rs:59`) takes up the epoch of a restored server
and keeps the rows parked under the old one, whose numbers the new log may have given
to something else. `NothingCarried` says that no step does this to a device with parked
rows; without it the property fails (section 5). `UnparkedRowsMatch` discharges the
premise where no step can do it: without restores there is one epoch, and without
parents nothing is parked. Those are the settings of the runs that check the property.

*Versions.* `VersionsOnlyAdvance` follows from the same invariant under the same
premise. Pages and retries take fresh versions only. Answers are taken whatever their
age, and `AnswersFit` says that none is older than what the row is based on: the newest
version of the log is not, and nothing moves a row's version while its answer waits.

*Requests.* The invariant adds to `TypeOK` and `AcceptedStaysCovered` that a
batch is empty unless the engine is draining (`BatchEndsWithItsAnswer`):
otherwise `Receive`, which starts a fresh batch, would forget one.

*Queue.* `TypeOK` is inductive: the budgets of a unit are part of it, so every
verdict has to show that it counts. `QueuePromise_proofs` proves `HolderIsCurrent`,
`OneFlight` and the refinement together, from an invariant that also says what is
fresh: a task that does not exist yet is nobody's, since a batch plans each page
once. Every step of the queue is then of one of a few sorts, by what it does to the
tasks: it leaves the states that matter alone, it only adds or reopens units that
have no live task, it picks one up, drops it, publishes it, stops or restarts. Each
sort maps to a step of `UnitWork` or a stutter, and the sorts rest on lemmas about
the statements (`ProcessingQueue_proofs`): the trigger and the orphan sweep touch no
running task but the one that is named. `OnlyAskedRuns` has an invariant of its
own: what the recovery and the promotions move never becomes running from a state
the user did not ask for.

*Imports.* The invariants are in three layers. `Ground` is the types with what they
need to be inductive: nobody works while the program is down; a job somebody works
on was started; files that wait have no bytes, files in hand have their name while the
runner works on them (`Hands`), and whatever is staged is named (`BytesNamed`), which
is what gives `StagingIsNamed`: a stop is the only step that parts a file from its
partial, at the recovery, and that sets `stray`. `Waits` is for `CancelIsHeard`: only
the file in the runner's hands is downloading or being verified, the job of such a file
is running, a job that is cancelling or has ended has no file in the queue, and a
partial is of the file that is fetched. A run ends by `End` alone, which obeys a signal
that no look has obeyed, so what it leaves is what a cancel leaves: `Waits` then says
that nothing is queued, and that what is in hand is nobody's. `Left` says
that what the reconcile holds is a cancelled file. `Sound` ties the importer to the
collection: between two files it holds nothing; who is about to create a document
found none that is whole (`Absent`), which stays true since nobody else creates
one; its item and the reconcile's are of their own documents; and a
document the importer may still remove is no other job's import, but for the named
exception. With these `ImportedOnce` and `ImportedIsWhole` are inductive: the one
step that makes an item whole starts from none, the step that calls a file
imported has validated it, and each step that removes an item removes a remnant.

Model-checked only: the liveness properties (`Converges`, `OfflineRetried`,
`PauseIsReached`, `WithdrawnIsLetGo`), which TLAPS does not reach. Every invariant and
every action property the passing runs check is a theorem,
`CleanRowsMatchTheirVersion` and `VersionsOnlyAdvance` under the premise above.

## 5. Findings

1. *A tombstone is dropped, not deferred* (`sync_deferred`). A page brings the
   tombstone of a row whose CASCADE child was edited here since the cycle's snapshot:
   `apply_row` skips it (`sync/apply.rs:766`), `apply_page` parks nothing and saves
   its cursor past it (`sync/apply.rs:1111`). The next cycle pushes the child; now
   nothing is dirty, no pull brings the tombstone again, and the row stays, clean, at
   the version the server deleted, until there is a newer one or the cursor is reset.
   `sync/cascade.rs:7` calls this deferred. The test at
   `src/apps/desktop/src-tauri/tests/sync_e2e.rs:663` expects it to resolve, and edits
   the child before the cycle, which pushes first: its pull meets nothing dirty. The
   guard may also skip a tombstone that is the winner of a push, inside
   `apply_push_results`; on that path alone nothing is lost, since the pull that
   follows still has it ahead of its cursor.
2. *A winner that fails its foreign key blocks the device* (`sync_wedged`). The
   error leaves `apply_push_results` and ends the cycle before its pull
   (`sync/engine.rs:884`), so the parent that is missing never arrives and the
   next cycle fails the same way. `sync/apply.rs:742` expects the caller to park
   or journal the row.
3. *Dependents of a failed dependent stay blocked* (`queue_chain`). The trigger of
   migration 0038 (recreated last in 0060) fails the blocked dependents of a task
   that failed, and SQLite does not fire it again for those: `recursive_triggers`
   is never set. A failed OCR fails the correction behind it and leaves the derived
   unit behind that blocked until the next restart, and the batch running with it;
   `src/odd/plans/plan-lote.md:184` asks for such units to fail.
4. *A resumed unit stays interrupted* (`queue_resumed`). The worker learns that its
   unit is not wanted and gives it back in a later statement
   (`processing/scheduler.rs:358`). A pause and a resume around the two find no
   interrupted unit to requeue, and nothing claims one.

Seen while modelling, without a run of their own. In the sync core:

- `parent_present_or_parked` (`sync/apply.rs:1339`) takes an absent parent for
  "confirmed tombstoned" and gives the child up; it may only not have been pushed
  yet.
- The shutdown goes through `try_send` (`sync/engine.rs:223`) and is dropped when a
  request is queued; the comment at line 219 says "a blocking send".
- A dropped request is not always covered by the queued one, as
  `sync/engine.rs:204` has it: a full resync behind a manual run, a manual run
  behind a tick that is not due.
- `reset_for_reconciliation` (`sync/pull.rs:59`) keeps `sync_pending_rows`. A row
  parked under the old epoch is retried afterwards and records the old epoch's
  `server_seq`. `Spec` on the two rows with `LeafFirst`, no deletes, three edits
  and one restore violates `CleanRowsMatchTheirVersion` this way, which is why
  `sync_rows` restores with a single row and the tree runs do not restore: the
  invariant is claimed for those settings, and by `CleanRowsMatch` for every
  behaviour in which no device with parked rows takes up a new epoch.
- `journal_lww_lost` (`sync/push.rs:610`) stores no payload for the side that
  lost; in the model the journal's content of such an entry is `Gone`.
- The push response's `server_epoch` is collected (`sync/push.rs:672`) and not
  compared.
- `CycleCompletion` (`sync/engine.rs:1096`) is satisfied by a cycle that was
  already running when the archive closes.

In the queue:

- `maybe_finalize_batch` (`processing/repository.rs:3384`) reads that a batch is
  over and writes it later, without a transaction when the supervisor calls it. A
  retry in between is ended over and leaves a pending unit in a batch that ended
  (`src/odd/plans/plan-lote.md:74` has a batch end only when its units have).
- A page is classified while its batch is cancelled: its links are committed,
  active, into the cancelled batch (`processing/repository.rs:6069`).
- A retry that meets a task another batch has for the same unit fails on the unique
  index after its first writes (`processing/repository.rs:3169`).
- A batch that is paused while ready and then started keeps its links paused, and
  does not end. One that attaches to a unit a paused or cancelled batch left
  interrupted waits for a resume that is not its own.
- When two batches share an OCR and the derived work behind it belongs to one of
  them, the cancel of the other may cancel the OCR, and the trigger then fails that
  derived work.
- A cancel judged before a batch ends overwrites `completed`.
- A storage error after a claim ends `run_one` with the task running until the
  program is started again (`processing/scheduler.rs:345`).
- After a restart `settle_blocked_dependents` also releases units blocked for
  another reason (an unstable source, a changed configuration) when what they
  depend on is satisfied.
- `src/odd/plans/plan-lote.md:197` lets a pause confirm the unit that has begun;
  `commit_success_with` refuses it as no longer wanted.

In the import jobs:

- A stop in mid-download leaves `<uuid>.pdf.partial` on disk for good. The recovery
  takes the name from the file that was downloading and deletes what bears exactly
  that name, and beside it only unnamed files called `<uuid>.pdf`
  (`src/crates/internet-archive/src/store.rs:357`, `is_valid_staging_name` at line 92);
  the next start takes a fresh name. `src/odd/tasks/internet-archive.md:139` asks to
  "delete the partial on any failure, no `.part` kept". This is the exception of
  `StagingIsNamed`.
- A job that is cancelled while a file is being imported stays `cancelling` when
  that import ends: `settle` looks at running jobs only, and nobody calls
  `finish_cancel_if_idle` until a second cancel or a restart. If the confirm was
  refused meanwhile, that second cancel leaves a verified file with its bytes in a
  cancelled job.
- After a stop in the middle of an import the job is ready and the file verified
  again. A cancel then clears the staged file and its name, so a partial item stays
  in the collection and no reconcile lists it;
  `src/apps/desktop/src/lib/internet-archive-import.ts:127` says "nothing is lost".
- Staged bytes are deleted inside the update, before `job.json` is saved
  (`internet_archive/import.rs:444`). A failed save or a stop leaves a file that
  cannot be begun again, whole item or not: `begin_file_import` looks for the bytes
  before it looks at the collection. And a reconcile entry may have a name and no
  bytes, against the comment at `internet_archive/import.rs:531`.
- The reconcile removes remnants by its listing
  (`src/apps/desktop/src/lib/internet-archive-import.ts:309`), without looking
  again. Another job may have begun or confirmed the document by then; this is the
  exception of `ImportedIsWhole`.
- After a remnant was discarded the importer takes any answer of the second begin
  but another remnant for a fresh import, `confirm_existing` too. With one dialog
  nobody makes the document whole in between.

## 6. Not modelled

In the sync core: seeding at login and the wipe at logout; the filter for sample
rows and the gating of the web tables; topic aliases and rows with two parents
(`item_topics`, page assets); payload validation, schema drift and the journal
entries they make; the blob and full-text queues; batches one by one (a push that
breaks off is the prefix it sent); a lost result without its winner (the server
always sends it). The server is a single log with one judge, which is all the
client relies on. Corpus edits reach the model as `UserWrite` and `UserDelete`.

In the queue: priorities and their aging, the wake times of retries, request ids
and expected revisions of commands, the batches the program makes for itself,
checkpoints, receipts and the table of attempts, lease expiry (one process holds
the archive, so a lease is taken over only after a restart), storage errors between
a claim and its verdict, the branch of the recovery for batches that are
`cancelling`, which is never reached.

In the import jobs: the client's requests and their retries, waits after a 429,
storage errors of other writes than the two that end an import and the discards, a
corrupt `job.json` (put in quarantine by the recovery), a reload of the web view, a
user who deletes imported items, the difference between unavailable and failed.

The other components, with the reason for each, are in `PROJECT.json`; section 7
says which come next.

## 7. Plan

What was planned and stands, and what would come next:

| Step | Modules | State |
|---|---|---|
| 1. Sync core | `ArchiveTree`, `SyncServer`, `DeviceStore`, `SyncCycle`, `SyncRequests` | done, as above |
| 2. Processing queue | `QueueTables`, `ProcessingQueue`, `UnitWork` | done, as above |
| 3. Internet Archive jobs | `ImportJob` | done, as above |
| 4. Approvals | `Approvals` (claim, run, expire, against job revisions) | next; it would join the queue's model, since approved actions are fenced by a batch's revision |
| 5. Session and close | login, logout and `CycleCompletion` on `SyncCycle`'s stages and `SyncRequests` | no cycle writes after a logout or a close |
| 6. Writing, derived data, blobs | the remaining cycles | convergence of their cursors |
| Proofs | `SyncVersions_proofs` | the versions are done; next, what a cycle that ends leaves behind |

A tree run with a restore, for a device that parks nothing across it, would show on
an instance what `CleanRowsMatch` proves under its premise.
