# Formal models of siming-ai

siming-ai is a writing application: a desktop backend (FastAPI, SQLAlchemy,
SQLite) that is also a *Gateway* for paired phones, a web frontend, and an
Android client that authors works offline. Its own hard logic is where several
actors change the same rows and a step may be cut off, repeated or overtaken:

* the synchronisation between the Gateway and its devices: the store of changes,
  the service in front of it, the capture of desktop writes, the phone's replica,
  outbox and loop;
* the coordination of SQLite's writers, and the statements of a push among them;
* the background runs that let a language model generate a novel's draft, and the
  jobs that catalog its chapters into an archive, where rows, asyncio tasks and
  the author's actions have to agree across pauses, retries and restarts;
* the recycle bin and the outbox that mirrors the database to readable files.

This directory models these four. TLC checks small instances of every module
(`*.cfg`); TLAPS proves the results listed under *Proofs* for every value of the
constants.

    tlc -workers 2 -config Gateway_devices.cfg MCGatewayLog.tla
    tlc -workers 2 -config Mobile_settles.cfg MCMobileSync.tla
    tlc -workers 2 -config Creation_runs.cfg MCCreationRuns.tla
    tlc -workers 2 -config Catalog_jobs.cfg MCCatalogingJobs.tla
    tlc -workers 2 -config Push_statements.cfg MCPushStatements.tla
    tlc -workers 2 -config Content_mirror.cfg MCContentMirror.tla
    tlapm GatewayLogProofs.tla

`PROJECT.json` maps each definition to the source lines it stands for, and lists
runs, mutants (a plausible bug for every checked property, which TLC finds) and
hazards.

## 1. Inventory

`B` is `src/backend/app`, `K` is
`src/mobile/android/app/src/main/java/com/siming/mobile/data`.

### Synchronisation

| Component | State | Operations | Interacts with | Hard behaviour | Correct when |
|---|---|---|---|---|---|
| Sync store (`B/modules/gateway/infrastructure/models.py`) | tables `sync_changes`, `sync_entity_states`, `sync_tombstones`, `sync_conflicts`, `sync_projects`, `sync_capture_jobs` | rows inserted or updated by the components below | read by bootstrap, pull, list_conflicts | several rows per transaction; everything of a work cascades away with it | one row per revision, states and tombstones follow the log, conflicts are kept as long as their work |
| Mutation applier (`mutation_service.py`) | none of its own | duplicate lookup, conflict detection, projection on the domain, recording of side effects and of the mutation | domain tables through the replication adapter | retries, stale bases, one of several rows failing, reads before the lease | an id takes effect once; no version is skipped; the answer is what the tables hold |
| Gateway service (`service.py`) | manifests and status of works | enable, disable, push, resolve, bootstrap, pull, list_conflicts | called by HTTP routes, some on the event loop, some in threads | re-enabling, content-derived seed ids, two resolutions of one conflict, deleting and restoring a work | enabling reconciles; a conflict is settled once |
| Change capture (`change_capture.py`) | jobs in the writing session and in the table | flush hooks, dispatch after commit, recovery at start | any desktop write; the applier | crash or failure between commit and dispatch, order of jobs, cascades the ORM does not see | every write reaches the log; rows settle at the domain's content |
| Replication adapter (`B/services/gateway_legacy_replication.py`) | domain tables | apply a mutation, snapshot an entity | applier, enabling | deletions that cascade | only the entity and what it owns move |
| Devices and tokens (`service.py`, `token_service.py`) | pairing codes, devices, access and refresh tokens | pair, refresh, revoke | every request of a device | an answer lost after rotation, reuse detection | one live refresh token per device; reuse revokes |
| Phone replica, outbox, loop (`K/SimingRepository.kt`, `K/authoring/LocalAuthoringStore.kt`, `K/local`) | rows with revision, dirty, conflicted; queue of mutations; cursor; open conflicts; receipts | save, delete, push, acknowledge, refresh, pull, choose | the Gateway over HTTP; WorkManager | saves between any two steps of the loop, lost answers, process death, other devices | no edit is lost; the replica converges |

### Writers of the database

| Component | State | Operations | Interacts with | Hard behaviour | Correct when |
|---|---|---|---|---|---|
| Write coordination (`B/database/write_coordination.py`, `session.py`, `B/architecture/uow.py`) | process lock, lock file, a lease in each connection's info | acquire before the first write statement, give back after commit, rollback or check-in | every session; listeners that write after a commit | savepoints, time limits, coroutines and threads on one lock, ends of processes, listeners that need the lock just held | write transactions one after the other, no wait without end |

### Background runs

| Component | State | Operations | Interacts with | Hard behaviour | Correct when |
|---|---|---|---|---|---|
| Stage runs and claims (`B/services/novel_creation_runs.py`, `novel_creation_claims.py`) | `novel_creation_stage_runs`, `novel_creation_run_claims` | claim or replay, create, complete, fail, confirm, recover | routes, the task, recovery at start | repeated requests, retries, runs that end while others begin | one producer of a target; a claim held exactly while its run lives |
| Task runtime (`novel_creation_task_runtime.py`, `novel_creation_stage_execution.py`) | `_CREATION_TASKS`, draft and its revision | schedule, execute, save a stage, unwind, close | the model, the draft, action handlers | cancellation delivered late, authors editing meanwhile | nothing is saved after a pause or a cancellation, nothing unread is replaced |
| Operations (`B/modules/operations`, `operation_runtime.py`) | `operation_runs`, `_ACTION_HANDLERS` | action, projection, delete, confirm, recover | runs of every kind | two transactions per action | the operation shows how its run ended and offers what can be done |
| Cataloging job control (`B/services/cataloging`, `B/routers/cataloging.py`) | `cataloging_jobs`, `cataloging_chapter_runs`, candidates; `_LAUNCH_TASKS` of each process; `cataloging_required` of chapters | start, plan, review, apply, pause, resume, cancel, change mode, retry, repair, skip, recover, apply pending; phone commits; recovery at start | the model, the archive, chapter saves and rewrites, operations, MCP servers in other processes | controls between two commits of a worker, workers in two processes, chapters rewritten under a plan, restarts | a released chapter is described by the archive; a stopped job can be acted on; a working one has one worker |

### Recycle bin and mirror

| Component | State | Operations | Interacts with | Hard behaviour | Correct when |
|---|---|---|---|---|---|
| Recycle bin (`B/services/recycle_bin.py`, `recycle_snapshot.py`) | `recycle_bin_entries` with snapshots of rows | delete, list, restore, purge, expire | every table of the author's data; chapter rollback; the mirror's outbox | cascades and cleared references, rows edited or deleted since, entries that depend on each other | a restore undoes its deletion and nothing else; no key leads nowhere |
| Content mirror (`B/modules/story/infrastructure/content_sync.py`, `B/services/content_store.py`) | `content_sync_jobs`; files; file name and hash in chapters | enqueue, dispatch after commit, project, recover at start | every save and deletion; the recycle bin | several threads on one job, failures after some files, restarts, removals of files restored since | with no job open, files are what the rows say |

### The rest of the program

| Component | State | Hard behaviour | Status |
|---|---|---|---|
| Operations of other sources than creation runs and cataloging; health and heartbeats | background operations and their states | cancel racing completion, recovery after restart | planned |
| Scheduler (`B/services/scheduler`) | active tasks, last runs | manual and periodic run of one task | planned |
| Assistant runs | runs, approvals | recovery after restart | candidate |
| Context, RAG, conversation context, continuity, model runtime, integrations, local models, packages, skills, phone agents and screens, web frontend, launcher and installer, migrations | texts, files, external services, user interface | mostly data and I/O | not modelled |

`PROJECT.json` has one entry per component with the reason.

## 2. Modules

    SyncStore  <- GatewayLog  <- MCGatewayLog     SyncStoreProofs <- GatewayLogProofs
       ^
       +------ MobileSync  <- MCMobileSync        (with SyncStoreProofs) <- MobileSyncProofs

    WriteLease <. WriteCoordination <- PushStatements <- MCPushStatements
                                            ^--- PushStatementsProofs

    CreationRuns   <- MCCreationRuns               CreationRuns   <- CreationRunsProofs
    CatalogingJobs <- MCCatalogingJobs             CatalogingJobs <- CatalogingJobsProofs

    RecycleBin <- ContentMirror <- MCContentMirror
                        ^--- RecycleBinProofs <- ContentMirrorProofs

(`<-` extends, `<.` is instantiated with a refinement mapping.)

**SyncStore** is the abstract specification: what one committed transaction may
do to the four tables, whatever the service in front of them does. `changes` is
`sync_changes`; `entity` is `sync_entity_states`; `tombstone` and `conflicts`
the tables of those names; `head` is the largest revision in the log. The key is a
plain rowid, which SQLite makes one more than the largest in the table
(`models.py:238`; `AUTOINCREMENT` would need `sqlite_autoincrement`), so revisions at
the end of the log that went with their work are handed out again. A step appends
changes (`AppendChanges`), keeps a refused write beside the version it collided with
(`Dispute`), settles a conflict (`Settle`), or loses every row of a work that is
deleted (`Forget`; all four tables hang on `projects` with `ON DELETE CASCADE`).
`Works` are the works that may be. A content is a model value, told apart from
others only as the code's hash does; `None` is a deletion.

**GatewayLog** is the service, extending the store's variables with `domain`
(the authoring rows), `status` and `manifest` (`sync_projects`), `jobs` and
`jobSeq` (`sync_capture_jobs`), `bin` (the recycle bin's entry of a deleted work: its
rows and its row of `sync_projects`), and `reply` (the last answer to a push that
named a row). One action per committed transaction:

| Action | Code |
|---|---|
| `PushDuplicate`, `PushDisputed` | `_previous_result`: an id already in the log or in a conflict |
| `PushConflict` | `_record_conflict`: base is not the state's revision |
| `PushApplied` | `_project_to_domain`, `_capture_effects`, `_record_applied`: the row, the rows it owns, one change for each that moved, the mutation's own last |
| `PushCreatesProject` | a device brings a new work |
| `ResolveConflict` | `resolve_conflict` with `server`, `client` or `custom` |
| `EnableProject`, `DisableProject` | seeding with content-derived ids, manifest; status |
| `DesktopSave`, `DesktopDelete` | a session's flush and commit, with the capture hooks |
| `DesktopDeleteWork` | a project put into the recycle bin: its rows, its row of `sync_projects` and all that the store has of it go; jobs stay (`models.py:180` has no foreign key), and the session's own jobs join them |
| `DesktopRestoreWork` | `restore_entry`, which brings back what the bin has, and `_capture_restored_rows`, a job for each row |
| `ProcessJob` | `SyncCaptureProcessor._process_one`, after the commit or at the next start; without the work's row the change breaks a foreign key and the job stays |

A mutation that is rejected (size, status, domain checks) records nothing: a
stuttering step. Which rows the session sees of a deleted work, beside the project
itself, is left open (`seen`).

Ids are modelled by what the code hashes or concatenates into them, so two are
equal exactly when the code's are: `<<"seed", k, content>>`,
`<<"effect", id, k>>`, `<<"resolve", conflict>>`, `<<"server", n, k>>`.

**MobileSync** is the phone's side, composed with the same store. `replica` is
`replica_entities`, `outbox` is the rows of `sync_outbox`, numbered in the order
they were made, `cursor` is `sync_cursor`, `opened` is `local_conflicts` with status open, `receipts` says
whether acknowledged `local_receipt` rows wait for cleaning. `pc`, `current` and
`wire` are the coroutine of `syncNowLocked`: where it is, the mutation it read
before, what the Gateway answered last. The loop is split exactly where the code
suspends: each action is one Room transaction or one request, so a save may come
between any two. Deletions need the loop's mutex (`syncMutex`), saves do not.
`LosePush` is the `catch` around the push; `Stop` is process death, the failure
of another request, or the cancellation of the worker by the next `scheduleSync`
(`ExistingWorkPolicy.REPLACE`). `TakeAcknowledgement` removes the acknowledged mutation and moves those behind it
to the new revision; where the row was edited since and nothing of it waits, it
queues the row's content again under a new id (`SimingRepository.kt:1180`).
`made` records the entity and content of every mutation, so that the properties
can ask what became of it. `ChooseHere` and `ChoiceDone` are the two halves
of `resolveConflict`, which runs outside the mutex. Other devices and the
desktop are `OtherWrites`, `OtherDisputes`, `ChooseElsewhere`.

`Coalescing` is the set of entities of the types whose queued edits are merged
(works, outlines, world entries, ...); chapters, characters, foreshadowings and
governance records are not merged. `Refusable` are the entities whose mutations
the Gateway may refuse for good.

**WriteLease** is the abstract specification of the coordination: `writing`, the
connections with uncommitted changes, is never more than one.
**WriteCoordination** is the mechanism below SQLAlchemy's sessions: `gate` is
`_process_locks`, `file` the holder of the lock file, `lease` the connections
with a lease in their info, `begun` and `dirty` SQLite's own transaction and
its changes, `savepoint` whether an open savepoint is inside a transaction or is
one (then its release commits), `at` where the session is. A coroutine shares
the thread of its event loop: `Runs` holds a step back while another connection
of its thread is waiting for a lock, which is how a push blocks the loop.
`WantsLease`, `PassesGate`, `LocksFile`, `GateTimesOut`, `FileTimesOut` are
`acquire`; `Saves`, `Releases`, `RollsBackTo` are `begin_nested`; `LeaseReturned`
is `_release_session_write_leases`, which runs before the listeners that write
(`Dispatches`); `Crash` ends a process.

**PushStatements** puts the statements of the sessions on it. `store` is the
committed database (row, state revision, log, open capture jobs, conflicts),
`view` what a connection's open transaction sees, with SQLite's rules: what is
read before the transaction begins is what is committed then, a snapshot that
became stale cannot be written on (`Stale`). `task` is the session's program. A
push checks, saves, projects, releases, records and goes on to its next mutation
(`PushChecks` ... `PushRecords`), or disputes, rejects, breaks; a mutation that the
store already has, that is over the size limit or whose work is not enabled ends
without a statement that begins a transaction (`PushSkips`); a desktop save
writes the row and its capture job, commits and dispatches (`SaveWrites` ...
`JobCommits`); an import writes, awaits a model and writes again. `GatewayLog`
takes a mutation for one step; this module shows what that step is made of, and
for which mutations it is one (see the departures).

**CreationRuns** is the creation of a draft by background runs.

| Variable | Code |
|---|---|
| `run` | rows of `novel_creation_stage_runs`; `done` is the stages its events call completed, `result` what `result_json` holds, told apart as recovery does |
| `claim` | rows of `novel_creation_run_claims`, by idempotency key |
| `op` | rows of `operation_runs` with the actions they offer |
| `finished` | the order of the runs' `completed_at` |
| `draft`, `revision` | the session's draft, stage by stage, and its revision |
| `task`, `handlers`, `card` | `_CREATION_TASKS`, `_ACTION_HANDLERS`, the presentation that is being computed |
| `loop` | which commit of the event loop's current step is next |
| `torn` | for the properties only: runs that a stop left between two commits of one step |

One process with one event loop executes all of it, so an action is what runs
from one commit or `await` to the next. Where a step commits twice (`Start` then
`Create`, an action then `Project`, `Confirm` then `ConfirmRun` then `Complete`,
the last `Save` then `Finish`), `loop` says what is left and only `Crash` can come
between. `task[r].cancel` is the cancellation asyncio delivers when the task is
next resumed, which may be much later. `Crash` is a stop and the next start with
both recoveries. `Begin`, `Save`, `Fail`, `Unwind`, `Vanish` and `Close` are the
steps of a task; `Cancel`, `Pause`, `Continue`, `RetryUnit` and `RetryAsNew` the
actions of the author; `Edit` and `Confirm` the author's work on the draft.

A target says which stages a run generates and which unit of them: the stage as a
`Whole`, an entity, or a new one. `Start` compares the running runs by their stages
only, and claims by the whole target; `RetryAsNew` claims the stage as a whole
(`Widened`) whatever it generates of it. Runs of `Concepts` go through a function of
their own: they ask for no checkpoint (`Remaining`), and unwinding they see their row
as it was before the model's call (`Seen`).

Runs in `Hurried` have an author who acts at any moment, also before their task
has taken its first step and while it unwinds; the others are acted on while
their model answers or when no task is left. A key is used for one target, as
clients derive it from the request.

**CatalogingJobs** is the analysis of chapters into the archive. `chapter` has
the version, the version at which the text last changed its meaning (a polish
keeps it), `cataloging_required`, and the text the archive describes; `job` the
rows of `cataloging_jobs` with the status their operation shows; `run` the chapter
runs with the state of their plan; `task` the worker of each process in
`_LAUNCH_TASKS`. An action runs from one commit to the next; a worker is at
`loop` (a turn of `stream_cataloging_job`), `model` (the plan is being made),
`planned` (finalised, not yet taken over), `review`, `apply`, `applied`,
`backoff`, `exit`.

| Actions | Code |
|---|---|
| `Begin`, `Vanish` | `run_cataloging_job` before the stream: the lease between processes, a task cancelled before it started |
| `Leaves`, `LeavesUnrecorded` | `run_cataloging_job` after the stream, and `mark_cataloging_worker_failure`, whose own commit may fail |
| `Stops`, `Completes`, `Pauses`, `Extracts`, `ReviewStops`, `WaitsForAuthor` | the turns of the loop |
| `SavePlan`, `FinalizePlan`, `CallFails`, `CallStopped`, `TakesOver` | the model and its submission tool, and what the worker makes of the answer |
| `StartsApplying`, `Applies`, `ApplyFails`, `ApplyRaises`, `BacksOff`, `TriesAgain`, `Finishes` | `_apply_run` |
| `StartManual`, `StartSaved` | `create_and_queue_cataloging_job`: reuse of current runs, superseded jobs |
| `MobileCommit`, `MobileRefused` | `commit_mobile_cataloging` |
| `Pause`, `Resume`, `Cancel`, `SetMode`, `EditPlan`, `Retry`, `Repair`, `Skip`, `Recover`, `ApplyPending`, `ApplyPendingFails` | the author's controls |
| `Polish`, `Rewrite` | saves of a chapter that keep, or invalidate, what the archive says |
| `Restart` | the end of a process, and what the desktop's start does with its jobs and operations |

`LoopFree` says that no worker of the process is between two commits of one step;
coroutines need it, synchronous handlers of the desktop run in pool threads and
do not. `Attended` are the jobs the author reviews, `Phoned` those a phone may
bring, `Hurried` those whose author acts from a pool thread while their worker
holds the loop or is stopping.

**RecycleBin** is the bin over abstract tables: `rows` gives each row its text,
the rows its nullable keys mention, whether it is due for cataloging, whether
its file is recorded, and a stamp (`updated_at`); `Owners` and `Mentions` are the
foreign keys with CASCADE and SET NULL, `Excluded` the tables the recorder does
not know, `Retained` drafts whose discarding keeps the row. `Delete` is
`capture_deletion` with everything in its savepoint: expired entries purged, rows
that go along, cleared mentions, later chapters marked, the entry with before and
after of each remembered row. `Restore` validates and puts back; `Purge`,
`PurgeExpired`, `Expire` and `Edit` are the other ways rows and entries change.

**ContentMirror** composes it with the mirror's outbox. A commit adds jobs to
`jobs` (a request joins the newest open job with its key) and its thread then runs
them: `Look`, `Take`, `Gather`, `Write`, `Finish` are the reads and commits of
`_process_one`, `Fail` and `GiveUp` its errors; `Deletes` and `Restores` need the
outbox `Idle`, and a restore cancels removals. `Restart` and `Started` are the
start-up recovery in thread `Boot`, which ends with the purge of what expired.
`adrift` is for the property only: rows that had two projections at once, or a
file that no row records (see the departures).

A definition marked *Fault* in a comment is a bug the code does not have, used
by a mutant; no run and no theorem uses it otherwise. `TypeOK` of `MobileSync`,
`CreationRuns` and `CatalogingJobs` is proved (`MobileTyped`, `CreationTyped`,
`CatalogingTyped`), so the runs check the deeper properties only.

## 3. Properties and runs

| Run | Instance | Shows |
|---|---|---|
| `gateway_devices` | one work that may leave and re-enter synchronisation, be deleted and restored, its project entity and an entity, 1 device id, 1 content beside deletion, 2 desktop transactions that leave jobs | `TypeOK`, `AnswerIsRecorded`, `BothVersionsKept` under retries, stale bases, capture jobs, resolutions and the deletion of the work; implements `StoreSpec`; `EveryWriteTracked` |
| `gateway_capture` | a work that stays, an entity and a row it owns, 2 desktop transactions, a device id, 2 contents, jobs in any order | `StateIsLastChange` over several rows per transaction; `SettledRowsMatch` |
| `mobile_authors` | 1 entity, 2 edits, 1 foreign write, 1 foreign conflict, choices for the client | `EditSurvives`, `NoStuckConflict`; implements `StoreSpec` |
| `mobile_queue` | 2 entities, one refusable, 3 edits, 1 foreign write, 1 loss, pages that reach the end of the log | `QueueCarriesEdit`, `LogKeepsOrder`, `OnlyRealConflicts` |
| `mobile_settles` | 2 entities, one refusable, 2 edits, 1 foreign write, 1 loss, pages of 1 | `SyncedIsLatest`; liveness: `EveryEditSettles`, `Converges` |
| `creation_runs` | 2 runs (one hurried) of a stage as a whole, an entity of it, or concepts, 1 key, stops between any two commits | `ClaimFollowsRun`, `OneProducer`, `OperationFollowsRun`, `PausedCanGoOn`, `Fenced` |
| `creation_stages` | 1 run of 2 stages or of concepts, author saves up to revision 3 | `AuthorEditKept`, `CheckpointsKept`; liveness: `RunSettles` |
| `catalog_jobs` | 2 jobs (one may come from a phone), 1 chapter saved up to version 2 | `ReleasedIsDescribed`, `StopHasRun`, `OperationFollowsJob`, `WorkingHasWorker`, `CancelStands` |
| `catalog_processes` | 1 job in the desktop and an MCP server, author hurried, reviewing, or on a phone | `OneWorker` |
| `catalog_settles` | 1 job over 2 chapters, reviewed, 2 attempts on a busy database | liveness: `JobSettles` |
| `push_statements` | a push of 2 mutations and an import on one event loop, a save and its dispatch in a thread, a save in another process whose dispatch fails | implements `LeaseSpec`; `CheckedWrites`, `WritesAreLogged`, `NeverWaitsForItself`; liveness: `SessionsEnd` |
| `content_mirror` | a project, 2 chapters, an outline node, a character's appearance, a draft, a row of an excluded table; 2 serving threads and the starting one; 3 events, 2 entries | `RestoreUndoesDeletion`, `ReferencesHold`, `DeletionCanBeUndone`, `MirrorSettles` |

The properties in words are above their definitions. In short: `SyncStore` says
states and conflicts agree with the log; `GatewayLog` that answers are recorded
as long as their work exists, that no row moves without a change or a job of its own
or of what it belongs to, and that rows settle at the domain's content; `MobileSync` that an edit is always in the queue, in the log or
in a conflict, that the queue is in order and carries the newest content, that
the phone never collides with itself, and that a finished loop shows what the
log says; `PushStatements` that a recorded write was checked against all of what
it replaces and that a row which is not what the log says has a job;
`CreationRuns` that a claim is held exactly while its run may still produce, that
nothing of a paused or cancelled run reaches the draft, that what a run replaces
it has read, and that no run stays running without end; `CatalogingJobs` that
what is released for writing on is described, and that rows, operations and
workers agree; `ContentMirror` that a restore is exactly the undoing of its
deletion and that the files end as the rows.

The store's other invariants (one row per revision, an id names one row, no version is
skipped, tombstones and conflicts agree with the log) and the freshness of the
Gateway's ids have no run: they are proved of `SyncStore`, and hold of the
Gateway and the phone because both are checked, and the Gateway proved, to
implement it.

### Where the code departs from its documentation or its purpose

Each of these follows from the models and is reproduced by lifting the
restriction named; the passing runs exclude the trigger and nothing else.

*Synchronisation.*

* Rows removed by the database's cascade alone leave no capture job: the other
  devices are told that what they belonged to is gone, and keep them.
  `EveryWriteTracked` excepts such a row, and only beside a job for that deletion.
* The deletion of a work takes its changes, states, tombstones and conflicts along
  (`models.py:242`, `:273`), although `models.py:265` says 'Permanent preservation of both
  snapshots when base revisions diverge.' `BothVersionsKept` and `AnswerIsRecorded`
  hold up to that deletion. A mutation that is retried after it finds no trace of
  itself and takes effect again, and conflicts are not restored with the work.
* Revisions that were the newest of the log are then handed out again
  (`models.py:238`). The new ones may lie below the cursors of phones, also of other
  works (`service.py:612` gives every phone the largest revision of all), which
  then never pull them; and a mutation based on a revision of the deleted log may
  by chance be based on the reused one, and is applied without a conflict.
* Jobs of a deleted work break a foreign key when they run (`change_capture.py:219`).
  At the next start the first of them ends `process_pending`, which catches nothing
  (`:182`), and the jobs behind it wait. Once the work is restored, its old jobs run too:
  a deletion of that time reaches the log behind the restored content.
* A capture job that missed its dispatch is replayed at the next start, behind
  newer ones (`mutation_service.py:228`, `:236`): a row deleted and restored
  meanwhile stays deleted in the states, or a deleted one comes back.
  `SettledRowsMatch` therefore speaks of rows that were never deleted, alone or with
  their work.
* A push lands on a desktop edit whose capture job is still open, without a
  conflict (`mutation_service.py:57` reads the state row).
* Enabling a work again with a content it was seeded with before keeps the newer
  state (`service.py:534`).
* A mutation whose answer was lost is pending again, and the next edit of the row
  is merged into it (`LocalAuthoringStore.kt:166`): the retry is a duplicate, and
  the edit is lost, although `SimingRepository.kt:1343` says 'Retry its stable ID
  before sending later authoring operations.' With `Coalescing` not empty and
  `MaxLosses = 1`, `EditSurvives` fails. Without a loss, an edit merged between the
  reading and the marking of the queue (`SimingRepository.kt:1112`) is overwritten
  there, and queued again by the acknowledgement: `EditSurvives` and
  `QueueCarriesEdit` fail only in between.
* A pull applies a page to every row that is neither dirty nor in conflict, also
  where the page is older than the row (`SimingRepository.kt:1268`). With pages
  that end before the log, (i) an edit made on a row an old page has just brought
  back is based on that page's revision and collides with the phone's own later
  change, so `OnlyRealConflicts` fails: `mobile_queue` has pages that reach the end
  of the log. (ii) A clean row whose second edit is still queued is brought back to
  older content; the acknowledgement of that edit takes the difference for a newer
  edit, queues the older content and pushes it over the author's. The edit itself did
  reach the log, so `EditSurvives` holds; with four edits and a stop between two
  pages, `QueueCarriesEdit` fails.
* The end of a conflict unmarks a row that was edited meanwhile, a page replaces
  it, and the acknowledgement queues the replacement over the edit in the same way.
* Keeping the server's version leaves the refused content, marked as
  synchronised: with `"server"` in `Decisions`, `SyncedIsLatest` fails. The
  answer to a choice unmarks a row that was edited meanwhile
  (`SimingRepository.kt:1353`): in the instance of `mobile_authors`,
  `QueueCarriesEdit` fails. Another device's conflict makes a phone skip changes
  for good (`SimingRepository.kt:1336`).
* A mutation the Gateway refuses for good holds up everything queued behind it
  (`SimingRepository.kt:1229`): `Refusing` in `EveryEditSettles` and `Converges`.

*Writers.*

* The first mutation of a push that is not skipped, whatever its place in the batch,
  is checked in autocommit: a change committed between that read and the lease is
  overwritten without a conflict. Its savepoint is the whole SQLite transaction, so
  its rows are committed before its change is recorded; a stop in between leaves a row
  that no change and no job speaks of. `CheckedWrites` excepts the changes of such
  mutations (`n = 1`), `WritesAreLogged` a row that still is as one of them wrote it.
  A mutation that was refused or disputed has begun the transaction, so it is the
  only one. The creation of a work by a device (`service.py:668`) has a savepoint of
  its own before its check; it is the same exception and not split here.
* An import holds the write lease while it awaits a model: a push on the same event
  loop waits out the 30 s limit, with the loop stopped.

*Creation runs.*

* A retry through the API is attached to the active claim of another run
  (`routers/novel_creation.py:559`), and both produce; hence `Sole` in
  `ClaimFollowsRun` and `OneProducer`.
* A start claims the entity it generates, or the kind of a new one
  (`routers/novel_creation.py:325`), a retry the stage (`:562`). After a run of an
  entity fails and another of the same entity starts, a retry of the first claims the
  stage and produces the same entity beside it. `OneProducer` therefore speaks of runs
  whose claim is for what they generate (`ClaimsItsTarget`).
* A run of concepts that is interrupted while the model answers does not read its row
  again: it was refreshed before the call (`novel_creation_stage_execution.py:644`),
  nothing expires it, and `novel_creation_task_runtime.py:87` finds it `running`. A
  pause that was committed meanwhile becomes `cancelled`: the run cannot be continued,
  only tried again. `PausedCanGoOn` excepts the change of status for these runs.
* A run of concepts does not look at what its events call completed
  (`novel_creation_stage_execution.py:623`): stopped or failing between the commit of
  the concepts and that of its end, and retried in place, it generates and saves them
  a second time. `CheckpointsKept` excepts them.
* Recovery takes what a failure or a card left in `result_json` for output
  (`novel_creation_runs.py:470`): a failed run retried in place and cut off waits
  for the confirmation of output that does not exist.
* A run continued while its paused task still unwinds, or cancelled before its
  task first ran, is marked running without a task until the next start
  (`novel_creation_task_runtime.py:128`); a run whose operation ended in
  `cancelled` by that unwinding, or was interrupted between the two commits of a
  pause, cannot be continued. Hence `Hurried` and `torn`.
* A run retried in place cannot be paused or cancelled: no transition gives back
  the actions a terminal status withdrew (`Touched`, `OpTo`).
* A confirmation completes the run of the stage that ended last; an older one
  stays waiting. A stop between the confirmation's transactions leaves the
  operation waiting for the author.

`Fenced` and `AuthorEditKept` hold without exception.

*Cataloging.*

* A worker takes a finalised plan over without looking at the job again
  (`orchestrator.py:215`): a pause or a cancellation committed in between is
  overwritten. A pause followed at once by a resume ends in `paused_on_failure`,
  and a resume during a worker's exit leaves the job without a worker. Hence
  `Hurried = {}` in `catalog_jobs` and `catalog_settles`.
* `mark_cataloging_worker_failure` catches the failure of its own commit
  (`launcher.py:286`), for one while the writer that exhausted the worker's attempts
  still holds the lock. Then the job says that it works and no worker does, until its
  author pauses, cancels or retries it or the desktop starts again
  (`LeavesUnrecorded`): `WorkingHasWorker` and `JobSettles` except such a job
  (`Unrecorded`).
* A phone's job that is reopened by a repair or retry is not found by the recovery
  at start (`launcher.py:294`): `WorkingHasWorker`, `CancelStands` and `JobSettles`
  except jobs of phones.
* A desktop start while an MCP server works on a job takes it for lost; the end of
  an MCP server leaves its job running until the next start of the desktop. The
  runs on `WorkingHasWorker` and `JobSettles` have the desktop as their only process.
* Operations of jobs that a rewrite cancelled keep their old status until the next
  start (`OperationFollowsJob` excepts cancelled jobs). A retry of a failed job
  whose chapter got a newer job leaves two runs of one chapter. After a stop
  between the last run's completion and the job's, the author is asked to retry,
  but no run can be retried.

*Recycle bin and mirror.*

* The deletion of a chapter marks the later ones due, and the PROJECT job of that
  same deletion at once rewrites their hash, path and `updated_at`: the restore then
  finds rows changed and refuses, although `src/README.md:104` promises seven days. The
  same happens to an outline node whose deletion is followed by a mirror job.
  `DeletionCanBeUndone` says what remains: a deletion none of whose rows was written
  since, by an author or by the mirror.
* Two projections of one row may write an old text last, and `_process_one` takes a
  job another thread already runs, or one a restore cancelled after it was looked
  at; a request that joins a failed job which another thread still runs is completed
  unserved; a project's restore cancels the removal of a chapter that stays deleted;
  a file written whose commit failed is not known to the deletion of its row. These
  rows are `adrift`, and excepted from `MirrorSettles`.
* A file's front matter keeps the id of a deleted outline node; a restore
  duplicates documents of the search index; pushes to the Gateway add no mirror
  jobs. These are outside the model.

### Bounds

`MaxRevision` bounds the log, `MaxJobs` the desktop transactions that leave
jobs or delete a work, `PushIds` the ids of devices, `MaxEdits`, `MaxOthers`, `MaxRivals`,
`MaxLosses` the edits, foreign writes, foreign conflicts and losses of the
phone's instances. Mutations that an acknowledgement queues again come on top of
`MaxEdits` and are bounded by the acknowledgements. They are enough for the cases the properties are about: two
mutations suffice for a stale base, for one queued behind another of the same
row, and for an overtaking; one foreign write between them for a real conflict;
one loss for a retry (a second adds another retry of the same id); pages of one
change for a page boundary between any two changes. In `gateway_devices` two transactions of the desktop delete a work and restore it, or
save and then delete it, and three revisions are a change, one that answers or
disputes it and one that takes its place; `gateway_capture` has four for the cascades
and side effects of three rows. The bin keeps the newest entry of a work: an older one is as if it were never
restored, and so is one that is purged or expires. An action that would pass a
bound is disabled, so the Gateway's runs stop there (`CHECK_DEADLOCK FALSE`);
the phone's do not deadlock, as the loop can always start again. In
`mobile_settles` the bound on the log leaves room for every write that can happen,
those queued again included, so it never disables the loop.

In `PushStatements` a push has two mutations, since the second is where the check,
the rows and the change are one transaction; each author saves once (`MaxSaves`),
which is what it takes to overtake a push at any statement; processes end without
bound, but a push and an import are not asked for twice. When all have run, the
system rests (`CHECK_DEADLOCK FALSE`).

Of `CreationRuns`, `MaxRevision` bounds what the author saves and `MaxSaved` what
runs save, which matters only to concepts (any other stage is saved once by a run):
there is room for every stage after the author's saves, and for concepts to be
generated again. Two runs on one stage are what claims, retries and the
order of endings need; two stages in one run are what checkpoints and an edit
between two saves need; restarts, failures, pauses and retries in place are not
bounded at all. Of `CatalogingJobs`, `MaxJobs` is two where jobs supersede and
replace each other and one where processes or chapters of one job are the
question; `MaxVersion` 2 is one save or rewrite under every state of a plan;
controls, restarts and retries are not bounded. These runs never deadlock, as the
process can always stop.

In `ContentMirror`, `MaxEvents` bounds what authors do together with failures,
give-ups and restarts; steps of jobs are not bounded. Three events are a deletion,
something in between and a restore, or a save, a failure and a restart. Stamps are
the smallest a row has not had, so twelve never run out; two entries depend on each
other in either order. An entry expires only while no request is under way (none
lasts seven days). With one chapter the same properties were checked with four
events. The run stops when the events are used up (`CHECK_DEADLOCK FALSE`).

Contents, device ids and serving threads are interchangeable and declared
symmetric in safety runs; liveness runs use no symmetry.

### Fairness

`GatewayLog`, `CatalogingJobs`' `Spec` and `ContentMirror` state none: their
properties are safety properties. `MobileSync` has `WF_vars(Loop)`: as long as a
step of the loop is possible, one is eventually taken. The code's reason is
`SyncScheduler`: a unique periodic WorkManager job every 15 minutes and an
immediate one after each edit, with retry and backoff. Nothing is promised about
the author, other devices, or losses, which may happen up to their bound; a
network that fails for ever makes no edit settle, and the property does not claim
it.

`PushStatements` has weak fairness of "some session takes a step": threads and the
event loop run while one can, locks are waited for with a time limit (a time-out is
a step like others), and a model that is awaited answers or fails. Nothing is
assumed of which session goes first.

`CreationRuns` has `FairSpec`: weak fairness of the commit that is due (the event
loop does not stop within a step), and strong fairness of each task's step. The
event loop resumes ready tasks in order, so the author's actions cannot put a
task off for ever, and a call of the model ends by an answer, an error or its
timeout. Strong fairness is needed because each action of the author or each
restart disables the step for a moment. Nothing is assumed of authors, nor that
the process stays up.

`CatalogingJobs` has `FairSpec`: weak fairness of each worker's steps, for the same
reasons. `SavePlan` is not among them: a model may save parts of a plan again and
again, but within its number of steps and its timeout it finalises or fails.

## 4. Proofs

`SyncStoreProofs` and `GatewayLogProofs`, for any entities, contents, works,
ownership, device ids and bounds that satisfy `StoreAssumption` and
`GatewayAssumption` (finitely many entities; an owner belongs to the same work
and is not itself owned; a work's project entity has no owner).

* `StoreTypeCorrect`, `StoreSafe`: the type invariant and the six invariants of
  `StoreInv` hold of `StoreSpec`, deletions of works (`Forget`) and the reuse of their
  revisions included. The inductive invariant `StoreIInv` is their
  conjunction: each part needs the others (that a change is based on its
  predecessor follows from the state being the last change, and so on).
* `StoreKeepsBothVersions`: no step of the store drops or rewrites a conflict, but
  `Forget`, which leaves nothing of its work (`Forgotten`).
* `GatewayImplementsStore`: `Spec => StoreSpec`. Every action of the Gateway is
  a step of the store or leaves its tables alone; all that is proved of the
  store holds of the Gateway.
* `GatewayTypeCorrect`, `GatewayIdsAreFresh`, and the corollaries
  `GatewayMutationOnce`, `GatewaySkipsNoVersion`, `GatewayStateIsLastChange`,
  `GatewayKeepsBothVersions`, `GatewayIsSafe`.

The refinement is not a matter of shape: a store step must use a fresh id, and
the Gateway derives ids by concatenation. The inductive invariant `GatewayIInv`
therefore carries `IdInv`, the ledger of ids: which ids the log can hold at all,
that an effect is logged only with its mutation, that an open conflict's
resolution and an open job's change are not in the log yet; and `RootsStay`, that
a work without its project row has no other row, is not synchronised and has nothing
in the store, so a work brought by a device is new. The proof has one lemma per action; those that touch no row of a work
share `SameWork`.

* `AnswersHold`: `AnswerIsRecorded`. It needs no more than `GatewayIInv`: an answer
  is read from rows that later transactions keep (`NothingIsLost`), and the deletion
  of a work takes rows of that work only (`DeletedAnswerGoes`).
* `WritesAreTracked`: `EveryWriteTracked`, whoever writes and whatever the session
  sees of its cascades (`TracksRows`).
* `SteadyRowsMatch`, `SettledRowsMatchHolds`: the inductive invariant `MatchInv`
  speaks of the rows that never left tracking (`Steady`), of works that were not
  deleted (`Intact`), and of the newest job that waits for each, so it holds with
  cascades and with works that leave synchronisation or go; `SettledRowsMatch` follows
  where no cascade is unseen and no work leaves (`SeesCascades`, `Retirable = {}`), which
  is what its run assumes too.

`MobileSyncProofs`, for any entities, contents, merging, refusals, page size and
bounds that satisfy `MobileAssumption` and `StoreAssumption`, with losses and
stops at any point.

* `MobileImplementsStore`: `Spec => StoreSpec`. As with the Gateway, what has to be
  proved is that a served mutation's id is new: `IdInv` says that ids of the phone
  in the log, in conflicts and in the queue are of mutations it made, and numbers
  not yet made are nowhere.
* `MobileTyped`: `TypeInv`, with `QueueInv` (one row of the queue per id, one
  mutation in the loop at a time, an answer is about that mutation).
* `ConflictsAreShown`: `NoStuckConflict`. It needs that every conflict the phone
  shows, was just listed or is choosing about is one of the Gateway's (`ShownInv`):
  an id says which entity it is about.
* `LogInOrder`: `LogKeepsOrder`. `OrderInv`: whatever is not yet in the log was made
  after everything of the phone that is, and the loop carries the oldest of it; a
  mutation queued again by an acknowledgement is the youngest of all.
* `UnmergedEditsSurvive`, `EditsSurvive`: `ContentInv` follows each mutation through
  queue, loop, log and conflicts. Where edits are merged the statement is false (see
  the departures), so `EditSurvives` is proved under `Coalescing = {}`, the instance
  its run checks, and for each entity that is not merged otherwise.
* `PlainRowsAreLatest`, `SyncedIsLatestHolds`: `LatestInv` says of every clean row
  which change of the log it shows: the one at its revision, unless an edit of the
  same entity is still on its way. It rests on what the loop knows at each place
  (`ServedInv`: a mutation in the log has been answered before the loop pulls;
  `PullInv`: the page it holds is the log between two cursors; `SettledInv`: which
  conflicts are settled but still shown). For rows whose edits are not merged and
  that no settled conflict has touched it holds without conditions;
  `SyncedIsLatest` follows where there are no others (`Coalescing = {}`,
  `Decisions = {}`, the instance its run checks).
* `ConflictsAreReal`: `OnlyRealConflicts`, of every behaviour in which each page the
  phone is given reaches the end of the log (`WholePages`), whatever the size of
  pages: the phone synchronises before more than a page has gathered. When one does
  not, it may be false (see the departures).
  `PushInv` says that only the first mutation of the queue was ever sent, so an
  acknowledgement moves all the others to its revision; `BaseInv`, that rows never
  fall behind and what waits is based on what its row had; `FineInv`, that whatever
  a mutation, a row or an answer on its way is based on, the phone's own changes
  after it are not the entity's last word alone, unless one of them is pushed again.
* `PlainEditsAreQueued`: `QueueCarriesEdit`, for rows whose edits are not merged and
  that no settled conflict has touched, under the same condition. `AheadInv` adds to it what is queued for a clean row: its content too, or
  nothing that the Gateway will accept. So when an acknowledgement finds the row
  different from what was sent, the difference is a later edit that is queued, never
  content of a page.

`PushStatementsProofs`, for any connections, threads, processes, dispatchers and
batches that satisfy `CoordinationAssumption`.

* `LeaseIsBothLocks`: `CoordInv`, the type invariant with `LockOrder` (a lease is
  the lock file and, before it, the lock of the process; who waits for the file has
  the process lock) and `LeasedChanges` (uncommitted changes are under a lease, and
  none is left when a session has committed, rolled back or dispatches). Neither of
  the two is inductive alone: that changes end before the lease needs the order in
  which listeners run, and that no second lease exists needs both locks.
* `CoordinationImplementsLease`: the mechanism implements `WriteLease`, with
  `writing <- dirty`.
* `StatementsImplementLease`: so do the sessions of `PushStatements`: every
  statement is a step of the coordination or none.

* `WritesAreChecked`, `CommittedRowsAreLogged`: the inductive invariant
  `StatementsInv` says of the committed store and of the view of every open
  transaction that each write of the log was based on all before it and that each row
  is what the log says, has a job, or is what the session is about to record
  (`SoundView`); and that what a push has checked inside its transaction is still so
  (`Checked`). It rests on `CoordInv`: only one connection has changes.
* `NoSessionWaitsForItself`: `NeverWaitsForItself`, since the lease is given back
  before the listeners run (`Unleased`).

`RecycleBinProofs`, for any tables, foreign keys, chapters, texts, threads and
bounds that satisfy `TablesFit`, `NoneIsNoRow` and `ProjectOwnsAll`.

* `MirrorKeepsReferences`: `ReferencesHold` of `ContentMirror`'s `Spec`. The
  inductive invariant `BinInv` adds the types of rows and entries. A deletion takes
  a set of rows that the cascading keys close (`HeirsAreClosed`), which leaves the
  links of the others whole (`WithoutKeepsLinks`); a restore puts a row back only
  if each of its keys leads to a row that is there or comes back with it.
* `BinRemembers`, `DeletionsCanBeUndone`, `RestoresUndo`: `EntriesInv` says what an
  entry holds of the rows before and after its deletion. From it, an untouched
  deletion that is still kept validates, and a restore is its undoing row by row.

`ContentMirrorProofs`, for any tables, texts, threads, tries and bounds that satisfy
these and `ChaptersHangOnProject`: a chapter has one cascading key, its project's
(`Chapter.project_id`), and drafts are not chapters.

* `FilesSettle`: `MirrorSettles`. It says nothing of a state with open jobs, so
  what is inductive has to say what makes each file right in the end: `FilesInv`. For
  each row that is not `adrift`, its file is as the row wants it (`AsWanted`) and no
  thread has read anything else that it has yet to write; or there is an open job
  that settles the row and that nobody runs, or whose thread has read what the row
  wants now, or has yet to read (`Fixes`). Which jobs settle a row depends on whether
  it is there: any projection of it, or a removal that takes its file. Three more
  facts keep that: threads in flight run different jobs and have read different rows
  (`FlightInv`); an open removal is of a row that is gone (`RemovalsInv`: why a
  restore must cancel); and the project returns only with its own entry, with every
  chapter that went along (`ProjectEntries`: so the removal of the project's folder
  may be cancelled as a whole). The order in which the recovery runs the jobs does
  not matter to any of it.

`CreationRunsProofs`, for any runs, keys, stages and targets, with stops between any
two commits.

* `CreationTyped`; `FencedHolds`, `AuthorEditIsKept`, `CheckpointsAreKept`: one action
  writes the draft (`SaveWrites`), and its guards, read at that moment, say all three
  (the last but for concepts, whose guard asks nothing).
  They need that runs which do not exist have no task (`PresenceInv`) and that no
  stage is newer than the draft (`VersionInv`). No condition on authors or stops.
* `ClaimFollowsRunHolds`, `OneProducerHolds`: `ClaimInv` adds to `ClaimFollowsRun` that
  a run's claim exists, that what is about to be created has a claim that is held, and
  that two claims of one target are never held at once. That a claim is for what its
  run generates is not among it, since a retry breaks it: it is a condition of
  `OneProducer`.
* `OperationFollowsRunHolds`, `PausedCanGoOnHolds`: `AttendedInv` says, for each run
  that is neither hurried nor torn, how operation, handler and card stand at each
  place its task can be, the commits still due included. That a paused run stays so
  needs besides that a task which has not begun was told of the pause (`ToldInv`).

`CatalogingJobsProofs`, for any jobs, chapters and bounds.

* `CatalogingTyped`, `OneWorkerHolds`: for any processes and authors.
* `ReleasedHolds`: `ReleasedIsDescribed` when the desktop is the only process
  (`DesktopOnly`), whatever its author does from pool threads. `ArchiveInv` adds that
  a run completed at its chapter's version, or just applied, is what the archive
  describes.
* `CatalogingInvariant`: `CatalogInv`, where a worker is (`WorkerOK`) and what its job
  rests at (`StopOK`), for each job, when the desktop is the only process and its
  author waits for the event loop (`Alone`): the conditions of the runs, without
  which the departures listed above apply; a job whose worker's failure could not be
  recorded is the one that may work without a worker. From it `StopHasRunHolds`,
  `OperationFollowsJobHolds`, `WorkingHasWorkerHolds` and `CancelStandsHolds`.

Assumed, beside the named assumptions: nothing (no lemma is left unproved). The
theorems are about the models; TLC and the map tie those to the code.

Only model-checked:

* The liveness properties (`EveryEditSettles`, `Converges`, `RunSettles`,
  `JobSettles`, `SessionsEnd`): TLAPS handles neither fairness nor `ENABLED`.

## 5. What is abstracted or left out

* One committed transaction is one action, except in `PushStatements`. `push` and
  `resolve_conflict` run their synchronous bodies on the event loop, so two of them
  never interleave.
* Payloads are contents; fields, merging of fields, validation and size limits
  are a nondeterministic refusal. Side effects of a projection are any change of
  the rows the entity owns.
* The phone's loop is modelled for one work, which is not deleted (`Works = {}`). Pairing, the first import of a work,
  authoring commands (chapter reordering, relationship replacement, restoring a
  version), cataloging commits on the phone's side, package uploads and the recycle
  bin of the phone are left out. A bound of one choice at a time is named by
  `choosing`.
* Of creation runs: what a stage contains, prompts and progress events; stage
  dependencies (`stale`), patches of single entities and imports; the chat agent
  that runs a generation inline; `auto_confirm`, which no client sends; health,
  heartbeats and attention of operations. The order in which a recovery visits
  its rows is arbitrary.
* Of cataloging: what a plan contains, its validation and the writing of facts,
  characters and outlines (a plan is partial or complete, its application a whole
  that succeeds or is rolled back); local CLI and external agents; deletion and
  reordering of chapters; saves in an MCP server's process; pushes of chapter
  content. The commit of `apply_pending`'s savepoint and its last one are one step.
* Of the recycle bin and mirror: the other mirrored kinds (characters,
  worldbuilding, outline and relationship files), renamed files, title changes and
  reordering; rows that cataloging derives; the revision bump of a creation session;
  idle checks against other tasks than mirror jobs; the search index.
* The 100-conflict limit of `list_conflicts` and payload limits (a captured row over
  the limit stays a job for good).
* Components whose logic is texts, file formats, user interface or calls to
  external services are not modelled: what could be checked of them is data
  transformation, and their state machines are thin. Most of the repository's lines
  are of this kind, so the map covers a small share of them.

## 6. Plan

1. *DeviceTokens*: pairing codes, rotation, reuse detection, lost answers.
   Abstract specification: one live refresh token per unrevoked device.
2. *PhoneImport*: bootstrap's states and cursor in two reads, first import,
   authoring commands; composed with `MobileSync`.
3. *SchedulerEngine* and the other sources of operations: cancellation, overlap of
   manual and periodic runs, restart.
