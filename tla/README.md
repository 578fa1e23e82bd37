# Verification of pusula-desktop

Pusula is an offline sales and instalment ledger for Windows (Tauri: a Rust
core in `src-tauri/`, a TypeScript/JavaScript front end in `src/`) with an
encrypted off-site backup: the desktop encrypts snapshots into a local queue
and relays them to a gateway (`gateway/`, Rust/axum) that keeps them as files
beside a SQLite database. PowerShell scripts restore a backup and build and
publish releases (`scripts/`, `.github/workflows/`).

Every definition is translated from the code at this commit; `PROJECT.json`
("map") names the lines each one stands for.

## 1. Inventory

| Part | State | Operations | Hard behaviour |
| --- | --- | --- | --- |
| Gateway: object lifecycle (`gateway/src/{api,db,storage,main}.rs`) | tables `backups`, `storage_purges`; object files; relay spool; relay, retention and database permits | `upload-url` (cleanup, then reservation), `complete`, `relay`, `status`, startup cleanup, `prune-storage`, `list-backups`, `download-backup` | handlers interleave at every await; a dropped handler's job runs on; crash between hard link and commit, between claim, unlink and finish |
| Gateway: admission (`db.rs`, `api.rs`) | `devices.upload_tokens`, `upload_authorizations`, aggregate bucket | charge one reservation, one relay attempt | refill arithmetic, 24 h window edge, ledger cleanup, cadence |
| Gateway: enrollment (`db.rs`) | `enrollments`, `devices` | issue, revoke, enroll, authenticate | one-time use under concurrent and lost requests, expiry |
| Desktop: backup queue (`src-tauri/src/backup.rs`) | ciphertext and sidecar files, quarantine, device token, `backup-state.json`; locks `snapshot_lock`, `flush_lock`, `state_lock` | snapshot, flush, prune, quarantine, enroll, status | lost responses, crash between file operations, stale binding, clock moved back, lost update of the state file |
| Desktop: schedule (`backup.rs`) | last daily and monthly period, retry times | six-hourly run, manual run | read before an await and written after it |
| Desktop: maintenance (`src-tauri/src/lib.rs`, `src/updater.ts`, `src/data-management.ts`) | reader/writer gate, update lease, watchdog | API request, import, update preparation, install | lock order, time-out racing the installer, cancel of another attempt's lease |
| Desktop: ledger (`src-tauri/src/{api,db,models}.rs`) | SQLite tables of customers, sales, instalments, payments, settings | REST-like API, import, export, acknowledgements | retried requests, instalment split and rounding, paid date, id reuse, safe-integer limits |
| Sales screen (`src/pusula-app.js`, `src/main.ts`, `src/data-management.ts`) | pending payment intents in memory and localStorage, which screen is open | sales and collections, import dialog, first start | lost answers, reloads, a write that localStorage refuses |
| Restore (`scripts/Restore-PusulaBackup.ps1`, `src-tauri/src/lib.rs`) | database base and log, in-progress marker, process lock; per restore: staging directory, candidate, rollback directory | restore with `-Apply`, `-RecoverInterruptedRestore`, guarded start of the application | a statement that throws, Ctrl+C, a kill or a power loss between any two file operations, several restores and the application competing for the lock |
| Release tooling (`scripts/*Release*`, `.github/workflows`) | artifacts, GitHub releases | build, sign, publish, accept | not modelled: sequential tooling around external services |

Interaction: the front end calls the core through Tauri commands; the core's
backup service reads the ledger database through SQLite's online backup and
calls the gateway over HTTP; the gateway's three stores (SQLite, object
directory, spool directory) are shared by its handlers and by the
administration commands of the same binary.

What makes each part correct, and the property that says so:

* lifecycle: a backup presented as completed is on disk (`RecoverableHasObject`),
  nothing on disk is untracked (`ObjectTracked`), the newest backup of a device
  and class and everything inside the window survive (`NewestKept`,
  `WindowKept`), a ciphertext has one open reservation (`OneReservation`, which
  `ImplementsContract` and the proof about the contract give together),
  interrupted cleanups are bounded and resumed (`UnfinishedBounded`,
  `ClaimsFinish`);
* admission: no more bytes than the quota in any 24 hours (`QuotaKept`), cadence
  (`CadenceKept`), a ledger that does not grow (`LedgerBounded`), no more tokens
  than capacity and refill (`BurstBounded`, `BucketsKept`, `RefusalsAreFree`);
* queue: a ciphertext leaves the desktop only when it is safe to
  (`ImplementsOffsiteBackup`, `SomethingRecoverable`), a lost response makes no
  second object (`NoSecondObject`), the queue drains (`QueueDrains`);
* schedule: no period is skipped (`NoPeriodSkipped`) and only a lost record
  makes a second artifact (`OnlyLossDuplicates`);
* maintenance: nothing is written between a snapshot and the installer or the
  replacement it was made for (`UpdateSnapshotCurrent`, `ImportRecoverable`),
  and every command gets its locks (`EveryCommandEnds`);
* ledger: no sequence of requests gives the ledger an amount, a reference or a
  request key that its own export refuses (`MoneyExportable`), paid dates follow the payments (`PaidDateCurrent`), a
  collection that is replayed is entered once (`ReplayedOnce`), an interrupted
  import is verified before the screen opens and never locks it for good
  (`VerifiedBeforeUse`, `StartupOpens`);
* restore: an application that may start finds a whole database (`StartsWhole`),
  the plaintext of an incident is gone before the marker that records it
  (`PlaintextResolved`); and unless a recovery is started while the restore it
  undoes is still to remove its rollback directory (section 5), what the
  application left is never lost (`OldKept`), the incident can be undone
  (`IncidentRecoverable`), and repeated recoveries end it (`RecoveryConverges`);
* enrollment: after a revocation or a lost answer the queue drains under the next
  device and stores nothing twice (`QueueDrains`, `NoSecondObject`).

## 2. Plan

| Step | Modules | State |
| --- | --- | --- |
| 1 | `BackupGateway`, `BackupGatewayProofs` | done |
| 2 | `GatewayContract` (abstract), `GatewayRefinement`, `GatewayContractProofs` | done |
| 3 | `TokenBucket`, `Admission`, `AdmissionProofs` | done |
| 4 | `BackupQueue`, `OffsiteBackup` (abstract), `QueueRefinement`, `BackupQueueProofs` | done |
| 5 | `Schedule`, `Maintenance`, `Ledger` | done, see section 7 for what they leave out |
| 6 | `Restore`: marker, swap, rollback and the process lock, with errors, kills and power losses; `RestoreProofs` | done |
| 7 | `ComponentProofs` (schedule, maintenance, token bucket), `FiniteSums`, `LedgerProofs` | done |
| 8 | Enrollment: revocation, re-enrollment and refused credentials are actions of `BackupQueue`; the one-time code is not modelled | see section 8 |
| 9 | A desktop that was offline for weeks against the cadence of the gateway | not modelled, see section 8 |
| 10 | The pure algorithms (division into instalments, parsing of money) | not modelled, see section 8 |
| 11 | Theorems: every invariant and both refinements that the passing runs check | done |
| 12 | That the gateway's side inside `BackupQueue` is a behaviour of `GatewayContract`, so that the two refinements compose | open |

The number of runs is kept small, so later modules share runs with the ones
they compose where the questions allow it.

## 3. Modules and the code

Every module says in its header what it stands for. Operators preceded by a
comment "Mutant:" are mutations of the operator that follows: they are not part
of the model, and `PROJECT.json` names the property that each of them breaks.

* **`BackupGateway`** (`gateway/src/api.rs`, `db.rs`, `storage.rs`, `main.rs`).
  `row` is the table `backups`, `purge` is `storage_purges`, `object` the object
  directory, `task` the handlers with their program counters at each await,
  `detached` the blocking jobs whose handler was dropped, `relaySlot` and
  `retentionSlot` the two semaphores of capacity one. `upload-url` is
  `UploadCleans` or `UploadSkipsCleanup`, then `Claim`, `Unlink`, `Finish` for
  each candidate, then `Reserve`. `relay` is `StartExchange`, `Lookup`, `Admit`,
  `Spool`, `Publish`, `Confirm`; `complete` is `Lookup`, `Verify`, `Probe`,
  `Mark`. `StartPruner` is the cleanup of the start and `prune-storage`.
* **`GatewayContract`**: the promise to a desktop, one backup at a time.
  `GatewayRefinement` gives the mapping from `BackupGateway`.
* **`TokenBucket`**: the arithmetic of both buckets, of one device in the
  database and of the aggregate in memory; **`Admission`**: ledger, cadence,
  pending limit and the bucket of each device. Its `BucketsKept` says that the
  charges of each device are a behaviour of `TokenBucket`, whose own properties
  are proved and not run. `admitted` is no state of the code: it records when
  each device was admitted, for the properties to speak of.
* **`BackupQueue`** (`src-tauri/src/backup.rs`): `cipher` and `sidecar` are the
  two files of an artifact, `flush` the one flush under `flush_lock`, `late`
  the requests that the desktop gave up and that the gateway may still serve
  (a set: equal ones are served once). The gateway's side keeps the promises of
  `GatewayContract` for one lane. `OffsiteBackup` is the abstract promise,
  `QueueRefinement` the mapping.
* **`Schedule`** (`run_scheduled_at`, `status`): the two recorded periods, the
  queue, and who holds `flush_lock` while it waits for the network. `status()`
  holds `state_lock` only while it reads or writes the file, and waits for the
  network in between.
* **`Maintenance`** (`lib.rs`, `updater.ts`): `writer` and `readers` of the
  gate, `snapshot` for `snapshot_lock`, the update lease, its watchdogs, and the
  renderer and installer that outlive each other.
* **`Ledger`** (`src-tauri/src/api.rs`, `db.rs`, `src/pusula-app.js`,
  `src/data-management.ts`): `ledger` holds the four tables with foreign keys
  and request keys, `pending` is the import still to be verified, `page` what
  the window shows, `job` a running import, `intents` and `stored` the pending
  payments in memory and in localStorage, `calls` collections under way. One
  transaction is one step. The answer to a collection arrives in the step that
  makes it: nothing depends on the time between, except a page that is gone,
  and a call whose page is gone is not `heard`. `LedgerAssumption` says what the
  files and orders may hold: any rows, with request keys of another installation.
* **`Restore`** (`scripts/Restore-PusulaBackup.ps1`, `initialize_guarded_database`
  in `lib.rs`): `base` and `wal` are the database file and its log, and
  `Reading` what SQLite makes of the two, a log over a foreign base included.
  `marker` is `.pusula-restore-in-progress.json` and whether it was flushed,
  `rollback`, `candidate` and `staging` are the files of each restore, `holder`
  is `.pusula-database.lock`, `run` what the holder remembers between statements:
  one program counter per statement that changes a file. `finally` is `Release`,
  which gives the lock up, then `CleanPlaintext` and `Discard`, which run without
  it: `at` says of each script what it still has to remove, and recoveries, other
  restores and the application may act in between. `hasty` is no state of the
  code: it records that a recovery was started while the restore it undoes was
  still to remove its rollback directory. `RecoveryStops` is a recovery whose
  directory goes under it. `Fail`, `SwapFails` and `UndoFails` throw (catch and
  finally run), `Cancel` is Ctrl+C (only finally runs), `CleanupFails` is a path
  that cannot be removed, `Kill` and `Power` run nothing.
* **`BackupGatewayProofs`**, **`GatewayContractProofs`**, **`AdmissionProofs`**,
  **`BackupQueueProofs`**, **`LedgerProofs`**, **`RestoreProofs`** and, for the
  schedule, maintenance and the token bucket, **`ComponentProofs`**: the theorems
  of section 7. **`FiniteSums`** holds what several of them need: induction over
  finite sets, greatest elements, and sums.

## 4. Runs

Bounds are the CONSTANTS marked "bound" in each module.

| Run | Instance | What it shows |
| --- | --- | --- |
| `gateway_crash` | two requests, the pruner, two ciphertexts of one lane, three reservations, crashes | all guarantees of the lifecycle, and the refinement of `GatewayContract`; two ciphertexts compete for the newest place and a third reservation follows a retired one |
| `gateway_abort` | one ciphertext, crashes and dropped handlers | that every object stays tracked without the permits, and that claims finish |
| `gateway_newest_lost` | dropped handlers | **violated**, see section 5 |
| `admission_day` | two devices, a daily and a rolling ciphertext, two windows of three units | quota, cadence, ledger, buckets and the price of refusals under retries, completion and cleanup |
| `queue_damage` | three rolling artifacts, a limit of two, crashes, damaged files, retired backups | what is left of a class under pruning, damage and retention |
| `queue_network` | a rolling and a local artifact, a limit of one, two devices, a late request, crashes, revocation | no second object, drain, refinement of `OffsiteBackup` |
| `schedule_periods` | three days in months of two, at most two artifacts of a period, manual flush, status, crash | nothing skipped, only losses duplicate |
| `schedule_duplicate` | the same | **violated**, see section 5 |
| `maintenance_update` | two concurrent commands, two leases, reloads, replacement | locks, lease and watchdog |
| `ledger_day` | one customer and sale, two instalments, two payments, two days, two keys, two collections under way, one import | the ledger, replays and imports |
| `import_reload` | the same, and the page may reload during an import | **violated**, see section 5 |
| `restore_swap` | two restores, recoveries, the application, four contents, three faults of any kind | what a start finds, and in which order plaintext and marker go; and, unless a recovery starts too early (section 5), what is never lost and that incidents can be and are resolved |

The bounds are the smallest at which the hazards of `PROJECT.json` occur: two of
everything that competes (requests, devices, instalments, keys, leases), one
more where an order of three matters (reservations of one lane, artifacts of
one class), and one unit of time beyond each window. Every property has a
mutation of the code that the same run refuses, which shows that the bounds
reach the case it is about. `gateway_crash` uses the symmetry of requests and
ciphertexts; it checks no liveness.

Deadlock is not checked in `admission_day`, where the bound on time ends the
behaviour, nor in `restore_swap`, where the system really may stop: an incident whose marker or
rollback directory is not whole refuses every start, restore and recovery.

## 5. What does not hold

* **`AckedNewestKept`** (`gateway_newest_lost`): the permits that keep cleanup
  and relay apart are locals of the handler, while the claim transaction runs
  on in `spawn_blocking` when the client disconnects. It may claim a reservation
  a relay is about to complete, and the next cleanup removes what was
  acknowledged as the newest backup. `gateway/README.md:69-71` promises
  otherwise. `NewestKept` is therefore checked without dropped handlers.
* **`OnePerPeriod`** (`schedule_duplicate`): `status()` writes back the state it
  read before it waited for the network, and so undoes the record of a
  scheduled run; when its artifact has left the queue a second one is made.
  `docs/OFFLINE_ACCEPTANCE_TEST.md:87-88` asks for none.
* **`VerifiedBeforeUse`** with reloads during an import (`import_reload`): an
  import that still waits for the snapshot lane runs on when its page reloads,
  and commits under a screen that has found nothing to verify
  (`data-management.ts:292-295`). What is entered there makes the verification
  of the next start fail.
* The watchdog after ten minutes, or the `cancel` of a second attempt by a
  reloaded renderer, opens the gate under an installer that still runs, although
  `lib.rs:481-483` speaks of no write before the installer. `Maintenance` states
  `UpdateSnapshotCurrent` for the renderer that started the installer and the
  time its watchdog is armed.
* An incident that nobody can recover, in `Restore` the states that are marked
  and not `CanRecover`: on a machine without a database the rollback directory
  is kept only after the move, and with one only from the detaching of the log
  on. If before that a flush of the marker fails or Ctrl+C comes, or the move
  fails and its candidate cannot be removed, `finally` deletes the rollback
  directory while the marker stays. From then on the recovery ("rollback
  directory was not found", `Restore-PusulaBackup.ps1:704-706`), the application
  and every restore refuse, although `ps1:1300`, `ps1:1416` and
  `docs/RESTORE_HARNESS.md:145-151` send the operator to
  `-RecoverInterruptedRestore`. The database is as it was, unless a recovery
  starts too early (next entry); the marker has to be removed by hand.
  `IncidentRecoverable` therefore speaks of a database that is not whole, and
  `RecoveryConverges` of a marker and a rollback directory that are. A marker torn
  by a power loss is documented to fail closed.
* A recovery that starts too early loses data. `finally` releases the lock first
  (`Restore-PusulaBackup.ps1:1673-1676`) and only then removes candidate, staging
  directory and, unless it is kept, the rollback directory (`1678-1692`), each
  with retries of up to a second (`1080-1089`). On the paths of the previous entry
  that have a database, the lock is free while marker and rollback directory are
  both whole. A recovery started at that moment accepts the marker and moves the
  live log into the rollback directory (`1209-1217`), which the first script then deletes: what was
  only in the log is lost, and every later recovery refuses (`704-706`). The
  same happens to the database when the recovery's own swap fails half done. TLC
  finds both when the hypotheses are taken away: `OldKept` and
  `IncidentRecoverable` are violated without `~hasty` (with `MaxFaults = 1` by the
  moved log), and `RecoveryConverges` without `~Condemned(TheMarker.of)`, since
  the directory may go before a recovery has ended.
  `docs/RESTORE_HARNESS.md:145-151` sends the operator to the "lock-gated recovery"
  without a word of it. `StartsWhole` and `PlaintextResolved` hold all
  the same: the marker keeps the application from the database. A release of
  the lock after the cleanup would make the hypotheses unnecessary. The number of
  runs is kept small, so this has none of its own.
* An export that the application's own data stops: `update_contact`
  (`api.rs:521-544`) checks only lengths, so one PUT may leave a contact with four
  empty fields; `validate_bundle` refuses such a contact ("Boş iletişim kaydı
  oluşturulamaz", `db.rs:904-906`), and with it every export until the contact is
  filled or deleted. Contacts are not modelled, so no run shows it, and
  `MoneyExportable` claims only what its name says.
* `docs/RESTORE_HARNESS.md` lists the copy of the candidate after the marker; the
  code copies it before, so a kill in between leaves a decrypted file that no
  marker records. `PlaintextResolved` speaks of recorded incidents.

## 6. Fairness

Safety runs use none. `ClaimsFinish` assumes that a running handler makes its
next step, that the service is started again, and that requests for
reservations keep coming (the desktops' scheduler asks every six hours); it
speaks of behaviours in which crashes and failing cleanups end. `QueueDrains`
assumes a flush lane that never waits but for a response, requests that end, a
scheduler that asks for the fair `flush_lock` every six hours, and, as the
hypothesis of the property, an outage that ends and a token that stays valid.
`EveryCommandEnds` assumes that tokio's locks are first come, first served
(strong fairness of each acquisition, as other holders come and go), that
commands and watchdogs end, and that an installer ends one way or the other.
`RecoveryConverges` assumes that a script that runs makes its next step, that of
its cleanup included (`RestoreStep` or `CleanUp`), and that
the operator runs the recovery again when it was interrupted and the lock is
free (strong fairness of `StartRecovery`: another restore may hold the lock in
between); faults are bounded.

## 7. Proofs

| Theorem | Statement |
| --- | --- |
| `BackupGatewayProofs!TypeCorrect` | `Spec => []TypeOK` |
| `BackupGatewayProofs!RecoverableBackupsExist` | `Spec => []RecoverableHasObject` |
| `BackupGatewayProofs!ObjectsTracked` | `Spec => []ObjectTracked` |
| `BackupGatewayProofs!ClaimsBounded` | `Spec => []UnfinishedBounded` |
| `BackupGatewayProofs!NewestAlwaysKept` | `NoAborts /\ Spec => []NewestKept` |
| `BackupGatewayProofs!AckedNewestAlwaysKept` | `NoAborts /\ Spec => []AckedNewestKept` |
| `BackupGatewayProofs!WindowAlwaysKept` | `NoAborts /\ Spec => []WindowKept` |
| `BackupGatewayProofs!ContractImplemented` | `NoAborts /\ Spec => ImplementsContract` |
| `BackupGatewayProofs!LaneAlwaysRecoverable` | `NoAborts /\ Spec => []LaneRecoverable` |
| `BackupGatewayProofs!OneReusableAtATime` | `NoAborts /\ Spec => []OneReusable` |
| `GatewayContractProofs!OneReservationAtATime` | `CSpec => []OneReservation` |
| `GatewayContractProofs!LaneNeverEmptied` | `CSpec => []LaneNeverEmpty` |
| `AdmissionProofs!TypeCorrect` | `Spec => []TypeOK` |
| `AdmissionProofs!CadenceAlwaysKept` | `Spec => []CadenceKept` |
| `AdmissionProofs!QuotaAlwaysKept` | `Spec => []QuotaKept` |
| `AdmissionProofs!LedgerAlwaysBounded` | `Spec => []LedgerBounded` |
| `AdmissionProofs!RefusalsCostNothing` | `Spec => []RefusalsAreFree` |
| `AdmissionProofs!BucketsAlwaysKept` | `Spec => BucketsKept` |
| `ComponentProofs!BucketTypeCorrect` | `BucketAssumption /\ BSpec => []BTypeOK` |
| `ComponentProofs!BurstsBounded` | `BucketAssumption /\ BSpec => []BurstBounded` |
| `ComponentProofs!RefusalsCostNothing` | `BucketAssumption /\ BSpec => []RefusalsAreFree` |
| `BackupQueueProofs!QueueTypes` | `Spec => []QTypeOK` |
| `BackupQueueProofs!NothingTwice` | `Spec => []NoSecondObject` |
| `BackupQueueProofs!NotEverythingLost` | `Spec => []SomethingRecoverable` |
| `BackupQueueProofs!QueueImplements` | `Spec => ImplementsOffsiteBackup` |
| `ComponentProofs!ScheduleTypes` | `SSpec => []STypeOK` |
| `ComponentProofs!NothingSkipped` | `SSpec => []NoPeriodSkipped` |
| `ComponentProofs!DuplicatesByLossOnly` | `SSpec => []OnlyLossDuplicates` |
| `ComponentProofs!MaintenanceTypes` | `FairSpec => []MTypeOK` |
| `ComponentProofs!UpdatesCurrent` | `FairSpec => []UpdateSnapshotCurrent` |
| `ComponentProofs!ImportsRecoverable` | `FairSpec => []ImportRecoverable` |
| `LedgerProofs!LedgerTyped` | `Spec => []LTypeOK` |
| `LedgerProofs!MoneyAlwaysExportable` | `Spec => []MoneyExportable` |
| `LedgerProofs!PaidDatesCurrent` | `Spec => []PaidDateCurrent` |
| `LedgerProofs!CollectionsEnteredOnce` | `Spec => []ReplayedOnce` |
| `LedgerProofs!StartupAlwaysOpens` | `NoReloads /\ Spec => []StartupOpens` |
| `LedgerProofs!ImportsVerifiedFirst` | `NoReloads /\ Spec => []VerifiedBeforeUse` |
| `RestoreProofs!RestoreTypes` | `Spec => []RTypeOK` |
| `RestoreProofs!WholeStarts` | `Spec => []StartsWhole` |
| `RestoreProofs!IncidentsRecoverable` | `Spec => []IncidentRecoverable` |
| `RestoreProofs!PlaintextGoesFirst` | `Spec => []PlaintextResolved` |
| `RestoreProofs!NothingLost` | `Spec => []OldKept` |

They hold for every value of the constants that satisfies the ASSUMEs of the
modules, bounds included: any number of requests, snapshots, days, commands,
rows, restores and faults. Some theorems have a hypothesis on a constant, which
section 5 shows to be needed: `NoAborts` (`Faults` has no dropped
handlers, as in `gateway_crash`) and `NoReloads` (the page does not reload
during an import, `ledger_day`). The hypothesis of `IncidentRecoverable` and
`OldKept` is in the properties themselves: `~hasty`, which section 5 shows to be
needed.

* `RecoverableHasObject` is not inductive: a handler marks a row completed some
  awaits after it saw the object. The invariant of the proof adds that a handler
  (or its detached job) about to mark a backup found or made its object, and that
  an object is unlinked only under a committed claim, which excludes its row from
  recovery; so the proof covers dropped handlers and crashes too.
* The other guarantees of the gateway rest on a summary of all its steps. `Effect`
  says what a step may do to rows, claims and files, and `Deed` also what it does
  to the handlers that work on a backup: those that relay it and those that will
  finish its claim. `Permits` says who holds the semaphores at each await.
  `LifeInv` is inductive with and without dropped handlers: what is relayed is
  live, what is being finished has lost its object. `CalmInv` needs that no
  handler was dropped: then a claim runs only while nothing is relayed, so a
  backup about to be completed is never claimed, and the newest one of a lane is
  excluded by the claim itself. The refinement of `GatewayContract` maps each
  deed to a step of the contract or to none, and its theorems then hold of the
  gateway (`LaneRecoverable`, `OneReusable`).
* `Admission`: the cadence is inductive: a new row is an interval away from every
  live one of its class, and no other step moves a row or makes it live again.
  `QuotaKept` needs that what the last 24 hours admitted is
  still in the ledger although every charge deletes old lines (`QuotaInv`).
  `LedgerBounded` needs both: a charge deletes an old line if there is one, so a
  ledger that grows lies in the window, where the quota bounds the lines of each
  device.
* `LaneNeverEmpty` needs that an acknowledged backup was reserved, so that its
  lane no longer changes; `OneReservation` is inductive.
* `BurstBounded` needs the relation between the level and the past: for each
  admission, what is left now is at most what a full bucket at that time and the
  refill since then leave after the admissions between. `RefusalsAreFree` needs
  the opposite bound, that the level is never below what the refill since the
  last admission gives.
* `BackupQueue`: `NoSecondObject` says nothing of reservations, so the invariant
  speaks of the backups that may still be stored (`Storable`): the stored ones,
  and the open reservations that a sidecar, an object on disk or a late request
  names. The only storable backup of the ciphertext of a queued, undamaged
  artifact is its own binding (`UniqueInv`). A new reservation is not storable
  before `Bind`, which binds only an unbound artifact; a late completion or relay
  was sent for a binding; and `Unbind` drops a binding only after an answer that
  says no storable backup has this ciphertext (`FlushInv`), which stays true
  while the flush holds the answer. The refinement needs three facts from the
  same invariant: a failed verification means damage (`FilesInv`), the count of
  newer artifacts that made a victim does not shrink while older ones are pruned
  first, and a completion answers for the artifact the flush is working on.
  `SomethingRecoverable` is proved from the refinement: an undamaged artifact that
  left was acknowledged or crowded out by a full class (`LeftInv`, kept by every
  step of `OffsiteBackup`), so the newest undamaged one of a class is queued or
  acknowledged, and the gateway keeps one of each lane it acknowledged (`LaneInv`).
* `Schedule`: `NoPeriodSkipped` needs that whatever `status()` or a run holds in
  memory, and not only the file, names periods whose artifacts were made
  (`DoneInv`). `OnlyLossDuplicates` is proved as "`RecordInv` or a record was
  lost": the file never names a later period than the current one, the memory of
  a run agrees with the file on the classes still to do, and every artifact made
  is recorded, or is the one about to be. The period of a month is a division, so
  the proof needs that it is monotone.
* `Maintenance`: `LockInv` says who holds each lock at each program counter, and
  that leases are numbered in order. A writer or reader at work excludes a lease,
  so nothing is written while an installer's lease is active, and a second
  destructive import is never between its snapshot and its replacement.
* `Ledger`: `Sane` says of the tables that rows refer to rows, that no instalment
  is overpaid and no key used twice, and that the paid date of every instalment
  that is not in a given set of stale ones is right. Each operation of the API is
  shown to keep it, in the order of its statements: one that changes a payment
  makes its instalment stale and the recalculation at its end cures it; the rows
  of a sale are a fold, kept by induction; an import joins the rows of two tables
  that share no number. `ReplayedOnce` is about pairs of an instalment and a key,
  those of payments and of collections under way (`Once`): a key that is not
  settled is named by the intents in memory and in localStorage alike, and is the
  newest of its instalment. `StartInv` and `ScreenInv` relate the screen, the
  running import and the one still to be verified.
* `Restore`: `RestoreInv` has six parts: logs are written over databases that
  exist; which marker may be there at each statement of the holder; where
  plaintext may lie; what base, log and rollback directory contain together
  (the content of a marked rollback directory is whole or was verified, and an
  unsound database has one); what the running script may rely on at each
  statement; and, as long as no recovery started too early (`TimelyInv`), that the
  rollback directory of a marker is there while a recovery works under it or an
  unsound database needs it, and is about to be removed only while nobody works and
  the database is sound. `OldKept` needs a second invariant on top of it (`KeptInv`): what the
  application left is in another rollback directory or in the script's own one
  from its first copy until the database itself holds it again.

Every invariant and both refinements of the passing runs are proved. Only
model-checked: the liveness properties (`ClaimsFinish`, `QueueDrains`,
`EveryCommandEnds`, `RecoveryConverges`), which need ENABLED and are out of the
prover's reach.

Induction is out of reach only where a theorem takes an operator as its parameter.
`FiniteSums` therefore states induction over a finite set with the set of its
good subsets in place of a predicate, derives it from the least element of a
well-founded relation, and proves with it what `MapThenSumSet` gives for a
smaller or larger set; the fold over the rows of a sale is proved in the same
way.

## 8. Abstractions

* Names, texts, contacts, profiles, reports and rendering; JSON, money and date
  parsing; encryption and checksums (a file is whole or damaged).
* The refill of the token buckets is exact where the code rounds in f64.
* Clocks do not run backwards. The gateway computes the elapsed time as a signed
  difference, so a clock set back would take tokens away.
* Except in `Restore`, a crash ends the process and not the power: what was
  written is on disk.
  The code syncs files and directories before it relies on them; that
  `remove_object` reports a missing file without a sync is not modelled.
* `CleanupLimit` is the same before and after a restart.
* Files are damaged between flushes, not under one. `SomethingRecoverable`
  supposes fewer damaged artifacts of a class than the queue keeps, and that no
  damaged one was sent: `reconstruct_queue_metadata` gives a ciphertext whose
  sidecar is lost the hash of what is there, so one that is damaged as well is
  uploaded like any other, and may become the newest backup, the one that
  retention keeps.
* Sums of money stay within the safe integers of JavaScript. The code checks
  each amount when it is entered and the sums only when it reads them
  (`db.rs:772`), so beyond that bound the start of the page fails.
* No import is asked for while a collection is under way, and one at a time. The
  files are those of another installation or of the web version: `ReplayedOnce`
  says nothing of an import of this installation's own earlier export.
* The screen opens, with everything it reads, in one step, and an application
  that ended is started again in the step that ends it.
* Export changes nothing and has no action. What it asks of references, amounts
  and request keys is `MoneyExportable`; what it asks of texts, dates, contacts and
  the profile is left out, and section 5 shows that a contact can fail it.
* `Restore`: the `-shm` file and the temporary `.pusula-rollback-*` and
  `.pusula-interrupted-rollback-*` copies are left out (no marker records them; a
  kill leaves them behind). Each statement is atomic, except that a swap may
  report an error having done nothing, half or all of it, and a marker may be
  written in part. The removal of candidate and staging directory after the
  release is one step, that of the rollback directory another; the directory is
  there, for a recovery, until that step, although its files go one by one. By the
  time a recovery starts, the operating system has written an unflushed marker, and
  renames become durable in their order. There is one marker file and one backup
  to restore; validation ends in `Stage` or `Refuse`.

Not modelled at all:

* that an enrollment code is used once and expires: one IMMEDIATE transaction
  decides it (`gateway/src/db.rs`), so a model would restate its WHERE clause. What
  follows a lost answer or a revocation is in `BackupQueue`;
* a desktop that was offline for weeks against the cadence of the gateway: a flush
  stops at the first artifact the gateway refuses for its cadence
  (`backup.rs:880`), so a backlog of daily artifacts delays newer ones. It needs
  hours, classes and the order of the queue in one model; each side alone is in
  `BackupQueue` and `Admission`;
* division into instalments and the parsing of money and dates: computations
  without state, with unit tests beside them;
* configuration, command line, HTTP wiring and error bodies: no state of their own;
* release scripts and workflows: sequential tools around external services;
* the presentation of the front end.
