# FaithBook: TLA+ models and proofs

FaithBook captures web pages on a schedule: a FastAPI process plans and triggers
captures, Redis queues them, a worker drives Chromium and stores the result,
PostgreSQL keeps the state. This directory holds TLA+ models of its logic, TLC
instances that check them and theorems that TLAPS checks. Paths below are
relative to `src/app/` unless they start with `src/`.

## 1. Inventory

One API process (uvicorn, APScheduler inside), one worker container, PostgreSQL,
Redis with `appendonly`, every container restarted unless stopped.

| Component | State | Operations | What is hard | What makes it correct |
|---|---|---|---|---|
| Capture queue: `services/runner.py` (trigger), `services/run_queue.py`, `worker.py` | `runs.status`; one lock per target, two lists in Redis; coroutines of the API; control point of the worker | trigger, reserve, enqueue, release, dequeue, acknowledge, recover | two processes and two stores without a common transaction; crashes, lost replies, TTL of the lock, recovery racing the API | one live run per target; no message lost; a restarted worker finds every running run; queued runs settle |
| Run execution: `execute_run`, `_attempt_once` in `services/runner.py` | row of the run, image on the disk | attempts, deduplication per day and by hash, size check, upload | which exception ends the run, what is committed before a failure, a second execution after a crash | a row never names a missing image; the storage is bounded |
| Remote storage: `services/drive_sync.py`, `drive.py`, `s3.py` | upload status of a run, copies | upload, automatic and manual retry | three uploaders in two processes, lost replies | no copy made twice by a process; what the row names exists; retries end |
| Scheduler: `scheduler.py`, `services/catchup.py`, `api/targets.py` | jobs in memory, targets in the database | jobs, catch-up, creation and change of targets | restarts around a deadline and midnight; requests beside the event loop | jobs follow rows; no deadline lost |
| Quotas: `services/quotas.py` | counts per organisation | check before capture, check of the size, purge | row locks held across an await; purge and files | limits never exceeded; the event loop comes back |
| Profile vault: `services/crypto.py`, `profile_lock.py`, `login_browser.py`, `session_check.py`, `api/accounts.py` | sealed profile, key file, active login | open, seal, delete, login start/finish/cancel/time-out, first key | lock local to a process, two processes; tear-down races | one user of a profile at a time; a closed login leaves nothing locked; one key |
| Tenancy: `api/organizations.py`, `services/tenancy.py`, `invitations.py` | memberships, invitations | create, accept, revoke, roles | check-then-commit requests | one membership; one owner; one default space |
| Authentication: `services/auth.py`, `api/auth.py` | sessions, reset tokens, failures | login, logout, change, reset | bcrypt between a check and a commit; order of commits | a new password closes the old sessions; attempts are bounded |
| Extraction: `services/extraction*.py`, `regles_extraction.py` | extraction of a run | ask, validate, reuse, store, compare | re-executed runs, answers that lie, tags that change | what is stored was on the page; the events explain the difference |
| Page capture: `services/capture.py`, `pagination.py` | none | lazy loading, tiling, PDF | a page that grows while it is scrolled | tiles and pages cover without a gap |
| Product sheets: `services/fiches_liens.py` | process per run, work files, Drive | table, rows, a capture per link | processes of one day share their files | a sheet shows its product |
| Backup: `src/scripts/backup.py`, `restore.py` | archives | create, restore | the application goes on; death halfway | archives are whole; a restoration can be undone |
| Chrome extension: `src/chrome-extension/` | outbox in storage | capture, send, retry | the service worker is stopped at any time | not modelled |
| Notifications, mail, audit, metrics, SSRF guard, migrations, front end | logs | | I/O | not modelled: no interaction worth a model |

`PROJECT.json` lists the components with their files and the hazards of the code
at the line where each one bites.

## 2. Plan

The capture queue comes first: everything FaithBook does goes through it, and it
is where two processes, two stores and restarts meet. The browser profiles come
next: the other state the two processes share, and the one that cannot be
recomputed when it is lost. Then what a capture leaves behind, who decides that
it is made, who may ask for it, and what is read on it.

| Module | Composes | Runs | Theorems |
|---|---|---|---|
| `RunLedger`, `CaptureQueue` | refinement of `RunLedger` | `queue_*` | types, three safety properties for any fault, invariant and refinement for the tolerated faults |
| `ProfileVault` | the vaults, their locks in two processes, `LoginManager`, session tests, captures | `vault_*` | invariant, exclusion inside a process, vaults survive |
| `CaptureArchive` | worker, three uploaders, purge, deletion; three stores | `archive` | invariant and every safety property of the run |
| `CapturePlanning` | event loop, requests, row lock, worker, restarts | `planning` | invariant and every safety property of the run |
| `Tenancy` | accounts, links, organisations, invitations | `tenancy` | invariant and every safety property of the run |
| `PageScrolling`, `ContentExtraction`, `ProductSheets`, `BackupRestore`, `SessionKey`, `Content` | five independent parts, beside each other in `Content` | `content` | of each part: invariant and every safety property of the run; the whole is a behaviour of each part |

The theorems are in modules of their own (`CaptureQueueProofs`, `ProfileVaultProofs`,
`ArchiveProofs`, `PlanningProofs`, `TenancyProofs`, `ContentProofs`, `RunLedgerProofs`).
`Sums` holds the lemmas on sums over a finite set and on folds over a list that they
need.

Left: the outbox of the Chrome extension, the inline mode, starvation by the order
of the queue.

## 3. Modules

### RunLedger

What the queue promises, seen from the table of runs: a run is submitted only for
a target with no live run (`pending`, `running`), begins, settles, is put back to
`pending` or is deleted with its target.

### CaptureQueue

| Variable | Code |
|---|---|
| `status`, `owner`, `targets` | tables `runs` and `targets` (`models.py`); `"none"` before the INSERT, `"deleted"` after ON DELETE CASCADE |
| `lock` | key `faithbook:target-lock:<id>`: absent, `"reserved"` or the run |
| `queue`, `processing` | the two Redis lists, head first |
| `call` | one record per coroutine inside `trigger_target`: the await it stands at and its locals |
| `worker`, `held`, `snapshot`, `orphans`, `interrupted` | control point and locals of `worker.main()` |
| `faults` | number of failures so far |

Each Redis command and each commit is a step of its own, as they are between two
awaits (API) or two statements (worker) of the code:

- API: `Trigger`, `Reserve`, `Create`, `Enqueue` and the except clause,
  `ReleaseReservation` then `MarkFailed`; `DeleteTarget`.
- Worker at startup: `RecoverOne` per RPOPLPUSH, `TakeSnapshot`, `SelectOrphans`,
  `SkipQueuedOrphan`/`ReadmitOrphan`, `RelockOrphan`, `PushOrphan`,
  `CommitOrphans` (the session commits after the loop).
- Worker loop: `Dequeue`, `CheckStatus`, `StartRun`, `FinishRun`/`EscapeRun`,
  `Acknowledge`, `ReleaseRun`.
- Environment: crash of each process, a command refused, a command executed whose
  reply is lost, a lock that expires, a database error. `Fault(kind)` gates each
  one by `FaultKinds` and `MaxFaults`.

`FaultKinds` splits in two. `ToleratedFaults` leave at most a lock or a run
behind; `BreakingFaults` let two runs of a target live at once. The boundary is
not a convenience: with any one breaking kind added to an instance with the
tolerated ones (`fail_lost` needs `enqueue_refused` beside it) TLC finds two live
runs of a target. So the promise "une exécution est déjà en cours ou en attente
pour cette cible"
(`services/runner.py:780`) holds exactly as long as none of these happens:
an `enqueue` executed whose reply is lost, a failed trigger that cannot write its
failure, an exception that leaves `execute_run` with the run still `running`, a
lock older than `WORKER_LOCK_TTL_SECONDS`, and a worker that starts while a
trigger is between its commit and its push.

Two modelling decisions. A capture is one step between `StartRun` and
`FinishRun`: the attempts do not touch the queue. All runs belong to one local
day, the day `dedupe_mode = per_day` (the default) compares; another day would
only remove `OtherSuccess` and behave like `force`.

`MarkFailed` is the last statement of a trigger whose lock is already given back.
Until it is executed the run is still `pending` in the table, although the
outcome is decided. `ActiveRuns` leaves such runs out (`Failing`), and the
refinement maps them to `failed`.

### ProfileVault

| Variable | Code |
|---|---|
| `vault`, `tmp` | `<slug>.tar.enc` and the temporary file of `seal_profile`, `<slug>.tar.tmp`: absent, whole or partial |
| `clashed` | ghost: profiles whose last seal ran while the other process was sealing the same one |
| `accounts` | table `accounts` |
| `lock` | `_locks` of `services/profile_lock.py`, one dictionary per process: `"free"`, its holder, `"lost"` when `open_profile` raised, or `"abandoned"` when `pw.stop()` did: nobody is left to release it |
| `user` | where each login (`LoginSession`), session test and capture stands, its profile, whether it will seal, and who sealed or deleted the profile since its copy was made (ghost `overtaken`) |
| `manager`, `active` | `LoginManager._lock`, `LoginManager._active` |
| `finish`, `deletion` | frames of `finish` and of the `delete_account` that wait for the login they met |

Logins and tests live in the API process, captures in the worker (`Home`). Inside
a process only an `await` lets another coroutine run (`LoopFree`): `seal_profile`
is a plain function, so its two file operations (`BeginSeal`/`FinishWrite`,
`Replace`) interleave with the other process only. The operations:

- `LoginManager`: `StartLogin`, `EnterStart`, `LockTimesOut`, `OpenByLogin`,
  `LoginOpens`/`LoginFails`; `Teardown` up to its first await, `BrowserClosed`,
  `DriverStopped`, then the seal and `Release`; `CancelLogin`; `StartFinish`,
  `CookiesRead`, `StateRead`, `FinishRaises`; `AutoCancel`, which cancels the
  task it runs in (`TimerCancelled`).
- `check_account`: `StartCheck`, `OpenByCheck`, `CheckEnds`, `Release`.
- `capture_page`: `StartCapture`, `AcquireByCapture`, `OpenByCapture`,
  `CaptureEnds`, `Release`.
- `delete_account`: `DeleteAccount`, or `CancelThenDelete` and `ResumeDelete`.
- Environment: an unreadable vault or a full disk (`OpenRaises`, `SealFails`), a
  browser or driver that never answers where nothing bounds the wait (`Hangs`), a
  driver whose stop raises after a failed opening (`stop_error`, in `LoginFails`), a
  process killed (`Crash`).

The content of a profile is abstracted to how old it is: a session is lost when a
copy made before somebody else's seal is sealed over it.

### CaptureArchive

| Variable | Code |
|---|---|
| `row` | table `runs`: status, date, path and hash of the image, `drive_status`, `drive_file_id` |
| `disk`, `remote` | the images in `OUTPUT_DIR`; the copies of each on Drive or S3, with the process that made them |
| `worker` | where `execute_run` and `_attempt_once` stand, with their locals |
| `upload` | the three uploads that may be in progress: worker, `retry_due_uploads`, `retry_drive_upload`, each with the columns its session has read |
| `batch`, `apiLock`, `doomed` | locals of `retry_due_uploads`, `DriveClient._api_lock` of the API, the paths `purge_expired_runs` has still to unlink |
| `forgotten` | observation: the runs from which a deduplication took the copy away |

`Execute`, `CapturePage`, `CaptureRaises`, `Store`, `AnalysisRaises`,
`Deduplicate`, `UnlinkDuplicate`, `BeginUpload`, `Finish` are the worker;
`FindRemote`, `CreateRemote`, `UploadFails`, `RecordUpload` an upload;
`SelectDue`, `RetryNext`, `ManualRetry`, `PurgeRows`, `PurgeFile`, `DeleteTarget`
the API; `WorkerCrash` and `ApiCrash` may leave a request in flight that creates
its file all the same. SQLAlchemy writes only the columns that differ from what
the session has read (`Flushed`): two uploaders of one run mix their columns, as
they do in the code. A content is named by its size. The delay of the back-off is
left out: a failed upload is due at any time.

### CapturePlanning

| Variable | Code |
|---|---|
| `now` | hours; `DayHours` of them make a day |
| `api`, `job`, `missed` | the process, the jobs of APScheduler, the list of `_catchup_job` |
| `row` | table `targets`: enabled, schedule |
| `task`, `loop` | where each coroutine and request stands; the coroutine that blocks the event loop |
| `orgLock` | the row of the organisation, FOR UPDATE |
| `started`, `dated`, `captured`, `unsettled` | the runs, by target and day |
| `owed`, `caughtUpAt`, `skipped`, `overlapped` | observations of the properties |

`trigger_target` takes the row lock with a call that blocks the event loop and
keeps it while it awaits Redis: `Trigger`, `LockGranted`, `LockTimeout`,
`Reserve`. Requests run in threads: the row is committed, then the job is made
(`CommitUpdate`, `Reprogram`), and a deletion removes the job first.

### Tenancy

A request checks, hashes or sends a mail, and commits: each `Begins` action is what
it reads and checks, each `Proceeds` action a commit. `password`, `sessions`,
`links`, `orgs`, `members`, `invitations` are the tables, `failures` the counters
of `services/auth.py` in memory, `req` the locals of each thread. A row carries
what its request had not seen (`late`), so that the properties can name exactly
the races the code has.

A password is the number of the request that set it. A login reads the row of the
user after `trop_de_tentatives`, and its session is stamped with the password that
`verify_password` compared (`since`), not with the one in force at its commit.
`RevokeAllSessions` reads the sessions and `DeleteSessions` deletes those it has
read. `TropDeTentatives` is two steps, the read of the list when the request starts
and the assignment that puts it back: the failures noted in between are erased and
the counter is then marked (`lost`). `tried` counts the wrong passwords themselves,
of any address, with an account or not.

### The modules of Content

- `PageScrolling`: one turn of `load_lazy_content` or `capture_stitched_page` is
  `Measure`, then `Wheel` or `ForceScroll`/`Unforced`; the page grows in between and may
  swallow the wheel. `Paginate`, `AddPage`, `MergeLastPage` are `_limites`. The page
  is supposed to grow at its end only.
- `ContentExtraction`: `Read` is `analyser_reponse`, an operator over the answer;
  `Reuse`, `Ask`, `AskAgain`, `GiveUp`, `Store` the steps of
  `extraire_et_enregistrer_async`, beside executions repeated, tags that change
  and runs that are purged; `Comparer` is `extraction_diff.comparer`. What
  `convertir_nombre`, `convertir_date` and `convertir_booleen` accept and what they
  make of it is the constant `Converted`, not the identity: in the run "$10" is read as
  10, and "2 for 30" as 230.
- `ProductSheets`: the process that a run starts (`LaunchSheets`), from the table
  of prices and the images of the rows to the last link, with its death at each step
  and with or without Drive at each of its three parts.
- `BackupRestore`: `CopyKind` for each kind of data, `WriteArchive`,
  `PublishArchive`; `OpenArchive`, `StartDatabase`, a backup, then
  `RestoreDatabase` and `RestoreFiles`. The application photographs and purges
  meanwhile, and may start at any time. `_stack_running` fails open: `StackRunning`
  holds the answers it may give, FALSE among them whatever the application does.
  `written` notes what a running application wrote after the rollback archive had
  copied it. `pg_restore` is not one transaction (`RestoreDatabaseFails`).
- `SessionKey`: `_load_key` step by step in several processes, which stop and start.

## 4. Runs

| Run | Instance | What it shows |
|---|---|---|
| `queue_faults` | 1 target (deletable), 3 runs, 2 coroutines, every fault kind, 2 faults; 2.9 M states | `FaultInvariant`, `MessagesSurvive`, `RecoveryIsComplete`: a message leaves Redis only acknowledged, and a restarted worker has found every running run, whatever failed |
| `queue_tolerated` | 2 targets, 3 runs, 2 coroutines, tolerated faults, 2 faults; 0.27 M states | `OneActiveRunPerTarget`, the inductive `QueueInvariant`, and the refinement `ImplementsLedger` |
| `queue_progress` | 1 target, 2 runs, 2 coroutines, crash of the worker, refused enqueue, startup race; 0.46 M states | `QueuedRunsSettle`, `TargetsAreFreed` |
| `queue_duplicates` | 1 target, 2 runs, 1 coroutine, startup race only | violation of `NoDuplicateMessage`, see section 6 |
| `vault_users` | 1 profile, 2 logins, 1 test, 1 capture, 1 `finish`, 2 faults; 0.38 M states | `VaultInvariant`; `NoSessionIsOverwritten`: no operation seals a copy older than what another one of its process sealed; `VaultSurvives`: a vault breaks only when two processes seal it together |
| `vault_freed` | 1 profile, one of each, 1 fault; 0.09 M states | `ProfilesAreFreed`: a held lock comes back |
| `vault_openers` | as `vault_users`, 1 login | violation of `OneOpenerPerProfile`, see section 6 |
| `vault_screen` | 2 profiles, 2 logins | violation of `OneVisibleBrowser`, see section 6 |
| `archive` | 2 runs, 2 attempts, 2 contents, every backend, storage of 3, 3 failures or interventions; 1.1 M states | `RowsHaveTheirImage` through crashes, purges and deduplication; `StorageIsBounded`; `OneCopyPerProcess` and `CopiesAreReal` with three uploaders and lost replies; `UploadsComplete`: a successful capture ends with a copy on Drive, but for the exception of `CopiesAreReal` |
| `planning` | 2 targets, 2 requests, days of 3 hours, 5 hours, catch-up window of 2, 1 target and 2 captures a day allowed, 2 requests or restarts; 1.5 M states | `TargetsWithinQuota`, `DailyWithinQuota`, `JobsFollowRows`, `DeadlinesAreServed` across midnight and restarts; `LoopRunsAgain`: the event loop does not stay behind the row lock |
| `tenancy` | 2 users, 2 threads, 2 failures allowed, 4 requests, expirations or restarts; 2.3 M states | `OneMembership`, `Owned`, `OneDefaultSpace`, `PasswordsEndSessions`, `OneLiveLink`, `AttemptsAreBounded` |
| `content` | the five parts of section 3, one at a time; 2.0 M states | `FeedIsCaptured`, `PdfIsComplete`; `ExtractionsAreFaithful`, `ComparisonIsSound`; `SheetsAreTrue`; `ArchivesAreSound`, `RestoreIsReversible`; `OneKey` |

Bounds. `RunIds` bounds the INSERTs; three runs are what two triggers in flight
and a run left behind by an earlier one need. `RoomForARun` keeps an identifier
for each coroutine already inside, so a coroutine never blocks on the bound.
`MaxFaults = 2` covers a failure during the recovery from a failure. Two
coroutines race each other and the worker. Targets interact only through the
lists and the worker, hence two targets in `queue_tolerated` only. The proofs below lift the
bounds for the safety properties. Runs and coroutines are interchangeable
(`Symmetry`); the liveness run uses no symmetry.

Profiles share nothing but `LoginManager`, which one profile and two logins
exercise already (the second one queues, times out or starts while the first is
being closed); the violation run of the screen has two. The theorems hold for
any number. `MaxFaults` is 2 for safety, 1 for liveness: a process that crashes
for ever frees its locks each time.

In `archive` two runs are what deduplication, the storage and a stale reading of
one run by another need; three events give a failed upload, its retry and a crash.
In `planning` five hours hold a deadline before and after midnight and a window
that reaches back over it; the two requests race each other on one organisation.
In `tenancy` four events are the longest race considered: two requests, a third
that meets what they left, and a restart. Their bounds grow the state space by an
order of magnitude each.

`content` checks five parts that share no variable in one run: the first step of a
behaviour chooses its part (`part`) and the others stay as they began, so the
states of the run are the sum of those of the parts, not their product. Pages of
the height of one to three and a half screens and four turns reach the end of the
loop by each of its exits; six answers hold each kind of value that validation
treats differently; two processes of the same or of different days; three scripts
are a backup, its restoration and the restoration of the rollback archive; three
processes and two restarts give a loser of the race that comes back.

Deadlock checking is off: the system may rest, since nobody has to trigger a
capture and, at the bound, nobody can.

Fairness. A coroutine that was started is resumed by the event loop
(`WF(ApiStep(c))`, faults excepted). The worker container is restarted unless
stopped (`WF(StartupStep)`) and its loop only waits for a message
(`WF(LoopStep)`). A capture ends: every wait in it has a time-out and the
attempts are bounded by `MAX_ATTEMPTS`. For the profiles, a
coroutine that can go on does (`WF(UserStep(u))`, hangs and crashes excepted),
which for an active login means that its timer fires. Nothing is assumed of
the user: `finish`, `cancel` and new requests need not come. Nor of the order of
the messages: the queue is in fact last-in first-out (RPUSH and BRPOPLPUSH work on
the same end), and starvation under a steady stream of triggers does not show
within a bounded table of runs.

`TargetsAreFreed` excepts the one case the code leaves to the TTL:
a worker killed between `acknowledge` and `release_target`. With `api_crash`,
`reserve_lost`, `create_error` or `release_refused` a reservation is left to its TTL as well
(it is nobody's), which is why those kinds are not in this run.

`archive`: the worker, the uploads in progress and the retry job go on
(`WF(WorkerStep)`, `WF(UploadNext(u))`, `WF(RetryJob)`): a container that is
restarted, threads, a job of APScheduler with an interval. No failure has to
happen, and after `MaxEvents` none does. `planning`: the event loop resumes a
coroutine that can go on, and PostgreSQL ends a lock wait (`WF(LoopStep)`;
`db_lock_timeout_ms`); time, requests and the worker need not move. The other
runs check safety only.

`ProfilesAreFreed` excepts a user that hangs (`Hangs`): the start of Playwright
and `pw.stop()` in `LoginManager.start`, `context.close()` in a test and in a
capture have no time-out. It excepts a login whose browser did not open and whose
`pw.stop()` raised (`"abandoned"`). And it speaks of locks somebody holds: the lock
that `start` loses when `open_profile` raises is held by nobody and never comes back
(section 6).

The other exceptions, each with the race it names in section 6:

- `UploadsComplete`: a run whose copy a deduplication took away while a retry was in
  flight, which then said "uploaded" (`GivenUp`). It takes five events; the run has
  three, so it shows the rest.
- `PasswordsEndSessions`: a crash between the two commits (`interrupted`), a session
  committed after the revocation had read what to delete (`late`).
- `AttemptsAreBounded`: a counter from which a list put back has erased failures
  (`lost`). Otherwise it bounds the wrong passwords themselves: `MAX_ECHECS`, and one
  more for each other thread that was checking.
- `SheetsAreTrue`: two processes at once on a day (`overlapped`); the images of rows
  of a process without Drive (`unsent`), or of a capture that started none.
- `ExtractionsAreFaithful` says that a value of a line without an anomaly is what its
  conversion makes of the answer. Whether the conversion is the right one ("2 for
  $30" becomes 230.0) is beyond it.
- `RestoreIsReversible`: secrets and images, which the rollback archive does not hold;
  what an application that was running, forced or unseen, wrote after the copy
  (`written`).

## 5. Proofs

The theorems hold for every value of the constants the named assumptions allow:

- `CaptureQueue`: any sets of targets, runs and coroutines, any number of faults
  (`FaultAssumption`, `NameAssumption`).
- `ProfileVault`: any sets of profiles, logins, tests and captures
  (`VaultAssumption`: distinct names).
- `SessionKey`: any set of processes (`KeyAssumption`: the marks of a missing and of
  an empty key are not keys).
- `CaptureArchive`: any number of runs, attempts, images, days and events, any
  contents, modes, backends and storage (`ArchiveAssumption`: ranges, and one more
  image of a run than there can be failures to cost it one, so that the bound on
  the images never blocks the worker).
- `CapturePlanning`: any number of targets, hours, requests and events, any schedules,
  window and quotas (`PlanningAssumption`: ranges, hours that belong to a day, a
  window shorter than a day, distinct names).
- `Tenancy`: any users and finite set of threads, any limits (`TenancyAssumption`).
- `PageScrolling`: any heights, wheels and limits of turns (`ScrollingAssumption`: a
  turn of the wheel is at most a screen, the slack of the bottom test less than one, a
  feed at least a screen high, a page of the PDF higher than the overlap).
- `ContentExtraction`: any runs, texts, answers and fields (`ExtractionAssumption`: the
  marks of an absent text are no texts, a boolean that was read is yes or no, an
  answer is a finite list of any length).
- `ProductSheets`: any launches, markets and days; the tables are finite lists of any
  length (`ProductSheetsAssumption`).
- `BackupRestore`: any runs, paths, options and numbers of scripts and changes
  (`BackupAssumption`: ranges; the secrets, profiles and environment are the kinds that
  change, `"none"` is no path, and a rollback archive has a path of its own).

| Module | Theorem | Statement |
|---|---|---|
| `CaptureQueueProofs` | `TypeCorrect`, `FaultInvariantHolds` | `Spec => []FaultInvariant`, any fault |
| | `NoMessageIsLost` | `Spec => MessagesSurvive`, any fault |
| | `RecoveryFindsEveryRun` | `Spec => RecoveryIsComplete`, any fault |
| | `QueueInvariantHolds`, `OneRunPerTarget` | `Spec => []QueueInvariant`, `Spec => []OneActiveRunPerTarget`, tolerated faults |
| | `QueueImplementsLedger` | `Spec => ImplementsLedger`, tolerated faults |
| `ProfileVaultProofs` | `VaultInvariantHolds` | `Spec => []VaultInvariant`, any fault |
| | `SessionsAreNotOverwritten` | `Spec => [](ExclusiveInProcess /\ NoSessionIsOverwritten)` |
| | `VaultIsNeverBroken` | `Spec => VaultSurvives` |
| `ArchiveProofs` | `ArchiveInvariantHolds`, `ArchiveTypeCorrect` | `Spec => []ArchiveInvariant`, `Spec => []TypeInvariant` |
| | `ImagesOutliveRows` | `Spec => []RowsHaveTheirImage` |
| | `NoSecondCopy`, `NamedCopiesExist` | `Spec => []OneCopyPerProcess`, `Spec => []CopiesAreReal` |
| | `StorageQuotaHolds` | `Spec => []StorageIsBounded` |
| `PlanningProofs` | `PlanningInvariantHolds`, `PlanningTypeCorrect` | `Spec => []PlanningInvariant`, `Spec => []TypeInvariant` |
| | `JobsAreThoseOfRows`, `NoDeadlineIsLost` | `Spec => []JobsFollowRows`, `Spec => []DeadlinesAreServed` |
| | `TargetQuotaHolds`, `DailyQuotaHolds` | `Spec => []TargetsWithinQuota`, `Spec => []DailyWithinQuota` |
| `TenancyProofs` | `TenancyInvariantHolds`, `TenancyTypeCorrect` | `Spec => []TenancyInvariant`, `Spec => []TypeInvariant` |
| | `MembershipIsUnique`, `OwnerStays`, `DefaultSpaceIsUnique` | `OneMembership`, `Owned`, `OneDefaultSpace` |
| | `OldSessionsEnd`, `LiveLinkIsUnique`, `AttemptsBounded` | `PasswordsEndSessions`, `OneLiveLink`, `AttemptsAreBounded` |
| `ContentProofs` | `StartersShareOneKey` | `SessionKeySpec => []OneKey` |
| | `KeyFileIsFinal` | a published key is never replaced |
| | `BackupInvariantHolds`, `BackupTypeCorrect` | `BackupSpec => []BackupInvariant`, and its types |
| | `BackupsMakeSense`, `RestorationsCanBeUndone` | `BackupSpec => []ArchivesAreSound`, `BackupSpec => []RestoreIsReversible` |
| | `ScrollingInvariantHolds`, `ScrollingTypeCorrect` | `ScrollingSpec => []ScrollingInvariant`, and its types |
| | `FeedsAreCaptured`, `PdfsAreComplete` | `ScrollingSpec => []FeedIsCaptured`, `ScrollingSpec => []PdfIsComplete` |
| | `SheetsInvariantHolds`, `SheetsTypeCorrect` | `ProductSheetsSpec => []SheetsInvariant`, and its types |
| | `DaysLeaveTrueSheets` | `ProductSheetsSpec => []SheetsAreTrue` |
| | `ExtractionInvariantHolds`, `ExtractionTypeCorrect` | `ExtractionSpec => []ExtractionInvariant`, and its types |
| | `ContentIsItsParts`, `ContentTypeCorrect` | `Spec` implies the specification of each part; `Spec => []TypeInvariant` |
| | `RowsComeFromTheirPage`, `EventsTellThePage` | `ExtractionSpec => []ExtractionsAreFaithful`, `ExtractionSpec => []ComparisonIsSound` |
| `RunLedgerProofs` | `LedgerHasOneLiveRun`, `LedgerOutcomesAreFinal` | what the ledger gives its users |

Two sets of lemmas serve several proofs: those on the Redis lists at the head of
`CaptureQueueProofs` (the members of a list after RPUSH, RPOPLPUSH and LREM), and
`Sums`, on `SumFunction`. The fold that defines a sum is a CHOOSE of a recursive
function over the subsets, and the library proves nothing of it. `Sums` shows that
the function exists (`AddsExists`), what a sum becomes when one term changes
(`SumChanges`) and that it shrinks with its terms (`SumShrinks`). These are
inductions on the size of a set; the induction rules of the library take an
operator no installed prover instantiates, so they go by the least
counterexample instead (`LeastNatural`, from the well-foundedness of `<`). `Sums`
does the same for the folds over a list: a fold exists (`FoldExists`) and keeps a
type that each of its steps keeps (`FoldTypes`).

The arguments:

- *Queue, any fault.* The types alone are not inductive: a readmitted message takes its
  target from `owner`, so every run that is known anywhere (a message, an orphan,
  a coroutine, the worker) must be a row (`RunsHaveTargets`).
  `RecoveryIsComplete` needs `RunningRunsAreFound`: from the snapshot on, every
  running run is an orphan still to treat or has a message. It survives the API
  running meanwhile because only the worker sets `running` and only the worker
  removes messages.
- *Queue, tolerated faults.* `OneActiveRunPerTarget` is not inductive.
  `ActiveRunsHoldTheLock` is its reason: the lock of a target is never free while
  one of its runs is active, and names the run once the run has a message. Its own
  preservation needs that a reservation has one taker (`ReservationsAreExclusive`),
  that a coroutine past `create_run` is alone with its run
  (`CallsOwnTheirRuns`), that the worker releases a lock only of a settled run
  (`WorkerKnowsItsRun`), that a recovered orphan is really
  abandoned (`OrphansAreAbandoned`), and two facts on deleted targets.
- *Refinement.* A step of the queue changes `ledgerStatus` in `Create` (Submit,
  which needs the exclusion above), `StartRun` (Begin), `FinishRun` (Settle),
  `ReleaseReservation` (Settle as failed), `CommitOrphans` (Requeue) and
  `DeleteTarget` (Forget); all others stutter.
- *Profiles.* `NoSessionIsOverwritten` follows from `ExclusiveInProcess` at each
  `Replace`, and that from `LocksMatchHolders`: whoever has a copy is the holder
  of the profile's lock in its process, and a holder has a copy or is about to
  have or to discard it. A login reaches `_teardown` through `_active` alone, so
  the invariant must also tie `_active` and `_lock` to the step of one login
  (`OneLoginAtATime`). `VaultSurvives` needs `SealsAreAlone`: two seals of one
  profile are noted in `clashed` when the second begins, and a seal that is not
  has a whole archive in the temporary file.
- *Archive.* What a row says (`RowIsSound`) depends on what the worker and the
  three uploaders still remember of it. `WorkerKnows` ties the locals of an
  attempt to the row it will write or has written: a new image lies on the disk
  under a name no row uses, and after the unlink of a duplicate no row names it.
  `UploadIsSound` says that whoever is about to create a copy has found none of
  its process and, in the API, holds the lock of the client; and that the copy it
  will record exists. The uploaders of the other process move the ground under
  them, so every action is first shown to `Evolve`: copies are added and never
  removed, a deleted run stays deleted, and a run that exists keeps its copy
  unless it was deduplicated. `KeepsItsCopy` is where the invariant
  needs `forgotten`. `StorageIsBounded` is a sum: `Store` changes one term and has
  counted the others (`SumChanges`), no other step makes a term larger
  (`StepIsLighter`, `SumShrinks`).
- *Planning.* The invariant speaks of one target at a time (`TargetIsSound`), so
  that a step that leaves a target alone has one proof (`LeftAlone`). A request that is
  alone in changing a target knows what its row will be (`ChangesAreKnown`), hence
  the job it makes is that of the row (`JobFollows`). The job of a deadline fires
  at the latest at the next one (`JobIsReal`), so when `Tick` makes a deadline
  owed, the job is due; what is owed is served, being caught up, or listed by the
  catch-up that is under way (`DebtIsServed`). The quotas are `RoomForTargets` and
  `RoomForCaptures`: who has counted under the row lock is alone until it has
  written (`TasksAreSound`), and a day that has not come has no capture.
- *Tenancy.* The properties hold together with what a request still knows of
  what it has read (`RequestsAreSound`): the row it will write belongs to an
  organisation or a user that cannot go away, and nobody is offered or given the
  role of owner nor edits the owner's row. `IdsAreFresh` makes two organisations
    different. An old session is late, left by a crash, or about to be revoked: whoever
  has set a password has its revocation before it, and a session that commits before
  the revocation reads is among those it deletes (`OldSessions`). The attempts need a
  counting argument: the wrong passwords tried on a key and the requests past the
  check (`Checking`) together never exceed the limit plus the other threads, as long
  as no failure was erased (`RoomForTries`): the list holds at least as many as were
  tried, a check that puts it back erases some or none, and refuses at the limit.
- *Session key.* `OneKey` speaks of the processes that are ready. The invariant adds
  those that have linked and not yet removed their draft (`SettledKeys`), and that
  a process about to link holds the key it drew (`DrawnKeys`): the first link finds
  no file, hence nobody has settled yet; a later one takes the key of the file.
- *Backups.* A copy begins with the database and images leave the data directory only
  by a purge, so what the saved database names is still there, or purged, when the
  images are copied; the archive is published by one rename. While a restoration
  overwrites, the kinds it has still to write are distinct and its rollback archive
  holds what each of them is, unless it is `written` (`RestoreIsSound`): only an
  application that runs changes it in between, and each of its writes is noted.
- *Scrolling.* A turn starts inside the rows covered, and turn `r` no higher than
  what is left above the bottom or `r` turns of the wheel (`FeedAdvances`), so the tile
  it adds joins the last one. The only product of two variables, the distance of `r`
  turns, is hidden in one operator with two lemmas. Page `i` of the PDF begins
  `i - 1` times the step below the first (`PagesAdvance`), and a last page that is
  too thin is joined to the one before (`LastPageJoined`).
- *Sheets.* Below its current rank a process has settled every link: counted, or sent
  and on Drive. A work file on the disk belongs to the process about to send or drop
  it, or to a dead one (`ShotsAreHeld`, `TablesAreHeld`), and two processes that work on
  one day have made it `overlapped` (`OverlapsAreKnown`); hence a process alone on its
  day sends the file it has just made (`ShotsAreReady`). The images of rows on the
  disk are those it has still to send, or it found no Drive (`RowImagesAreKnown`).
- *Extractions.* A reader holds the text of its run, or the run was executed again
  (`ReadersAreSound`); a stored extraction is what `Lines` and `Anomalies` make of one
  answer with its own rule and text, and a reuse carries that along
  (`ExtractionsAreSound`). The fold of `Lines` keeps every usable line and nothing else.
  Each event of `Comparer` is then counted back to the two indexes, and the
  suspicion by the sizes of their domains.

Three properties changed because their proof failed: the instances were too small
to reach the behaviour that breaks them. `DeadlinesAreServed` excepts a
deadline that `max_instances` skips (a trigger still running from before midnight
and a schedule changed meanwhile; `MCCapturePlanning` has since the schedules that
reach it). `CopiesAreReal` excepts a run whose copy a deduplication took away
while a manual retry was in flight, which takes five events; `UploadsComplete`
excepts the same runs. Both are in section 6.
`ComparisonIsSound` said that a suspicious reading leaves fewer than two products,
which is true of lists of less than ten; it is at most a fifth of them
(`SEUIL_DISPARITION_SUSPECTE`).

Every invariant and every action property of the passing runs is a theorem. Those
of `content` are proved part by part; `ContentIsItsParts` carries them to the run,
whose behaviours are behaviours of each part.
Only model-checked: the five liveness properties, since liveness under fairness and
ENABLED are outside what the prover does, and the three properties the code
violates, which are refuted and not proved.

## 6. Where the code departs from what it says

- `enqueue_recovered` is documented as "Réinsère un run DB orphelin sans créer de
  doublon de file" (`services/run_queue.py:152`). It reads the lists, sets the
  lock and pushes in separate commands; a trigger that has committed its run and
  not pushed it yet adds the second message. `queue_duplicates` shows it. The
  effect is mild, the second message finds a settled run and is ignored, unless
  the startup race also lets a new trigger in between (a breaking fault).
- A lock per profile "empêche une capture, un test de session et une connexion
  noVNC d'ouvrir le même coffre au même moment" (`src/README.md:723`). The locks
  are local to a process and captures run in another one than tests and logins
  (`services/profile_lock.py:6` supposes a single one). `vault_openers` shows the
  two of them with one profile open; the last to seal wins. If both seal at
  once they share a temporary file too, the exception of `VaultSurvives`.
- `LoginManager` "Pilote UN navigateur de connexion visible a la fois"
  (`services/login_browser.py:83`). `_teardown` clears `_active` before it awaits
  the closing of the browser; `vault_screen` shows a second login open by then.
- `_auto_cancel` is the task that `_teardown` cancels (`login_browser.py:255`):
  at the time-out the browser is not closed but killed by the finally clause, and
  the Playwright driver stays. In the model: `TimerCancelled`.
- `start` takes the profile's lock and calls `open_profile` outside the try that
  releases it (`login_browser.py:132`): an unreadable vault locks its profile for
  the life of the process. In the model: the holder `"lost"`. When the browser does
  not open, `await pw.stop()` (`login_browser.py:150`) stands before
  `discard_profile` and the release: if it raises, the same. In the model:
  `LoginFails`, the holder `"abandoned"`.
- `delete_account` "efface le coffre chiffré" without the profile's lock
  (`api/accounts.py:130`): an operation in progress seals it again afterwards.
  In the model: `overtaken` holds `"delete"` and `Replace` goes on.

The following were met while translating; the models behave as the code does, and
where a property would fail it names the exception.

- Extraction. `_alertes_extraction` (`services/runner.py:331`) calls `comparer` with
  the keyword `plafond`, which `services/extraction_diff.py:109` does not accept;
  the TypeError is swallowed and no change alert is ever sent
  (`src/tests/test_extraction_diff.py:110` expects one). "Toute valeur douteuse
  devient None et alimente `anomalies`" (`services/extraction.py:264`): not an
  unreadable boolean, and a reused extraction has none; and `convertir_nombre`
  (`:192`) keeps the digits of any text, so that "2 for $30" is 230.0 and "10 or 12"
  is 1012.0 without an anomaly. A run executed again after
  its extraction was committed keeps the old one (`retaken`).
- Product sheets. "Ne leve jamais" (`services/fiches_liens.py:365`), but two calls
  stand outside any try (`DieInSheets`). "Un fichier CSV par passage" (`:287`), but
  one a day (`SendTable`). Two processes of one day share the numbered work files
  and may send one product under the name of another (`overlapped`). A sheet whose
  upload fails is counted both as done and as an error. "Envoie les images de lignes
  sur Drive, puis les efface du disque" (`:237`): without Drive they stay, and nothing
  sends or removes them later (`unsent`).
- Backup. "Une sauvegarde de sécurité de l'état courant est créée avant toute
  écriture" (`src/scripts/restore.py:8`) holds neither the secrets nor the captures
  that the options overwrite. "Sauvegarde cohérente" (`src/scripts/backup.py:1`): a
  purge between the dump and the copy of the images leaves rows without image. "La
  plateforme doit être arrêtée avant la restauration" (`src/scripts/restore.py:3`):
  `_stack_running` reads a docker compose that fails, is not there or takes 20 seconds
  as a platform that is stopped, and the restoration goes on beside it (`written`).
- Remote storage. `src/README.md:43` promises S3 an automatic retry; the job exists
  for Google Drive only. "Si un fichier de meme nom existe deja, ne le duplique pas"
  (`services/drive.py:207`) holds inside a process. A manual retry of an uploaded run
  that fails leaves `failed` beside a `drive_file_id`, which the job then ignores; so
  does a worker killed between the commit of the upload and the success; and a
  manual retry in flight while a deduplication takes the copy of its run away leaves
  `uploaded` without `drive_file_id` (`forgotten`), a run that neither the job nor
  anything else takes again. A run
  skipped as a duplicate keeps the upload status its twin had at that moment.
- Files left behind: the thumbnail of a duplicate, the image of an attempt that is
  retried, those of a deleted target, those of a purge that died.
- Planning. "Une seule reprise par cible et par jour" (`services/catchup.py:28`): a
  capture caught up after midnight bears the new date, so each restart in the window
  catches the deadline up again. Two changes of one target at a time can leave a
  stale job or an enabled target without schedule (`overlapped`). A trigger that waits
  past midnight makes APScheduler skip the next deadline of its target when the
  schedule was changed meanwhile (`skipped`, found by the proof of `DeadlinesAreServed`).
- Authentication. A reset link is "à usage unique" (`models.py:216`), but two
  requests that read it before either commits both use it; "un seul lien vivant a la
  fois" (`services/auth.py:154`) likewise (`late`). A crash between the commit of the
  password and that of the sessions leaves them open (`interrupted`). "Un mot de passe
  reinitialise doit deconnecter tous les appareils" (`services/auth.py:205`), but a
  login that verified the old password (`api/auth.py:57`) and commits its session
  (`:64`) after the revocation has read the sessions stays connected (`late`).
  `trop_de_tentatives` (`services/auth.py:60-62`) puts back the list it has read: the
  failures other threads have noted meanwhile are erased, and with enough of these
  overlaps the attempts have no bound (`lost`).
- `remove_member` commits its audit row before the deletion
  (`api/organizations.py:282`).

## 7. Not modelled

- The inline mode (`QUEUE_BACKEND=inline`) has no queue. The worker's heartbeat and
  the health endpoints only report. Starvation by the last-in first-out order needs
  run identifiers that are recycled.
- Of the profiles: the noVNC token, the statuses written to the accounts and the
  content of a session; captures run in the worker, as `src/docker-compose.yml` has
  it (`QUEUE_BACKEND: redis`), not in the API process.
- Of an execution: logs, AI summary, notifications, the extra files sent beside the
  image. Of Drive: folders and resumable chunks.
- Of the scheduler: `interval_minutes`, several time zones, jitter, the daily report.
- Of an account: cookies, CSRF, the API key, mails, settings, audit rows.
- Of a trigger in `CapturePlanning`: the `force` of `run_now` (`services/runner.py:763`),
  which only matters with a deduplication per day.
- Of a page: navigation, the detection of an expired session, the zones that scroll
  by themselves, and anything Chromium decides; a page that inserts rows above what
  was captured; a wheel that moves by a part of what it was asked
  (`services/capture.py:455-467`): it moves as asked or not at all.
- Of the extraction: the providers other than Gemini, the prompt beyond the cut of
  the text, `ai_summary.py`.
- Of the product sheets: the reason of a failure (`splitlines()[0]` of an empty text,
  `services/fiches_liens.py:402`, ends the process as any other exception there does,
  `DieInSheets`); an image of a row half written when its disk is full; two captures
  of one site in the same second, which would share a directory of row images
  (`services/runner.py:364`).
- Of a backup: the branch for SQLite, the one `create_backup` takes when
  `docker compose ps` fails included (`src/scripts/backup.py:206-221`), a source that
  is not there (`_copy_optional` skips it, `:120-125`), the cryptography, the merge of
  profile and secret directories by `copytree` (`src/scripts/restore.py:227`, `:232`):
  they are replaced.
- The Chrome extension, notifications, mails, metrics, the SSRF guard, the
  migrations, the shell scripts and the front end: I/O, or programs of their own that
  share no state with what is modelled.
