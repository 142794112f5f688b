---------------------------- MODULE CaptureArchive ----------------------------
(***************************************************************************)
(* What a capture leaves behind, and who touches it: the row of the run in *)
(* the database, the image on the local disk, the copies on the remote     *)
(* storage.  Three stores, no common transaction:                          *)
(*   - the worker executes the runs of a target (execute_run and           *)
(*     _attempt_once of services/runner.py), one at a time;                *)
(*   - the API process runs the scheduled retry of uploads                 *)
(*     (services/drive_sync.py), the manual retry (api/runs.py), the       *)
(*     nightly purge (services/quotas.py) and the deletion of the target   *)
(*     (api/targets.py), in threads of their own.                          *)
(* CaptureQueue models how a run reaches the worker; here a run of the     *)
(* table is executed, and executed again after a crash.  A page content is *)
(* named by its size.  The delay before a retry (drive_next_retry_at) has  *)
(* no bound in the model: a failed upload may be due at any time.          *)
(***************************************************************************)
EXTENDS Integers, FiniteSetsExt, SequencesExt

CONSTANTS
  LastRun,       \* the runs table holds at most the runs 1..LastRun
  MaxAttempts,   \* settings.max_attempts
  MaxFiles,      \* bounds the captures a run takes, crashes included
  Contents,      \* the contents the page may have, each named by its size
  LastDay,       \* the captures are dated 1..LastDay
  DedupeMode,    \* settings.dedupe_mode
  Backends,      \* the values of settings.storage_backend explored
  StorageLimit,  \* Organization.quota_storage_bytes, 0 for none
  BatchSize,     \* settings.google_drive_retry_batch_size
  MaxEvents      \* bounds the failures, purges, deletions and manual retries

ASSUME ArchiveAssumption ==
  /\ {LastRun, MaxAttempts, MaxFiles, LastDay, BatchSize} \subseteq Nat \ {0}
  /\ Contents \subseteq Nat \ {0}
  /\ DedupeMode \in {"none", "per_day", "content_hash", "both"}
  /\ Backends \subseteq {"local", "google_drive", "s3"}
  /\ {StorageLimit, MaxEvents} \subseteq Nat
  /\ MaxFiles > MaxEvents  \* an image after the first costs a failure

VARIABLES
  backend,   \* settings.storage_backend
  row,       \* database: the row of each run
  disk,      \* disk: the images
  remote,    \* remote storage: who created each copy of an image
  worker,    \* worker: where execute_run is, with its locals
  upload,    \* worker and API: the uploads in progress
  batch,     \* API: the runs retry_due_uploads has still to upload, as read
  apiLock,   \* API: DriveClient._api_lock of the process
  doomed,    \* API: the files purge_expired_runs has still to unlink
  events,    \* the failures and interventions so far
  forgotten  \* observation: the runs a deduplication left without the copy
             \* they had, or took from such a run

apiVars == <<batch, apiLock, doomed>>
actorVars == <<worker, upload, apiVars>>
vars == <<backend, row, disk, remote, actorVars, events, forgotten>>

RunIds == 1..LastRun

(* build_filename: the site, the date and the second.                      *)
Files == RunIds \X (1..MaxFiles)
NoFile == <<0, 0>>

(* drive_file_id names one copy of a file, the first created being 1. *)
Copies == {f \o <<n>> : f \in Files, n \in 1..2}
NoCopy == <<0, 0, 0>>

Settled == {"success", "failed", "skipped", "suspended"}
DriveStatus == {"local", "pending", "failed", "uploaded"}

Row == [status : {"absent", "deleted", "pending", "running"} \cup Settled,
        date : 0..LastDay, force : BOOLEAN,
        shot : Files \cup {NoFile}, hash : Contents \cup {0},
        drive : DriveStatus, copy : Copies \cup {NoCopy}]
NoRow == [status |-> "absent", date |-> 0, force |-> FALSE, shot |-> NoFile,
          hash |-> 0, drive |-> "local", copy |-> NoCopy]

(* The three who upload: the worker in _attempt_once, the scheduled job in *)
(* retry_due_uploads and the administrator in retry_drive_upload.          *)
Uploaders == {"worker", "retry", "manual"}
ProcessOf(u) == IF u = "worker" THEN "worker" ELSE "api"

(* An upload: the run and its image, what the session last read or wrote   *)
(* of the drive columns, and the copy obtained.                            *)
Upload == [step : {"none", "find", "create", "sent", "failed"}, run : 0..LastRun,
           file : Files \cup {NoFile}, drive : DriveStatus,
           had : Copies \cup {NoCopy}, got : Copies \cup {NoCopy}]
NoUpload == [step |-> "none", run |-> 0, file |-> NoFile, drive |-> "local",
             had |-> NoCopy, got |-> NoCopy]

WorkerSteps == {"idle", "capture", "store", "stored", "unlink",
                "upload", "finish"}
IdleWorker == [step |-> "idle", run |-> 0, attempt |-> 0, hash |-> 0,
               file |-> NoFile, drive |-> "local", had |-> NoCopy]

Exists(r) == row[r].status \notin {"absent", "deleted"}

(* _storage_bytes, the run x excepted: screenshot_bytes is set and cleared *)
(* with screenshot_path.                                                   *)
Bytes(r) == IF row[r].shot # NoFile THEN row[r].hash ELSE 0
StorageBytes(x) ==
  SumFunction([r \in RunIds |-> IF Exists(r) /\ r # x THEN Bytes(r) ELSE 0])

Newest(S) == CHOOSE r \in S : \A s \in S : s <= r

(* find_existing_success: the successes of the day, r excepted. *)
DaySuccesses(r) ==
  {s \in RunIds \ {r} : row[s].status = "success" /\ row[s].date = row[r].date}

(* find_by_hash: the successes with this content, r excepted. *)
Twins(r, hash) ==
  {s \in RunIds \ {r} : row[s].status = "success" /\ row[s].hash = hash}

(* SQLAlchemy writes a column when its value differs from the one the      *)
(* session has (expire_on_commit=False: a commit refreshes nothing).       *)
Flushed(had, new, current) == IF new = had THEN current ELSE new

Event == events < MaxEvents /\ events' = events + 1

Init ==
  /\ backend \in Backends
  /\ row = [r \in RunIds |-> NoRow]
  /\ disk = {}
  /\ remote = [f \in Files |-> <<>>]
  /\ worker = IdleWorker
  /\ upload = [u \in Uploaders |-> NoUpload]
  /\ batch = <<>>
  /\ apiLock = "free"
  /\ doomed = {}
  /\ events = 0
  /\ forgotten = {}

-----------------------------------------------------------------------------
(* Creation and deletion of rows *)

(* trigger_target: create_run under the lock of the target, the day not    *)
(* captured yet and enforce_capture_creation content with the storage.     *)
(* The force flag travels in the message of the queue.                     *)
Create(r, d, force) ==
  /\ row[r].status = "absent"
  /\ \A s \in 1..(r - 1) :
       row[s].status \in Settled \cup {"deleted"} /\ row[s].date <= d
  /\ force \/ DedupeMode \notin {"per_day", "both"}
           \/ \A s \in RunIds : ~(row[s].status = "success" /\ row[s].date = d)
  /\ StorageLimit > 0 => StorageBytes(0) < StorageLimit
  /\ row' = [row EXCEPT ![r] = [NoRow EXCEPT !.status = "pending", !.date = d,
                                             !.force = force]]
  /\ UNCHANGED <<backend, disk, remote, actorVars, events, forgotten>>

(* purge_expired_runs, up to its commit: the rows older than the cutoff    *)
(* are deleted, whatever their status; their paths are kept in a local.    *)
PurgeRows(last) ==
  LET expired == {r \in 1..last : Exists(r)} IN
  /\ doomed = {}
  /\ expired # {}
  /\ Event
  /\ row' = [r \in RunIds |-> IF r \in expired
                              THEN [NoRow EXCEPT !.status = "deleted",
                                                 !.date = row[r].date]
                              ELSE row[r]]
  /\ doomed' = {row[r].shot : r \in expired} \ {NoFile}
  /\ UNCHANGED <<backend, disk, remote, worker, upload, batch, apiLock, forgotten>>

(* _safe_unlink of an image, after the commit. *)
PurgeFile(f) ==
  /\ f \in doomed
  /\ doomed' = doomed \ {f}
  /\ disk' = disk \ {f}
  /\ UNCHANGED <<backend, row, remote, worker, upload, batch, apiLock, events, forgotten>>

(* delete_target: ON DELETE CASCADE takes the runs; no file is unlinked,   *)
(* and no run is created any more.                                         *)
DeleteTarget ==
  /\ \E r \in RunIds : Exists(r)
  /\ Event
  /\ row' = [r \in RunIds |-> [NoRow EXCEPT !.status = "deleted",
                                            !.date = row[r].date]]
  /\ UNCHANGED <<backend, disk, remote, actorVars, forgotten>>

-----------------------------------------------------------------------------
(* Worker: execute_run and _attempt_once *)

W(step) == worker.step = step /\ Exists(worker.run)

Goto(step) == worker' = [worker EXCEPT !.step = step]

Settle(status) ==
  /\ row' = [row EXCEPT ![worker.run].status = status]
  /\ worker' = IdleWorker

(* The columns of the drive copied from the run that has the content. *)
ShareDrive(x, s, drive, had) ==
  [x EXCEPT !.drive = Flushed(drive, row[s].drive, @),
            !.copy = Flushed(had, row[s].copy, @)]

Forget(r, s) ==
  forgotten' = IF row'[r].copy = NoCopy /\ (row[r].copy # NoCopy \/ s \in forgotten)
               THEN forgotten \cup {r} ELSE forgotten

(* The worker takes a run pending or, after a crash, running; per_day      *)
(* deduplication may end it at once.                                       *)
Execute(r) ==
  /\ worker = IdleWorker
  /\ row[r].status \in {"pending", "running"}
  /\ LET same == DaySuccesses(r) IN
     IF ~row[r].force /\ DedupeMode \in {"per_day", "both"} /\ same # {}
     THEN /\ row' = [row EXCEPT ![r] = 
               [ShareDrive(@, Newest(same), row[r].drive, row[r].copy)
                EXCEPT !.status = "skipped"]]
          /\ UNCHANGED worker
     ELSE /\ row' = [row EXCEPT ![r].status = "running"]
          /\ worker' = [step |-> "capture", run |-> r, attempt |-> 1, hash |-> 0,
                        file |-> NoFile, drive |-> row[r].drive,
                        had |-> row[r].copy]
  /\ UNCHANGED <<backend, disk, remote, upload, apiVars, events, forgotten>>

(* A new attempt has a new name.                                           *)
NewFiles(r) ==
  {f \in {r} \X (1..MaxFiles) : f \notin disk /\ remote[f] = <<>>}
FreshFile(r) == CHOOSE f \in NewFiles(r) : TRUE

(* capture_page writes the image and returns its size and its hash; it     *)
(* reads no row: the run may have been deleted meanwhile.                  *)
CapturePage(content) ==
  /\ worker.step = "capture"
  /\ NewFiles(worker.run) # {}
  /\ LET f == FreshFile(worker.run) IN
     /\ disk' = disk \cup {f}
     /\ worker' = [worker EXCEPT !.step = "store", !.hash = content,
                                 !.file = f]
  /\ UNCHANGED <<backend, row, remote, upload, apiVars, events, forgotten>>

(* Mutant: one attempt more than settings.max_attempts. *)
RetryOnceMore ==
  IF worker.attempt <= MaxAttempts
  THEN /\ worker' = [worker EXCEPT !.step = "capture", !.attempt = @ + 1,
                                   !.file = NoFile]
       /\ UNCHANGED row
  ELSE Settle("failed")

(* The clause "except Exception": another attempt, or the run has failed.  *)
Retry ==
  IF worker.attempt < MaxAttempts
  THEN /\ worker' = [worker EXCEPT !.step = "capture", !.attempt = @ + 1,
                                   !.file = NoFile]
       /\ UNCHANGED row
  ELSE Settle("failed")

(* capture_page raises: a transient error, an expired session              *)
(* (SessionExpired) or a refused address (UrlRejected).  The last is also  *)
(* tested after the screenshot: the image may stay on the disk.            *)
CaptureRaises ==
  /\ W("capture")
  /\ Event
  /\ \/ Retry /\ UNCHANGED disk
     \/ Settle("suspended") /\ UNCHANGED disk
     \/ /\ Settle("failed")
        /\ NewFiles(worker.run) # {}
        /\ disk' \in {disk, disk \cup {FreshFile(worker.run)}}
  /\ UNCHANGED <<backend, remote, upload, apiVars, forgotten>>

(* Mutant: the storage is checked at the creation of the run only. *)
StoreUnchecked ==
  /\ W("store")
  /\ row' = [row EXCEPT ![worker.run].shot = worker.file,
                        ![worker.run].hash = worker.hash]
  /\ Goto("stored")
  /\ UNCHANGED <<backend, disk, remote, upload, apiVars, events, forgotten>>

(* enforce_capture_size, then the commit of path, size and hash, both      *)
(* under the row lock of the organisation.  The image that would exceed    *)
(* the storage is unlinked and the run fails.                              *)
Store ==
  /\ W("store")
  /\ IF StorageLimit > 0
        /\ StorageBytes(worker.run) + worker.hash > StorageLimit
     THEN /\ disk' = disk \ {worker.file}
          /\ Settle("failed")
     ELSE /\ row' = [row EXCEPT ![worker.run].shot = worker.file,
                                ![worker.run].hash = worker.hash]
          /\ Goto("stored")
          /\ UNCHANGED disk
  /\ UNCHANGED <<backend, remote, upload, apiVars, events, forgotten>>

(* The comparison with the previous capture, the summary or the extraction *)
(* raises: the image is stored, the attempt is not finished.               *)
AnalysisRaises ==
  /\ W("stored")
  /\ Event
  /\ Retry
  /\ UNCHANGED <<backend, disk, remote, upload, apiVars, forgotten>>

HasTwin ==
  /\ ~row[worker.run].force
  /\ DedupeMode \in {"content_hash", "both"}
  /\ Twins(worker.run, worker.hash) # {}

(* Mutant: the image is unlinked before the row gives it up. *)
DeduplicateUnlinked ==
  /\ W("stored")
  /\ HasTwin
  /\ disk' = disk \ {worker.file}
  /\ Goto("unlink")
  /\ UNCHANGED <<backend, row, remote, upload, apiVars, events, forgotten>>

(* The same content is already stored: the row gives up its image first.   *)
Deduplicate ==
  /\ W("stored")
  /\ HasTwin
  /\ row' = [row EXCEPT ![worker.run] =
                [ShareDrive(@, Newest(Twins(worker.run, worker.hash)),
                            worker.drive, worker.had)
                 EXCEPT !.shot = NoFile]]
  /\ Forget(worker.run, Newest(Twins(worker.run, worker.hash)))
  /\ Goto("unlink")
  /\ UNCHANGED <<backend, disk, remote, upload, apiVars, events>>

(* The image is unlinked and DuplicateRun ends the run. *)
UnlinkDuplicate ==
  /\ W("unlink")
  /\ disk' = disk \ {worker.file}
  /\ Settle("skipped")
  /\ UNCHANGED <<backend, remote, upload, apiVars, events, forgotten>>

(* No upload with STORAGE_BACKEND=local; otherwise drive_status is         *)
(* committed as pending before the upload.                                 *)
BeginUpload ==
  /\ W("stored")
  /\ ~HasTwin
  /\ IF backend = "local"
     THEN Goto("finish") /\ UNCHANGED <<row, upload>>
     ELSE /\ Goto("upload")
          /\ upload' = [upload EXCEPT !["worker"] =
               [step |-> "find", run |-> worker.run, file |-> worker.file,
                drive |-> "pending", had |-> worker.had, got |-> NoCopy]]
          /\ row' = [row EXCEPT ![worker.run].drive =
                        Flushed(worker.drive, "pending", @)]
  /\ UNCHANGED <<backend, disk, remote, apiVars, events, forgotten>>

Finish ==
  /\ W("finish")
  /\ Settle("success")
  /\ UNCHANGED <<backend, disk, remote, upload, apiVars, events, forgotten>>

(* The row was deleted meanwhile: the next commit raises, then the log of  *)
(* the error does too, and the exception leaves execute_run.               *)
RunVanished ==
  /\ worker # IdleWorker
  /\ ~Exists(worker.run)
  /\ upload["worker"].step \in {"none", "sent", "failed"}
  /\ worker' = IdleWorker
  /\ upload' = [upload EXCEPT !["worker"] = NoUpload]
  /\ UNCHANGED <<backend, row, disk, remote, apiVars, events, forgotten>>

-----------------------------------------------------------------------------
(* Uploads: drive_sync.upload_capture, DriveClient, S3Client *)

(* DriveClient._api_lock serialises the calls of one process. *)
MayCall(u) == ProcessOf(u) = "worker" \/ apiLock \in {"free", u}

Release(u) == IF apiLock = u THEN "free" ELSE apiLock

UploadStep(u, step) == upload' = [upload EXCEPT ![u].step = step]

(* Mutant: the file is created without being searched for. *)
FindRemoteOnce(u) ==
  /\ upload[u].step = "find"
  /\ MayCall(u)
  /\ UploadStep(u, IF upload[u].file \in disk THEN "create" ELSE "failed")
  /\ apiLock' = IF ProcessOf(u) = "api" THEN u ELSE apiLock
  /\ UNCHANGED <<backend, row, disk, remote, worker, batch, doomed, events, forgotten>>

(* find_file: the oldest file of that name in the folder, if any; the      *)
(* local image must still be there.                                        *)
FindRemote(u) ==
  /\ upload[u].step = "find"
  /\ MayCall(u)
  /\ LET f == upload[u].file IN
     CASE f \notin disk -> UploadStep(u, "failed") /\ UNCHANGED apiLock
       [] f \in disk /\ remote[f] # <<>> ->
            /\ upload' = [upload EXCEPT ![u].step = "sent", ![u].got = f \o <<1>>]
            /\ UNCHANGED apiLock
       [] OTHER ->
            /\ UploadStep(u, "create")
            /\ apiLock' = IF ProcessOf(u) = "api" THEN u ELSE apiLock
  /\ UNCHANGED <<backend, row, disk, remote, worker, batch, doomed, events, forgotten>>

(* files().create adds a file to Drive, whatever is there; upload_file of  *)
(* S3 writes the key.                                                      *)
Created(u) ==
  [remote EXCEPT ![upload[u].file] =
     IF backend = "s3" THEN <<ProcessOf(u)>> ELSE Append(@, ProcessOf(u))]

CreateRemote(u) ==
  /\ upload[u].step = "create"
  /\ remote' = Created(u)
  /\ upload' = [upload EXCEPT ![u].step = "sent",
                  ![u].got = upload[u].file \o <<Len(remote'[upload[u].file])>>]
  /\ apiLock' = Release(u)
  /\ UNCHANGED <<backend, row, disk, worker, batch, doomed, events, forgotten>>

(* The remote storage refuses the call, or creates the file and the reply  *)
(* is lost.                                                                *)
UploadFails(u) ==
  /\ upload[u].step \in {"find", "create"}
  /\ MayCall(u)
  /\ Event
  /\ \/ UNCHANGED remote
     \/ upload[u].step = "create" /\ remote' = Created(u)
  /\ UploadStep(u, "failed")
  /\ apiLock' = Release(u)
  /\ UNCHANGED <<backend, row, disk, worker, batch, doomed, forgotten>>

(* Mutant: mark_success is reached after a failure as well. *)
RecordUploadAnyway(u) ==
  /\ upload[u].step \in {"sent", "failed"}
  /\ Exists(upload[u].run)
  /\ row' = [row EXCEPT ![upload[u].run].drive = "uploaded",
                        ![upload[u].run].copy = upload[u].got]
  /\ upload' = [upload EXCEPT ![u] = NoUpload]
  /\ worker' = [worker EXCEPT !.step = IF u = "worker" THEN "finish" ELSE @]
  /\ UNCHANGED <<backend, disk, remote, apiVars, events, forgotten>>

(* mark_success or mark_failure: what an upload brings to a row. *)
Recorded(x, up) ==
  IF up.step = "sent"
  THEN [x EXCEPT !.drive = Flushed(up.drive, "uploaded", @),
                 !.copy = Flushed(up.had, up.got, @)]
  ELSE [x EXCEPT !.drive = Flushed(up.drive, "failed", @)]

(* The commit; the worker goes on, the other two have finished with this   *)
(* run.                                                                    *)
RecordUpload(u) ==
  /\ upload[u].step \in {"sent", "failed"}
  /\ Exists(upload[u].run)
  /\ row' = [row EXCEPT ![upload[u].run] = Recorded(@, upload[u])]
  /\ upload' = [upload EXCEPT ![u] = NoUpload]
  /\ worker' = [worker EXCEPT !.step = IF u = "worker" THEN "finish" ELSE @]
  /\ UNCHANGED <<backend, disk, remote, apiVars, events, forgotten>>

(* The row was deleted meanwhile: the commit raises, and the job or the    *)
(* request is over.                                                        *)
UploadVanished(u) ==
  /\ u # "worker"
  /\ upload[u].step \in {"sent", "failed"}
  /\ ~Exists(upload[u].run)
  /\ upload' = [upload EXCEPT ![u] = NoUpload]
  /\ batch' = IF u = "retry" THEN <<>> ELSE batch
  /\ UNCHANGED <<backend, row, disk, remote, worker, apiLock, doomed, events, forgotten>>

(* Mutant: only the uploads that failed are taken again. *)
DueFailed == {r \in RunIds : /\ row[r].status = "success"
                             /\ row[r].shot # NoFile
                             /\ row[r].copy = NoCopy
                             /\ row[r].drive = "failed"}

(* The uploads of the automatic retry. *)
Due == {r \in RunIds : /\ row[r].status = "success"
                       /\ row[r].shot # NoFile
                       /\ row[r].copy = NoCopy
                       /\ row[r].drive \in {"pending", "failed"}}

(* order_by(Run.id).limit(...) *)
FirstDue == {r \in Due : Cardinality({s \in Due : s < r}) < BatchSize}

(* retry_due_uploads reads the batch once; the job is scheduled for Google *)
(* Drive only.                                                             *)
SelectDue ==
  /\ backend = "google_drive"
  /\ batch = <<>> /\ upload["retry"] = NoUpload
  /\ Due # {}
  /\ \E rs \in SetToSeqs(FirstDue) :
       /\ \A i, j \in DOMAIN rs : i < j => rs[i] < rs[j]
       /\ batch' = [i \in DOMAIN rs |->
            [run |-> rs[i], file |-> row[rs[i]].shot, drive |-> row[rs[i]].drive]]
  /\ UNCHANGED <<backend, row, disk, remote, worker, upload, apiLock, doomed,
                 events, forgotten>>

(* The next run of the batch, with the columns read with the batch. *)
RetryNext ==
  /\ upload["retry"] = NoUpload
  /\ batch # <<>>
  /\ batch' = Tail(batch)
  /\ upload' = [upload EXCEPT !["retry"] =
       [step |-> IF Head(batch).file \in disk THEN "find" ELSE "failed",
        run |-> Head(batch).run, file |-> Head(batch).file,
        drive |-> Head(batch).drive, had |-> NoCopy, got |-> NoCopy]]
  /\ UNCHANGED <<backend, row, disk, remote, worker, apiLock, doomed, events, forgotten>>

(* retry_drive_upload: whatever the status of the run or of its upload. *)
ManualRetry(r) ==
  /\ backend = "google_drive"
  /\ upload["manual"] = NoUpload
  /\ Exists(r)
  /\ Event
  /\ row[r].shot \in disk
  /\ row' = [row EXCEPT ![r].drive = "pending"]
  /\ upload' = [upload EXCEPT !["manual"] =
       [step |-> "find", run |-> r, file |-> row[r].shot, drive |-> "pending",
        had |-> row[r].copy, got |-> NoCopy]]
  /\ UNCHANGED <<backend, disk, remote, worker, apiVars, forgotten>>

-----------------------------------------------------------------------------
(* Crashes: a request that creates a file may be in flight *)

InFlight(process) ==
  {Created(u) : u \in {v \in Uploaders : /\ ProcessOf(v) = process
                                         /\ upload[v].step = "create"}}

WorkerCrash ==
  /\ worker # IdleWorker
  /\ Event
  /\ worker' = IdleWorker
  /\ upload' = [upload EXCEPT !["worker"] = NoUpload]
  /\ remote' \in {remote} \cup InFlight("worker")
  /\ UNCHANGED <<backend, row, disk, apiVars, forgotten>>

ApiCrash ==
  /\ doomed # {} \/ batch # <<>> \/ upload["retry"] # NoUpload
       \/ upload["manual"] # NoUpload
  /\ Event
  /\ doomed' = {} /\ batch' = <<>> /\ apiLock' = "free"
  /\ upload' = [upload EXCEPT !["retry"] = NoUpload, !["manual"] = NoUpload]
  /\ remote' \in {remote} \cup InFlight("api")
  /\ UNCHANGED <<backend, row, disk, worker, forgotten>>

-----------------------------------------------------------------------------
WorkerStep ==
  \/ \E r \in RunIds : Execute(r)
  \/ \E c \in Contents : CapturePage(c)
  \/ Store \/ Deduplicate \/ UnlinkDuplicate \/ BeginUpload
  \/ Finish \/ RunVanished

UploadNext(u) ==
  FindRemote(u) \/ CreateRemote(u) \/ RecordUpload(u) \/ UploadVanished(u)

RetryJob == SelectDue \/ RetryNext

Failure ==
  \/ CaptureRaises \/ AnalysisRaises
  \/ \E u \in Uploaders : UploadFails(u)
  \/ WorkerCrash \/ ApiCrash

Next ==
  \/ \E r \in RunIds, d \in 1..LastDay, force \in BOOLEAN : Create(r, d, force)
  \/ \E last \in RunIds : PurgeRows(last)
  \/ \E f \in Files : PurgeFile(f)
  \/ DeleteTarget
  \/ WorkerStep
  \/ \E u \in Uploaders : UploadNext(u)
  \/ RetryJob
  \/ \E r \in RunIds : ManualRetry(r)
  \/ Failure

(* The worker and the threads of the API go on as long as they live, and   *)
(* the scheduler runs the retry job again and again.  Nobody has to create,*)
(* purge, delete or retry by hand, and no failure has to happen.           *)
Fairness ==
  /\ WF_vars(WorkerStep)
  /\ \A u \in Uploaders : WF_vars(UploadNext(u))
  /\ WF_vars(RetryJob)

Spec == Init /\ [][Next]_vars /\ Fairness

-----------------------------------------------------------------------------
(* Properties *)

(* The variables have their types. *)
TypeInvariant ==
  /\ backend \in Backends
  /\ row \in [RunIds -> Row]
  /\ disk \subseteq Files
  /\ remote \in [Files -> SeqOf({"worker", "api"}, 2)]
  /\ worker \in [step : WorkerSteps, run : 0..LastRun, attempt : 0..MaxAttempts,
                 hash : Contents \cup {0}, file : Files \cup {NoFile},
                 drive : DriveStatus, had : Copies \cup {NoCopy}]
  /\ upload \in [Uploaders -> Upload]
  /\ batch \in Seq([run : RunIds, file : Files, drive : DriveStatus])
  /\ apiLock \in {"free", "retry", "manual"}
  /\ doomed \subseteq Files
  /\ events \in 0..MaxEvents
  /\ forgotten \subseteq RunIds

(* The database never names an image that is not on the disk, and a run    *)
(* that succeeded names one: the purge and the deduplication commit before *)
(* they unlink, the quota unlinks an image no row names yet, and a crash   *)
(* in between leaves a file without a row, never a row without its file.   *)
RowsHaveTheirImage ==
  \A r \in RunIds :
    /\ row[r].shot # NoFile => row[r].shot \in disk /\ row[r].hash # 0
    /\ row[r].status = "success" => row[r].shot # NoFile

(* The images named by the rows never exceed the storage of the            *)
(* organisation, through retries of a run, crashes and new executions,     *)
(* each of which counts again (enforce_capture_size excludes the run).     *)
StorageIsBounded == StorageLimit > 0 => StorageBytes(0) <= StorageLimit

(* A process creates at most one copy of an image on Google Drive,         *)
(* whatever the retries, the lost replies and the crashes: find_file       *)
(* before create, under the lock of the client.  (The worker and the API   *)
(* do not share that lock: together they may create two.)                  *)
OneCopyPerProcess ==
  \A f \in Files : \A i, j \in DOMAIN remote[f] :
    i # j => remote[f][i] # remote[f][j]

(* The copy the database names exists: uploads recorded late, by the wrong *)
(* actor, or shared with a duplicate never name a copy that was not made.  *)
(* A success said to be uploaded names one, unless a deduplication, cut    *)
(* short by a crash, had taken the copy away from the run while a manual   *)
(* retry was uploading it: the retry then writes the status and, finding   *)
(* the copy it had read, not the copy.                                     *)
CopiesAreReal ==
  \A r \in RunIds :
    /\ row[r].copy # NoCopy =>
         row[r].copy[3] \in DOMAIN remote[SubSeq(row[r].copy, 1, 2)]
    /\ row[r].status = "success" /\ row[r].drive = "uploaded" =>
         row[r].copy # NoCopy \/ r \in forgotten

(* The run left without copy by what CopiesAreReal describes: it is said to *)
(* be uploaded, and nobody uploads it.                                     *)
GivenUp(r) == r \in forgotten /\ row[r].drive = "uploaded"

(* A capture that succeeded with Google Drive and has no copy gets one,    *)
(* unless its row is deleted or it was given up: the job takes it again    *)
(* after every failure, as README.md:242 says.                             *)
UploadsComplete ==
  \A r \in RunIds :
    (row[r].status = "success" /\ backend = "google_drive")
      ~> (row[r].copy # NoCopy \/ ~Exists(r) \/ GivenUp(r))
=============================================================================
