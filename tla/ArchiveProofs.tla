---------------------------- MODULE ArchiveProofs ----------------------------
(***************************************************************************)
(* Proofs about CaptureArchive, for any number of runs, of attempts, of    *)
(* contents and of failures, and for every backend.                        *)
(***************************************************************************)
EXTENDS CaptureArchive, Sums, SequenceTheorems

-----------------------------------------------------------------------------
(* The inductive invariant.                                                *)

IsReal(copy) == copy[3] \in DOMAIN remote[SubSeq(copy, 1, 2)]

(* A run keeps its copy, but for those a deduplication took it from.       *)
KeepsItsCopy(r) == Exists(r) /\ row[r].status # "skipped" /\ r \notin forgotten

RowIsSound(r) ==
  /\ row[r].shot # NoFile =>
       row[r].shot[1] = r /\ row[r].shot \in disk /\ row[r].hash # 0
  /\ row[r].status = "success" => row[r].shot # NoFile
  /\ ~Exists(r) => row[r].shot = NoFile /\ row[r].copy = NoCopy
  /\ row[r].copy # NoCopy => IsReal(row[r].copy)
  /\ KeepsItsCopy(r) /\ row[r].drive = "uploaded" => row[r].copy # NoCopy

(* What the worker knows of the run it executes, unless it was deleted.    *)
WorkerKnows(r) ==
  /\ worker.step = "store" =>
       worker.file \in disk /\ row[r].shot # worker.file
  /\ worker.step \in {"stored", "upload", "finish"} =>
       row[r].shot = worker.file /\ row[r].hash = worker.hash
  /\ worker.step = "unlink" => row[r].shot = NoFile
  /\ r \notin forgotten /\ worker.had # NoCopy => row[r].copy # NoCopy

WorkerIsSound ==
  IF worker.step = "idle" THEN worker = IdleWorker
  ELSE /\ worker.run \in RunIds
       /\ row[worker.run].status \in {"running", "deleted"}
       /\ worker.step # "capture" =>
            /\ worker.file \in Files /\ worker.file[1] = worker.run
            /\ worker.hash \in Contents
       /\ Exists(worker.run) => WorkerKnows(worker.run)

(* Who is about to create a copy has none, and no one of its process is    *)
(* creating another; a copy obtained exists.                               *)
UploadIsSound(u) ==
  upload[u].step # "none" =>
    /\ upload[u].run \in RunIds /\ row[upload[u].run].status # "absent"
    /\ upload[u].file \in Files
    /\ upload[u].step = "create" =>
         /\ \A i \in DOMAIN remote[upload[u].file] :
              remote[upload[u].file][i] # ProcessOf(u)
         /\ ProcessOf(u) = "api" => apiLock = u
    /\ upload[u].step = "sent" => upload[u].got \in Copies /\ IsReal(upload[u].got)
    /\ KeepsItsCopy(upload[u].run) /\ upload[u].had # NoCopy =>
         row[upload[u].run].copy # NoCopy
    /\ u = "worker" => worker.step = "upload" /\ upload[u].run = worker.run

RemoteIsSound(f) ==
  /\ \A i, j \in DOMAIN remote[f] : i # j => remote[f][i] # remote[f][j]
  /\ backend = "s3" => Len(remote[f]) <= 1

ArchiveInvariant ==
  /\ TypeInvariant
  /\ \A r \in RunIds : RowIsSound(r)
  /\ WorkerIsSound
  /\ \A u \in Uploaders : UploadIsSound(u)
  /\ \A f \in Files : RemoteIsSound(f)
  /\ \A f \in doomed : row[f[1]].status = "deleted"
  /\ \A i \in DOMAIN batch : row[batch[i].run].status # "absent"
-----------------------------------------------------------------------------
(* Constants, files and copies.                                            *)

LEMMA Constants ==
  /\ LastRun \in Nat \ {0} /\ MaxAttempts \in Nat \ {0} /\ MaxFiles \in Nat \ {0}
  /\ LastDay \in Nat \ {0} /\ StorageLimit \in Nat /\ MaxEvents \in Nat
  /\ Contents \subseteq Nat \ {0} /\ IsFiniteSet(RunIds)
<1>1. /\ {LastRun, MaxAttempts, MaxFiles, LastDay, BatchSize} \subseteq Nat \ {0}
      /\ {StorageLimit, MaxEvents} \subseteq Nat
      /\ Contents \subseteq Nat \ {0}
  BY ArchiveAssumption, Zenon DEF ArchiveAssumption
<1>2. /\ LastRun \in Nat \ {0} /\ MaxAttempts \in Nat \ {0} /\ MaxFiles \in Nat \ {0}
      /\ LastDay \in Nat \ {0} /\ StorageLimit \in Nat /\ MaxEvents \in Nat
  BY <1>1
<1>3. IsFiniteSet(1..LastRun)
  BY <1>2, FS_Interval
<1>4. QED
  BY <1>1, <1>2, <1>3 DEF RunIds

LEMMA FilesAre ==
  /\ NoFile \notin Files
  /\ \A f \in Files : f[1] \in RunIds /\ f = <<f[1], f[2]>> /\ f[2] \in 1..MaxFiles
  /\ \A r \in RunIds, k \in 1..MaxFiles : <<r, k>> \in Files
<1>1. Files = (1..LastRun) \X (1..MaxFiles)
  BY DEF Files, RunIds
<1>2. ASSUME NEW f \in Files
      PROVE  /\ f[1] \in RunIds /\ f = <<f[1], f[2]>> /\ f[2] \in 1..MaxFiles
             /\ f[1] # 0
  <2>1. PICK a \in 1..LastRun, b \in 1..MaxFiles : f = <<a, b>>
    BY <1>1
  <2>2. a # 0
    BY <2>1, Constants
  <2>3. QED
    BY <2>1, <2>2 DEF RunIds
<1>3. NoFile[1] = 0
  BY DEF NoFile
<1>4. QED
  BY <1>1, <1>2, <1>3 DEF RunIds

LEMMA CopyFields ==
  ASSUME NEW f \in Files, NEW n \in 1..2
  PROVE  /\ f \o <<n>> \in Copies /\ f \o <<n>> # NoCopy
         /\ (f \o <<n>>)[3] = n /\ SubSeq(f \o <<n>>, 1, 2) = f
<1> DEFINE c == f \o <<n>>
<1>1. f \in Seq(Nat) /\ Len(f) = 2 /\ <<n>> \in Seq(Nat) /\ Len(<<n>>) = 1
  <2>1. PICK a \in Nat, b \in Nat : f = <<a, b>>
    <3>1. f = <<f[1], f[2]>> /\ f[1] \in Nat /\ f[2] \in Nat
      BY Constants, FilesAre DEF RunIds
    <3>2. QED
      BY <3>1
  <2>2. QED
    BY <2>1
<1>2. /\ c \in Seq(Nat) /\ Len(c) = 3
      /\ \A i \in 1 .. 3 : c[i] = IF i <= 2 THEN f[i] ELSE <<n>>[i - 2]
  <2>1. PICK t \in Seq(Nat) : t = <<n>> /\ Len(t) = 1
    BY <1>1
  <2>2. /\ f \o t \in Seq(Nat) /\ Len(f \o t) = Len(f) + Len(t)
        /\ \A i \in 1 .. Len(f) + Len(t) :
             (f \o t)[i] = IF i <= Len(f) THEN f[i] ELSE t[i - Len(f)]
    BY <1>1, ConcatProperties
  <2>3. QED
    BY <1>1, <2>1, <2>2
<1>3. c[1] = f[1] /\ c[2] = f[2] /\ c[3] = n
  BY <1>2
<1>4. c \in Copies
  BY DEF Copies
<1> HIDE DEF c
<1>5. /\ SubSeq(c, 1, 2) \in Seq(Nat) /\ Len(SubSeq(c, 1, 2)) = 2
      /\ \A i \in 1 .. 2 : SubSeq(c, 1, 2)[i] = c[i]
  <2>1. \A i \in 1 .. 2 : c[i] \in Nat
    <3>1. c[1] \in Nat /\ c[2] \in Nat
      BY <1>3, FilesAre, Constants DEF RunIds
    <3>2. QED
      BY <3>1
  <2>2. QED
    BY <2>1, SubSeqProperties
<1>6. SubSeq(c, 1, 2) = f
  BY <1>1, <1>3, <1>5, SeqEqual
<1>7. c # NoCopy
  BY <1>3 DEF NoCopy
<1>8. QED
  BY <1>3, <1>4, <1>6, <1>7 DEF c

(* A copy is the copy of a file.                                           *)
LEMMA CopiesAre ==
  ASSUME NEW c \in Copies
  PROVE  /\ SubSeq(c, 1, 2) \in Files /\ c[3] \in 1..2 /\ c # NoCopy
<1>1. PICK f \in Files, n \in 1..2 : c = f \o <<n>>
  BY DEF Copies
<1>2. QED
  BY <1>1, CopyFields

LEMMA NoThings ==
  /\ IdleWorker.step = "idle" /\ NoUpload.step = "none"
  /\ NoUpload \in Upload /\ NoRow \in Row
  /\ NoRow.shot = NoFile /\ NoRow.copy = NoCopy /\ NoRow.drive = "local"
  /\ IdleWorker \in [step : WorkerSteps, run : 0..LastRun, attempt : 0..MaxAttempts,
        hash : Contents \cup {0}, file : Files \cup {NoFile},
        drive : DriveStatus, had : Copies \cup {NoCopy}]
BY Constants DEF IdleWorker, NoUpload, Upload, NoRow, Row, DriveStatus, WorkerSteps,
                 Settled

LEMMA FreshFileIs ==
  ASSUME NEW r \in RunIds, NewFiles(r) # {}
  PROVE  /\ FreshFile(r) \in Files /\ FreshFile(r)[1] = r
         /\ FreshFile(r) \notin disk
<1>1. FreshFile(r) \in NewFiles(r)
  BY DEF FreshFile
<1>2. QED
  BY <1>1, FilesAre DEF NewFiles

(* The copies of a file, one for each process.                             *)
Processes == {"worker", "api"}

LEMMA CopiesOf ==
  /\ \A s : s \in SeqOf(Processes, 2) <=> s \in Seq(Processes) /\ Len(s) <= 2
  /\ \A u \in Uploaders : ProcessOf(u) \in Processes
<1>1. ASSUME NEW s \in SeqOf(Processes, 2)
      PROVE  s \in Seq(Processes) /\ Len(s) <= 2
  <2>1. PICK m \in 0..2 : s \in [1..m -> Processes]
    BY DEF SeqOf
  <2>2. QED
    BY <2>1
<1>2. ASSUME NEW s \in Seq(Processes), Len(s) <= 2
      PROVE  s \in SeqOf(Processes, 2)
  <2>1. s \in [1..Len(s) -> Processes] /\ Len(s) \in Nat
    BY <1>2, LenProperties
  <2>2. Len(s) \in 0..2
    BY <1>2, <2>1
  <2>3. QED
    BY <2>1, <2>2, Zenon DEF SeqOf
<1>3. QED
  BY <1>1, <1>2 DEF ProcessOf, Uploaders, Processes

-----------------------------------------------------------------------------
(* What every step keeps: the copies made, the rows deleted, the copies    *)
(* the rows name.                                                          *)

RemoteGrows == \A f \in Files : DOMAIN remote[f] \subseteq DOMAIN remote'[f]

RowEvolves(r) ==
  /\ row[r].status # "absent" => row'[r].status # "absent"
  /\ row[r].status = "deleted" => row'[r].status = "deleted"
  /\ KeepsItsCopy(r)' /\ row[r].status # "absent" => KeepsItsCopy(r)
  /\ KeepsItsCopy(r)' /\ row[r].copy # NoCopy => row'[r].copy # NoCopy

Evolves ==
  /\ RemoteGrows
  /\ forgotten \subseteq forgotten'
  /\ \A r \in RunIds : RowEvolves(r)

LEMMA RemoteKept ==
  ASSUME remote' = remote
  PROVE  RemoteGrows
BY DEF RemoteGrows

LEMMA RealStays ==
  ASSUME RemoteGrows, NEW c \in Copies, IsReal(c)
  PROVE  c[3] \in DOMAIN remote'[SubSeq(c, 1, 2)]
BY CopiesAre DEF RemoteGrows, IsReal

(* A row nobody touches evolves.                                           *)
LEMMA RowEvolvesKept ==
  ASSUME NEW r \in RunIds, row'[r] = row[r], forgotten \subseteq forgotten'
  PROVE  RowEvolves(r)
BY DEF RowEvolves, KeepsItsCopy, Exists

LEMMA EvolvesKept ==
  ASSUME row' = row, remote' = remote, forgotten' = forgotten
  PROVE  Evolves
BY RowEvolvesKept, RemoteKept DEF Evolves

LEMMA RowFields ==
  ASSUME TypeInvariant, NEW r \in RunIds
  PROVE  /\ row \in [RunIds -> Row] /\ row[r] \in Row
         /\ row[r].status \in {"absent", "deleted", "pending", "running"} \cup Settled
         /\ row[r].date \in 0..LastDay /\ row[r].force \in BOOLEAN
         /\ row[r].shot \in Files \cup {NoFile} /\ row[r].hash \in Contents \cup {0}
         /\ row[r].drive \in DriveStatus /\ row[r].copy \in Copies \cup {NoCopy}
<1>1. row \in [RunIds -> Row]
  BY DEF TypeInvariant
<1>2. row[r] \in Row
  BY <1>1
<1>3. QED
  BY <1>1, <1>2 DEF Row

LEMMA WorkerFields ==
  ASSUME TypeInvariant
  PROVE  /\ worker.step \in WorkerSteps /\ worker.run \in 0..LastRun
         /\ worker.attempt \in 0..MaxAttempts /\ worker.hash \in Contents \cup {0}
         /\ worker.file \in Files \cup {NoFile} /\ worker.drive \in DriveStatus
         /\ worker.had \in Copies \cup {NoCopy}
BY DEF TypeInvariant

LEMMA UploadFields ==
  ASSUME TypeInvariant, NEW u \in Uploaders
  PROVE  /\ upload \in [Uploaders -> Upload] /\ upload[u] \in Upload
         /\ upload[u].step \in {"none", "find", "create", "sent", "failed"}
         /\ upload[u].run \in 0..LastRun /\ upload[u].file \in Files \cup {NoFile}
         /\ upload[u].drive \in DriveStatus /\ upload[u].had \in Copies \cup {NoCopy}
         /\ upload[u].got \in Copies \cup {NoCopy}
<1>1. upload \in [Uploaders -> Upload]
  BY DEF TypeInvariant
<1>2. upload[u] \in Upload
  BY <1>1
<1>3. QED
  BY <1>1, <1>2 DEF Upload

LEMMA EventBounded ==
  ASSUME TypeInvariant, Event
  PROVE  events' \in 0..MaxEvents
<1>1. events \in 0..MaxEvents
  BY DEF TypeInvariant
<1>2. QED
  BY <1>1, Constants DEF Event

(* A row nobody touches, whose image stays, is still sound.                *)
LEMMA RowKept ==
  ASSUME TypeInvariant, NEW r \in RunIds, RowIsSound(r), row'[r] = row[r],
         row[r].shot # NoFile => row[r].shot \in disk',
         RemoteGrows, forgotten \subseteq forgotten'
  PROVE  RowIsSound(r)'
<1>1. row[r].copy # NoCopy => row'[r].copy[3] \in DOMAIN remote'[SubSeq(row'[r].copy, 1, 2)]
  <2> SUFFICES ASSUME row[r].copy # NoCopy
               PROVE  row[r].copy[3] \in DOMAIN remote'[SubSeq(row[r].copy, 1, 2)]
    OBVIOUS
  <2>1. row[r].copy \in Copies /\ IsReal(row[r].copy)
    BY RowFields DEF RowIsSound
  <2>2. PICK c \in Copies : c = row[r].copy
    BY <2>1
  <2>3. QED
    BY <2>1, <2>2, RealStays
<1>2. QED
  BY <1>1 DEF RowIsSound, KeepsItsCopy, Exists, IsReal

(* A worker that does nothing still knows its run.                         *)
LEMMA WorkerKept ==
  ASSUME TypeInvariant, WorkerIsSound, worker' = worker, Evolves,
         worker.step # "idle" /\ Exists(worker.run)' =>
           /\ row'[worker.run].status = row[worker.run].status
           /\ row'[worker.run].shot = row[worker.run].shot
           /\ row'[worker.run].hash = row[worker.run].hash
           /\ worker.step = "store" /\ worker.file \in disk => worker.file \in disk'
  PROVE  WorkerIsSound'
<1>1. CASE worker.step = "idle"
  BY <1>1 DEF WorkerIsSound, IdleWorker
<1>2. CASE worker.step # "idle"
  <2>1. PICK r \in RunIds : r = worker.run
    BY <1>2 DEF WorkerIsSound
  <2>2. RowEvolves(r)
    BY <2>1 DEF Evolves
  <2>3. row[r].status \in {"running", "deleted"}
    BY <1>2, <2>1 DEF WorkerIsSound
  <2>4. row'[r].status \in {"running", "deleted"}
    <3>1. CASE Exists(r)'
      BY <1>2, <2>1, <2>3, <3>1
    <3>2. CASE ~Exists(r)'
      BY <2>2, <2>3, <3>2 DEF Exists, RowEvolves
    <3>3. QED
      BY <3>1, <3>2
  <2>5. ASSUME Exists(r)'
        PROVE  WorkerKnows(r)'
    <3>1. Exists(r) /\ WorkerKnows(r)
      <4>1. Exists(r)
        BY <2>2, <2>3, <2>5 DEF Exists, RowEvolves
      <4>2. QED
        BY <1>2, <2>1, <4>1 DEF WorkerIsSound
    <3>2. /\ row'[r].shot = row[r].shot /\ row'[r].hash = row[r].hash
          /\ worker.step = "store" /\ worker.file \in disk => worker.file \in disk'
      BY <1>2, <2>1, <2>5
    <3>3. r \notin forgotten' /\ worker.had # NoCopy => row'[r].copy # NoCopy
      <4> SUFFICES ASSUME r \notin forgotten', worker.had # NoCopy
                   PROVE  row'[r].copy # NoCopy
        OBVIOUS
      <4>1. r \notin forgotten
        BY DEF Evolves
      <4>2. KeepsItsCopy(r)'
        BY <2>4, <2>5 DEF KeepsItsCopy
      <4>3. QED
        BY <2>2, <3>1, <4>1, <4>2 DEF WorkerKnows, RowEvolves
    <3>4. QED
      BY <3>1, <3>2, <3>3 DEF WorkerKnows
  <2>6. QED
    BY <1>2, <2>1, <2>4, <2>5 DEF WorkerIsSound
<1>3. QED
  BY <1>1, <1>2

(* An upload that makes no step is still sound.                            *)
LEMMA UploadKept ==
  ASSUME TypeInvariant, NEW u \in Uploaders, UploadIsSound(u),
         upload'[u] = upload[u], Evolves,
         upload[u].step = "create" =>
           /\ \A i \in DOMAIN remote'[upload[u].file] :
                remote'[upload[u].file][i] # ProcessOf(u)
           /\ ProcessOf(u) = "api" => apiLock' = u,
         u = "worker" /\ upload[u].step # "none" =>
           worker'.step = "upload" /\ worker'.run = worker.run
  PROVE  UploadIsSound(u)'
<1> SUFFICES ASSUME upload[u].step # "none"
             PROVE  UploadIsSound(u)'
  BY DEF UploadIsSound
<1>1. PICK r \in RunIds : r = upload[u].run
  BY DEF UploadIsSound
<1>2. RowEvolves(r) /\ row[r].status # "absent"
  BY <1>1 DEF Evolves, UploadIsSound
<1>3. row'[r].status # "absent"
  BY <1>2 DEF RowEvolves
<1>4. KeepsItsCopy(r)' /\ upload[u].had # NoCopy => row'[r].copy # NoCopy
  BY <1>1, <1>2 DEF RowEvolves, UploadIsSound
<1>5. upload[u].step = "sent" =>
        upload[u].got \in Copies
          /\ upload[u].got[3] \in DOMAIN remote'[SubSeq(upload[u].got, 1, 2)]
  <2> SUFFICES ASSUME upload[u].step = "sent"
               PROVE  upload[u].got \in Copies
                 /\ upload[u].got[3] \in DOMAIN remote'[SubSeq(upload[u].got, 1, 2)]
    OBVIOUS
  <2>1. PICK c \in Copies : c = upload[u].got /\ IsReal(c)
    BY DEF UploadIsSound
  <2>2. QED
    BY <2>1, RealStays DEF Evolves
<1>6. upload[u].step = "create" =>
        /\ \A i \in DOMAIN remote'[upload[u].file] :
             remote'[upload[u].file][i] # ProcessOf(u)
        /\ ProcessOf(u) = "api" => apiLock' = u
  BY DEF UploadIsSound
<1>7. u = "worker" => worker'.step = "upload" /\ upload[u].run = worker'.run
  BY DEF UploadIsSound
<1>8. upload[u].file \in Files
  BY DEF UploadIsSound
<1> DEFINE x == upload[u]
<1>9. /\ x = upload'[u] /\ x.run = r
  BY <1>1
<1> HIDE DEF x
<1>10. /\ x.file \in Files
       /\ x.step = "create" =>
            /\ \A i \in DOMAIN remote'[x.file] : remote'[x.file][i] # ProcessOf(u)
            /\ ProcessOf(u) = "api" => apiLock' = u
       /\ x.step = "sent" => x.got \in Copies
            /\ x.got[3] \in DOMAIN remote'[SubSeq(x.got, 1, 2)]
       /\ KeepsItsCopy(r)' /\ x.had # NoCopy => row'[r].copy # NoCopy
       /\ u = "worker" => worker'.step = "upload" /\ x.run = worker'.run
  BY <1>4, <1>5, <1>6, <1>7, <1>8 DEF x
<1>11. QED
  BY <1>1, <1>3, <1>9, <1>10 DEF UploadIsSound, IsReal, KeepsItsCopy, Exists

LEMMA UploadsKept ==
  ASSUME ArchiveInvariant, Evolves, UNCHANGED <<upload, remote, apiLock>>,
         upload["worker"].step # "none" =>
           worker'.step = "upload" /\ worker'.run = worker.run
  PROVE  \A u \in Uploaders : UploadIsSound(u)'
<1> TAKE u \in Uploaders
<1>1. TypeInvariant /\ UploadIsSound(u)
  BY DEF ArchiveInvariant
<1>2. upload[u].step = "create" =>
        /\ \A i \in DOMAIN remote'[upload[u].file] :
             remote'[upload[u].file][i] # ProcessOf(u)
        /\ ProcessOf(u) = "api" => apiLock' = u
  BY <1>1 DEF UploadIsSound
<1>3. QED
  BY <1>1, <1>2, UploadKept

(* One upload makes a step that leaves the remote storage alone.           *)
LEMMA OtherUploads ==
  ASSUME ArchiveInvariant, Evolves, UNCHANGED <<remote, apiLock>>,
         NEW u \in Uploaders, \A v \in Uploaders \ {u} : upload'[v] = upload[v],
         u = "worker" \/ worker' = worker
  PROVE  \A v \in Uploaders \ {u} : UploadIsSound(v)'
<1> TAKE v \in Uploaders \ {u}
<1>1. TypeInvariant /\ UploadIsSound(v) /\ upload'[v] = upload[v]
  BY DEF ArchiveInvariant
<1>2. upload[v].step = "create" =>
        /\ \A i \in DOMAIN remote'[upload[v].file] :
             remote'[upload[v].file][i] # ProcessOf(v)
        /\ ProcessOf(v) = "api" => apiLock' = v
  BY <1>1 DEF UploadIsSound
<1>3. v = "worker" /\ upload[v].step # "none" =>
        worker'.step = "upload" /\ worker'.run = worker.run
  BY <1>1 DEF UploadIsSound
<1>4. QED
  BY <1>1, <1>2, <1>3, UploadKept

LEMMA RemotesKept ==
  ASSUME ArchiveInvariant, UNCHANGED <<remote, backend>>
  PROVE  \A f \in Files : RemoteIsSound(f)'
BY DEF ArchiveInvariant, RemoteIsSound

LEMMA DoomedKept ==
  ASSUME ArchiveInvariant, Evolves, doomed' \subseteq doomed
  PROVE  (\A f \in doomed : row[f[1]].status = "deleted")'
<1> SUFFICES ASSUME NEW f \in doomed'
             PROVE  row'[f[1]].status = "deleted"
  OBVIOUS
<1>1. f \in doomed /\ f[1] \in RunIds /\ row[f[1]].status = "deleted"
  BY FilesAre DEF ArchiveInvariant, TypeInvariant
<1>2. QED
  BY <1>1 DEF Evolves, RowEvolves

LEMMA BatchRuns ==
  ASSUME TypeInvariant, NEW i \in DOMAIN batch
  PROVE  /\ i \in 1..Len(batch) /\ Len(batch) \in Nat
         /\ batch[i] \in [run : RunIds, file : Files, drive : DriveStatus]
         /\ batch[i].run \in RunIds /\ batch[i].file \in Files
         /\ batch[i].drive \in DriveStatus
<1>1. batch \in Seq([run : RunIds, file : Files, drive : DriveStatus])
  BY DEF TypeInvariant
<1>2. i \in 1..Len(batch) /\ Len(batch) \in Nat
  BY <1>1
<1>3. batch[i] \in [run : RunIds, file : Files, drive : DriveStatus]
  BY <1>1, <1>2, ElementOfSeq
<1>4. QED
  BY <1>2, <1>3

LEMMA BatchKept ==
  ASSUME ArchiveInvariant, Evolves, batch' = batch
  PROVE  (\A i \in DOMAIN batch : row[batch[i].run].status # "absent")'
<1> SUFFICES ASSUME NEW i \in DOMAIN batch
             PROVE  row'[batch[i].run].status # "absent"
  OBVIOUS
<1>1. batch[i].run \in RunIds /\ row[batch[i].run].status # "absent"
  BY BatchRuns DEF ArchiveInvariant
<1>2. QED
  BY <1>1 DEF Evolves, RowEvolves

(* A step of which only the rows, the disk and the worker know anything.   *)
LEMMA OthersKept ==
  ASSUME ArchiveInvariant, Evolves, doomed' \subseteq doomed,
         UNCHANGED <<backend, remote, upload, batch, apiLock>>,
         upload["worker"].step # "none" =>
           worker'.step = "upload" /\ worker'.run = worker.run
  PROVE  /\ \A u \in Uploaders : UploadIsSound(u)'
         /\ \A f \in Files : RemoteIsSound(f)'
         /\ (\A f \in doomed : row[f[1]].status = "deleted")'
         /\ (\A i \in DOMAIN batch : row[batch[i].run].status # "absent")'
BY UploadsKept, RemotesKept, DoomedKept, BatchKept

-----------------------------------------------------------------------------
(* A row with one of its columns changed.                                  *)

Statuses == {"absent", "deleted", "pending", "running"} \cup Settled

LEMMA RowWithStatus ==
  ASSUME TypeInvariant, NEW r \in RunIds, NEW s \in Statuses,
         row' = [row EXCEPT ![r].status = s]
  PROVE  /\ row' \in [RunIds -> Row]
         /\ \A q \in RunIds \ {r} : row'[q] = row[q]
         /\ row'[r] = [row[r] EXCEPT !.status = s]
         /\ row'[r].status = s /\ row'[r].shot = row[r].shot
         /\ row'[r].hash = row[r].hash /\ row'[r].drive = row[r].drive
         /\ row'[r].copy = row[r].copy
<1> DEFINE x == [row[r] EXCEPT !.status = s]
<1>1. row \in [RunIds -> Row] /\ row[r] \in Row
  BY RowFields
<1>2. /\ x \in Row /\ x.status = s /\ x.shot = row[r].shot
      /\ x.hash = row[r].hash /\ x.drive = row[r].drive /\ x.copy = row[r].copy
  BY <1>1 DEF Row, Statuses
<1>3. row' = [row EXCEPT ![r] = x]
  OBVIOUS
<1> HIDE DEF x
<1>4. row' \in [RunIds -> Row] /\ row'[r] = x /\ \A q \in RunIds \ {r} : row'[q] = row[q]
  BY <1>1, <1>2, <1>3
<1>5. QED
  BY <1>2, <1>4 DEF x

(* A run that is being executed and changes its status.                    *)
LEMMA RowSettles ==
  ASSUME ArchiveInvariant, NEW r \in RunIds, NEW s \in Statuses,
         row' = [row EXCEPT ![r].status = s], remote' = remote,
         forgotten' = forgotten, row[r].status \in {"pending", "running"},
         s \in {"running", "failed", "suspended", "skipped", "success"},
         s = "success" => row[r].shot # NoFile,
         \A q \in RunIds : row[q].shot \in disk => row[q].shot \in disk'
  PROVE  /\ row' \in [RunIds -> Row] /\ Evolves
         /\ \A q \in RunIds : RowIsSound(q)'
<1>1. TypeInvariant /\ \A q \in RunIds : RowIsSound(q)
  BY DEF ArchiveInvariant
<1>2. /\ row' \in [RunIds -> Row]
      /\ \A q \in RunIds \ {r} : row'[q] = row[q]
      /\ row'[r].status = s /\ row'[r].shot = row[r].shot
      /\ row'[r].hash = row[r].hash /\ row'[r].drive = row[r].drive
      /\ row'[r].copy = row[r].copy
  BY <1>1, RowWithStatus
<1>3. RemoteGrows
  BY RemoteKept
<1>4. RowEvolves(r)
  BY <1>2 DEF RowEvolves, KeepsItsCopy, Exists
<1>5. Evolves
  BY <1>2, <1>3, <1>4, RowEvolvesKept DEF Evolves
<1>6. RowIsSound(r)'
  <2>1. row[r].copy # NoCopy => row'[r].copy[3] \in DOMAIN remote'[SubSeq(row'[r].copy, 1, 2)]
    BY <1>1, <1>2 DEF RowIsSound, IsReal
  <2>2. row[r].shot # NoFile => row[r].shot \in disk'
    BY <1>1 DEF RowIsSound
  <2>3. KeepsItsCopy(r)' => KeepsItsCopy(r)
    BY <1>2 DEF KeepsItsCopy, Exists
  <2>4. Exists(r)'
    BY <1>2 DEF Exists
  <2>5. QED
    BY <1>1, <1>2, <2>1, <2>2, <2>3, <2>4 DEF RowIsSound, IsReal
<1>7. ASSUME NEW q \in RunIds \ {r}
      PROVE  RowIsSound(q)'
  <2>1. row[q].shot # NoFile => row[q].shot \in disk'
    BY <1>1 DEF RowIsSound
  <2>2. QED
    BY <1>1, <1>2, <1>3, <2>1, RowKept
<1>8. QED
  BY <1>2, <1>5, <1>6, <1>7

-----------------------------------------------------------------------------
(* Rows created and deleted.                                               *)

LEMMA CreateStep ==
  ASSUME ArchiveInvariant, NEW r \in RunIds, NEW d \in 1..LastDay,
         NEW force \in BOOLEAN, Create(r, d, force)
  PROVE  ArchiveInvariant'
<1> DEFINE x == [NoRow EXCEPT !.status = "pending", !.date = d, !.force = force]
<1>1. /\ TypeInvariant /\ WorkerIsSound /\ RowIsSound(r)
      /\ \A q \in RunIds : RowIsSound(q)
  BY DEF ArchiveInvariant
<1>2. /\ row[r].status = "absent" /\ row' = [row EXCEPT ![r] = x]
      /\ UNCHANGED <<backend, disk, remote, actorVars, events, forgotten>>
  BY DEF Create
<1>3. /\ x \in Row /\ x.status = "pending" /\ x.shot = NoFile
      /\ x.copy = NoCopy /\ x.drive = "local"
  <2>1. d \in 0..LastDay
    BY Constants
  <2>2. x \in Row
    BY <2>1, NoThings DEF Row
  <2>3. QED
    BY <2>2 DEF NoRow
<1> HIDE DEF x
<1>4. /\ row' \in [RunIds -> Row] /\ row'[r] = x
      /\ \A q \in RunIds \ {r} : row'[q] = row[q]
  BY <1>1, <1>2, <1>3, RowFields
<1>5. TypeInvariant'
  BY <1>1, <1>2, <1>4 DEF TypeInvariant, actorVars, apiVars
<1>6. Evolves
  <2>1. RowEvolves(r)
    BY <1>1, <1>2, <1>3, <1>4 DEF RowEvolves, RowIsSound, Exists
  <2>2. QED
    BY <1>2, <1>4, <2>1, RemoteKept, RowEvolvesKept DEF Evolves
<1>7. ASSUME NEW q \in RunIds
      PROVE  RowIsSound(q)'
  <2>1. CASE q = r
    BY <1>3, <1>4, <2>1 DEF RowIsSound, Exists
  <2>2. CASE q # r
    BY <1>1, <1>2, <1>4, <1>6, <2>2, RowKept DEF Evolves, RowIsSound
  <2>3. QED
    BY <2>1, <2>2
<1>8. WorkerIsSound'
  <2>1. worker.step # "idle" => worker.run \in RunIds \ {r}
    BY <1>1, <1>2 DEF WorkerIsSound
  <2>2. worker' = worker /\ disk' = disk
    BY <1>2 DEF actorVars
  <2>3. QED
    BY <1>1, <1>4, <1>6, <2>1, <2>2, WorkerKept
<1>9. QED
  <2>1. upload["worker"].step # "none" =>
          worker'.step = "upload" /\ worker'.run = worker.run
    BY <1>2 DEF actorVars, ArchiveInvariant, UploadIsSound, Uploaders
  <2>2. UNCHANGED <<backend, remote, upload, batch, apiLock, doomed>>
    BY <1>2 DEF actorVars, apiVars
  <2>3. QED
    BY <1>5, <1>6, <1>7, <1>8, <2>1, <2>2, OthersKept DEF ArchiveInvariant

(* Rows are deleted, whatever the worker does with them.                   *)
LEMMA RowsDeleted ==
  ASSUME ArchiveInvariant, NEW E \in SUBSET RunIds,
         row' = [r \in RunIds |-> IF r \in E
                                  THEN [NoRow EXCEPT !.status = "deleted",
                                                     !.date = row[r].date]
                                  ELSE row[r]],
         UNCHANGED <<disk, remote, worker, forgotten>>
  PROVE  /\ row' \in [RunIds -> Row] /\ Evolves /\ WorkerIsSound'
         /\ \A r \in E : row'[r].status = "deleted"
         /\ \A r \in RunIds : RowIsSound(r)'
<1>1. /\ TypeInvariant /\ WorkerIsSound
      /\ \A q \in RunIds : RowIsSound(q)
  BY DEF ArchiveInvariant
<1>2. ASSUME NEW r \in RunIds
      PROVE  row'[r] \in Row
  <2>1. row'[r] = IF r \in E THEN [NoRow EXCEPT !.status = "deleted", !.date = row[r].date]
                             ELSE row[r]
    OBVIOUS
  <2>2. [NoRow EXCEPT !.status = "deleted", !.date = row[r].date] \in Row
    BY <1>1, NoThings, RowFields DEF Row
  <2>3. QED
    BY <1>1, <2>1, <2>2, RowFields
<1>3. row' \in [RunIds -> Row]
  BY <1>2
<1>4. ASSUME NEW r \in E
      PROVE  row'[r].status = "deleted" /\ row'[r].shot = NoFile /\ row'[r].copy = NoCopy
  <2>1. row'[r] = [NoRow EXCEPT !.status = "deleted", !.date = row[r].date]
    OBVIOUS
  <2>2. QED
    BY <2>1 DEF NoRow
<1>5. \A r \in RunIds \ E : row'[r] = row[r]
  OBVIOUS
<1>6. Evolves
  <2>1. \A r \in E : RowEvolves(r)
    BY <1>4 DEF RowEvolves, KeepsItsCopy, Exists
  <2>2. QED
    BY <1>5, <2>1, RemoteKept, RowEvolvesKept DEF Evolves
<1>7. ASSUME NEW r \in RunIds
      PROVE  RowIsSound(r)'
  <2>1. CASE r \in E
    BY <1>4, <2>1 DEF RowIsSound, KeepsItsCopy, Exists
  <2>2. CASE r \notin E
    BY <1>1, <1>5, <1>6, <2>2, RowKept DEF Evolves, RowIsSound
  <2>3. QED
    BY <2>1, <2>2
<1>8. WorkerIsSound'
  <2>1. worker.step # "idle" /\ Exists(worker.run)' => worker.run \in RunIds \ E
    BY <1>1, <1>4 DEF WorkerIsSound, Exists
  <2>2. QED
    BY <1>1, <1>5, <1>6, <2>1, WorkerKept
<1>9. QED
  BY <1>3, <1>4, <1>6, <1>7, <1>8

LEMMA PurgeRowsStep ==
  ASSUME ArchiveInvariant, NEW last \in RunIds, PurgeRows(last)
  PROVE  ArchiveInvariant'
<1> DEFINE expired == {r \in 1..last : Exists(r)}
<1>1. /\ TypeInvariant /\ WorkerIsSound
      /\ \A q \in RunIds : RowIsSound(q)
  BY DEF ArchiveInvariant
<1>2. /\ row' = [r \in RunIds |-> IF r \in expired
                              THEN [NoRow EXCEPT !.status = "deleted",
                                                 !.date = row[r].date]
                              ELSE row[r]]
      /\ doomed' = {row[r].shot : r \in expired} \ {NoFile} /\ Event
      /\ UNCHANGED <<backend, disk, remote, worker, upload, batch, apiLock, forgotten>>
  BY DEF PurgeRows
<1>3. expired \in SUBSET RunIds
  BY Constants DEF RunIds
<1> HIDE DEF expired
<1>4. /\ row' \in [RunIds -> Row] /\ Evolves /\ WorkerIsSound'
      /\ \A r \in expired : row'[r].status = "deleted"
      /\ \A r \in RunIds : RowIsSound(r)'
  BY <1>2, <1>3, RowsDeleted
<1>5. ASSUME NEW f \in doomed'
      PROVE  f \in Files /\ row'[f[1]].status = "deleted"
  <2>1. PICK r \in expired : f = row[r].shot /\ f # NoFile
    BY <1>2
  <2>2. f[1] = r /\ f \in Files
    BY <1>1, <1>3, <2>1, RowFields DEF RowIsSound
  <2>3. QED
    BY <1>4, <2>2
<1>6. events' \in 0..MaxEvents
  BY <1>1, <1>2, EventBounded
<1>7. TypeInvariant'
  BY <1>1, <1>2, <1>4, <1>5, <1>6 DEF TypeInvariant
<1>8. upload["worker"].step # "none" =>
        worker'.step = "upload" /\ worker'.run = worker.run
  BY <1>2 DEF ArchiveInvariant, UploadIsSound, Uploaders
<1>9. QED
  BY <1>2, <1>4, <1>5, <1>7, <1>8, UploadsKept, RemotesKept, BatchKept
  DEF ArchiveInvariant

LEMMA DeleteTargetStep ==
  ASSUME ArchiveInvariant, DeleteTarget
  PROVE  ArchiveInvariant'
<1>1. /\ TypeInvariant /\ WorkerIsSound
      /\ \A q \in RunIds : RowIsSound(q)
  BY DEF ArchiveInvariant
<1>2. /\ row' = [r \in RunIds |-> IF r \in RunIds
                              THEN [NoRow EXCEPT !.status = "deleted",
                                                 !.date = row[r].date]
                              ELSE row[r]]
      /\ UNCHANGED <<backend, disk, remote, actorVars, forgotten>>
      /\ Event
  BY DEF DeleteTarget
<1>3. UNCHANGED <<backend, disk, remote, worker, upload, batch, apiLock, doomed, forgotten>>
  BY <1>2 DEF actorVars, apiVars
<1>4. /\ row' \in [RunIds -> Row] /\ Evolves /\ WorkerIsSound'
      /\ \A r \in RunIds : RowIsSound(r)'
  BY <1>2, <1>3, RowsDeleted
<1>5. events' \in 0..MaxEvents
  BY <1>1, <1>2, EventBounded
<1>6. TypeInvariant'
  BY <1>1, <1>3, <1>4, <1>5 DEF TypeInvariant
<1>7. upload["worker"].step # "none" =>
        worker'.step = "upload" /\ worker'.run = worker.run
  BY <1>3 DEF ArchiveInvariant, UploadIsSound, Uploaders
<1>8. QED
  BY <1>3, <1>4, <1>6, <1>7, OthersKept DEF ArchiveInvariant

(* No row of a run names a doomed file.                                    *)
LEMMA PurgeFileStep ==
  ASSUME ArchiveInvariant, NEW f \in Files, PurgeFile(f)
  PROVE  ArchiveInvariant'
<1>1. /\ TypeInvariant /\ WorkerIsSound
      /\ \A q \in RunIds : RowIsSound(q)
  BY DEF ArchiveInvariant
<1>2. /\ f \in doomed /\ doomed' = doomed \ {f} /\ disk' = disk \ {f}
      /\ UNCHANGED <<backend, row, remote, worker, upload, batch, apiLock, events, forgotten>>
  BY DEF PurgeFile
<1>3. f[1] \in RunIds /\ row[f[1]].status = "deleted"
  BY <1>2, FilesAre DEF ArchiveInvariant
<1>4. Evolves
  BY <1>2, EvolvesKept
<1>5. TypeInvariant'
  <2>1. disk' \subseteq Files /\ doomed' \subseteq Files
    BY <1>1, <1>2 DEF TypeInvariant
  <2>2. QED
    BY <1>1, <1>2, <2>1 DEF TypeInvariant
<1>6. ASSUME NEW r \in RunIds
      PROVE  RowIsSound(r)'
  <2>1. row[r].shot # NoFile => row[r].shot \in disk'
    BY <1>1, <1>2, <1>3 DEF RowIsSound, Exists
  <2>2. QED
    BY <1>1, <1>2, <1>4, <2>1, RowKept DEF Evolves
<1>7. WorkerIsSound'
  <2>1. Exists(worker.run)' /\ worker.step = "store" => worker.file # f
    BY <1>1, <1>2, <1>3 DEF WorkerIsSound, Exists
  <2>2. QED
    BY <1>1, <1>2, <1>4, <2>1, WorkerKept
<1>8. upload["worker"].step # "none" =>
        worker'.step = "upload" /\ worker'.run = worker.run
  BY <1>2 DEF ArchiveInvariant, UploadIsSound, Uploaders
<1>9. doomed' \subseteq doomed
  BY <1>2
<1>10. QED
  BY <1>2, <1>4, <1>5, <1>6, <1>7, <1>8, <1>9, OthersKept DEF ArchiveInvariant

-----------------------------------------------------------------------------
(* The steps of the worker.                                                *)

(* A set of runs has a newest one.                                         *)
LEMMA NewestIs ==
  ASSUME NEW S \in SUBSET RunIds, S # {}
  PROVE  Newest(S) \in S
<1> DEFINE Older == {n \in Nat : LastRun - n \in S}
<1>1. Older \in SUBSET Nat
  OBVIOUS
<1>2. Older # {}
  <2>1. PICK s \in S : TRUE
    OBVIOUS
  <2>2. s \in 1..LastRun /\ LastRun \in Nat
    BY Constants DEF RunIds
  <2>3. LastRun - s \in Nat /\ LastRun - (LastRun - s) = s
    BY <2>2
  <2>4. QED
    BY <2>3
<1>3. PICK n \in Older : \A m \in Older : n <= m
  <2> HIDE DEF Older
  <2>1. QED
    BY <1>1, <1>2, LeastNatural
<1>4. ASSUME NEW s \in S
      PROVE  s <= LastRun - n
  <2>1. s \in 1..LastRun /\ LastRun \in Nat /\ n \in Nat
    BY Constants DEF RunIds
  <2>2. LastRun - s \in Older
    <3>1. LastRun - s \in Nat /\ LastRun - (LastRun - s) = s
      BY <2>1
    <3>2. QED
      BY <3>1
  <2>3. n <= LastRun - s
    BY <1>3, <2>2
  <2>4. QED
    BY <2>1, <2>3
<1>5. LastRun - n \in S
  OBVIOUS
<1>6. QED
  BY <1>4, <1>5 DEF Newest

LEMMA ShareDriveIs ==
  ASSUME TypeInvariant, NEW r \in RunIds, NEW s \in RunIds,
         NEW drive \in DriveStatus, NEW had \in Copies \cup {NoCopy},
         NEW x, x = ShareDrive(row[r], s, drive, had)
  PROVE  /\ x \in Row /\ x.status = row[r].status /\ x.date = row[r].date
         /\ x.force = row[r].force /\ x.shot = row[r].shot /\ x.hash = row[r].hash
         /\ x.drive = Flushed(drive, row[s].drive, row[r].drive)
         /\ x.copy = Flushed(had, row[s].copy, row[r].copy)
<1>1. row[r] \in Row /\ row[s] \in Row
  BY RowFields
<1>2. PICK d : d = Flushed(drive, row[s].drive, row[r].drive)
  OBVIOUS
<1>3. PICK c : c = Flushed(had, row[s].copy, row[r].copy)
  OBVIOUS
<1>4. d \in DriveStatus /\ c \in Copies \cup {NoCopy}
  BY <1>2, <1>3, RowFields DEF Flushed
<1>5. x = [row[r] EXCEPT !.drive = d, !.copy = c]
  BY <1>2, <1>3 DEF ShareDrive
<1>6. QED
  BY <1>1, <1>2, <1>3, <1>4, <1>5 DEF Row

(* A copy taken from a twin exists.                                        *)
LEMMA SharedIsReal ==
  ASSUME ArchiveInvariant, NEW r \in RunIds, NEW s \in RunIds,
         NEW had, Flushed(had, row[s].copy, row[r].copy) # NoCopy
  PROVE  IsReal(Flushed(had, row[s].copy, row[r].copy))
BY DEF ArchiveInvariant, RowIsSound, Flushed

WorkerType ==
  [step : WorkerSteps, run : 0..LastRun, attempt : 0..MaxAttempts,
   hash : Contents \cup {0}, file : Files \cup {NoFile},
   drive : DriveStatus, had : Copies \cup {NoCopy}]

LEMMA WorkerIdles ==
  ASSUME worker' = IdleWorker
  PROVE  worker' \in WorkerType /\ WorkerIsSound'
BY NoThings DEF WorkerType, WorkerIsSound

(* The worker at work on a run that exists, elsewhere than in an upload.   *)
LEMMA AtWork ==
  ASSUME ArchiveInvariant, NEW step \in WorkerSteps \ {"idle"}, W(step)
  PROVE  /\ TypeInvariant /\ worker.step = step /\ worker \in WorkerType
         /\ worker.run \in RunIds /\ row[worker.run].status = "running"
         /\ WorkerKnows(worker.run) /\ RowIsSound(worker.run)
         /\ step # "capture" => worker.file \in Files
              /\ worker.file[1] = worker.run /\ worker.hash \in Contents
         /\ step # "upload" => upload["worker"].step = "none"
         /\ \A q \in RunIds : RowIsSound(q)
<1>1. /\ TypeInvariant /\ WorkerIsSound /\ UploadIsSound("worker")
      /\ \A q \in RunIds : RowIsSound(q)
  BY DEF ArchiveInvariant, Uploaders
<1>2. worker \in WorkerType
  BY <1>1 DEF TypeInvariant, WorkerType
<1>3. worker.step = step /\ Exists(worker.run)
  BY DEF W
<1>4. /\ worker.run \in RunIds /\ row[worker.run].status \in {"running", "deleted"}
      /\ WorkerKnows(worker.run)
      /\ step # "capture" => worker.file \in Files
              /\ worker.file[1] = worker.run /\ worker.hash \in Contents
  BY <1>1, <1>3 DEF WorkerIsSound
<1>5. step # "upload" => upload["worker"].step = "none"
  BY <1>1, <1>3 DEF UploadIsSound
<1>6. row[worker.run].status = "running"
  BY <1>3, <1>4 DEF Exists
<1>7. RowIsSound(worker.run)
  BY <1>1, <1>4
<1>8. QED
  BY <1>1, <1>2, <1>3, <1>4, <1>5, <1>6, <1>7

LEMMA ExecuteStep ==
  ASSUME ArchiveInvariant, NEW r \in RunIds, Execute(r)
  PROVE  ArchiveInvariant'
<1> DEFINE same == DaySuccesses(r)
           n == Newest(same)
           work == [step |-> "capture", run |-> r, attempt |-> 1, hash |-> 0,
                    file |-> NoFile, drive |-> row[r].drive, had |-> row[r].copy]
<1>1. /\ TypeInvariant /\ WorkerIsSound /\ RowIsSound(r)
      /\ \A q \in RunIds : RowIsSound(q)
  BY DEF ArchiveInvariant
<1>2. /\ worker = IdleWorker /\ row[r].status \in {"pending", "running"}
      /\ UNCHANGED <<backend, disk, remote, upload, apiVars, events, forgotten>>
  BY DEF Execute
<1>3. UNCHANGED <<batch, apiLock, doomed>>
  BY <1>2 DEF apiVars
<1>4. upload["worker"].step = "none"
  BY <1>2, NoThings DEF ArchiveInvariant, UploadIsSound, Uploaders
<1>5. \/ /\ same # {} /\ worker' = worker
         /\ row' = [row EXCEPT ![r] = [ShareDrive(row[r], n, row[r].drive, row[r].copy)
                                       EXCEPT !.status = "skipped"]]
      \/ /\ row' = [row EXCEPT ![r].status = "running"]
         /\ worker' = work
  BY DEF Execute
<1>6. same \in SUBSET RunIds
  BY DEF DaySuccesses
<1> HIDE DEF same
<1>7. CASE /\ same # {} /\ worker' = worker
           /\ row' = [row EXCEPT ![r] = [ShareDrive(row[r], n, row[r].drive, row[r].copy)
                                         EXCEPT !.status = "skipped"]]
  <2>1. PICK s \in RunIds : s = n
    BY <1>6, <1>7, NewestIs
  <2>2. PICK y : y = ShareDrive(row[r], s, row[r].drive, row[r].copy)
    OBVIOUS
  <2>3. /\ y \in Row /\ y.shot = row[r].shot /\ y.hash = row[r].hash
        /\ y.copy = Flushed(row[r].copy, row[s].copy, row[r].copy)
    <3>1. row[r].drive \in DriveStatus /\ row[r].copy \in Copies \cup {NoCopy}
      BY <1>1, RowFields
    <3>2. QED
      BY <1>1, <2>2, <3>1, ShareDriveIs
  <2>4. PICK x : x = [y EXCEPT !.status = "skipped"]
    OBVIOUS
  <2>5. /\ x \in Row /\ x.shot = row[r].shot /\ x.hash = row[r].hash
        /\ x.copy = y.copy /\ x.status = "skipped"
    BY <2>3, <2>4 DEF Row, Settled
  <2>6. /\ row' \in [RunIds -> Row] /\ row'[r] = x
        /\ \A q \in RunIds \ {r} : row'[q] = row[q]
    <3>1. row' = [row EXCEPT ![r] = x]
      BY <1>7, <2>1, <2>2, <2>4
    <3>2. QED
      BY <1>1, <2>5, <3>1, RowFields
  <2>7. Evolves
    <3>1. RowEvolves(r)
      BY <1>2, <2>5, <2>6 DEF RowEvolves, KeepsItsCopy
    <3>2. QED
      BY <1>2, <2>6, <3>1, RowEvolvesKept, RemoteKept DEF Evolves
  <2>8. RowIsSound(r)'
    <3>1. x.copy # NoCopy => IsReal(x.copy)
      BY <2>3, <2>5, SharedIsReal
    <3>2. x.copy # NoCopy => x.copy[3] \in DOMAIN remote'[SubSeq(x.copy, 1, 2)]
      BY <1>2, <3>1 DEF IsReal
    <3>3. QED
      BY <1>1, <1>2, <2>5, <2>6, <3>2 DEF RowIsSound, IsReal, KeepsItsCopy, Exists
  <2>9. ASSUME NEW q \in RunIds \ {r}
        PROVE  RowIsSound(q)'
    BY <1>1, <1>2, <2>6, <2>7, RowKept DEF RowIsSound, Evolves
  <2>10. worker' \in WorkerType /\ WorkerIsSound'
    BY <1>2, <1>7, WorkerIdles
  <2>11. TypeInvariant'
    BY <1>1, <1>2, <1>3, <2>6, <2>10 DEF TypeInvariant, WorkerType
  <2>12. QED
    BY <1>2, <1>3, <1>4, <2>7, <2>8, <2>9, <2>10, <2>11, OthersKept DEF ArchiveInvariant
<1>8. CASE row' = [row EXCEPT ![r].status = "running"] /\ worker' = work
  <2>1. /\ row' \in [RunIds -> Row] /\ Evolves
        /\ \A q \in RunIds : RowIsSound(q)'
    BY <1>2, <1>8, RowSettles DEF Statuses
  <2>2. row'[r].status = "running" /\ row'[r].copy = row[r].copy
    BY <1>1, <1>8, RowWithStatus DEF Statuses
  <2>3. worker' \in WorkerType
    BY <1>1, <1>8, RowFields, Constants DEF WorkerType, WorkerSteps, RunIds
  <2>4. WorkerIsSound'
    BY <1>8, <2>2 DEF WorkerIsSound, WorkerKnows
  <2>5. TypeInvariant'
    BY <1>1, <1>2, <1>3, <2>1, <2>3 DEF TypeInvariant, WorkerType
  <2>6. QED
    BY <1>2, <1>3, <1>4, <2>1, <2>4, <2>5, OthersKept DEF ArchiveInvariant
<1>9. QED
  BY <1>5, <1>7, <1>8

(* The run ends, with the image its row names, if any, on the disk.        *)
LEMMA SettleStep ==
  ASSUME ArchiveInvariant, NEW step \in WorkerSteps \ {"idle", "upload"}, W(step),
         NEW s \in {"failed", "suspended", "skipped", "success"}, Settle(s),
         s = "success" => row[worker.run].shot # NoFile,
         disk' \subseteq Files, events' \in 0..MaxEvents,
         \A q \in RunIds : row[q].shot \in disk => row[q].shot \in disk',
         UNCHANGED <<backend, remote, upload, batch, apiLock, doomed, forgotten>>
  PROVE  ArchiveInvariant'
<1>1. PICK r \in RunIds : r = worker.run
  BY AtWork
<1>2. /\ TypeInvariant /\ row[r].status = "running"
      /\ upload["worker"].step = "none"
  BY <1>1, AtWork
<1>3. row' = [row EXCEPT ![r].status = s] /\ worker' = IdleWorker
  BY <1>1 DEF Settle
<1>4. s \in Statuses
  BY DEF Statuses, Settled
<1>5. /\ row' \in [RunIds -> Row] /\ Evolves
      /\ \A q \in RunIds : RowIsSound(q)'
  BY <1>1, <1>2, <1>3, <1>4, RowSettles
<1>6. worker' \in WorkerType /\ WorkerIsSound'
  BY <1>3, WorkerIdles
<1>7. TypeInvariant'
  BY <1>2, <1>5, <1>6 DEF TypeInvariant, WorkerType
<1>8. QED
  BY <1>2, <1>5, <1>6, <1>7, OthersKept DEF ArchiveInvariant

(* The worker takes a step that changes no row.                            *)
LEMMA WorkerMoves ==
  ASSUME ArchiveInvariant, worker.step # "upload", upload["worker"].step = "none",
         UNCHANGED <<backend, row, remote, upload, batch, apiLock, doomed, forgotten>>,
         disk' \subseteq Files, events' \in 0..MaxEvents,
         \A q \in RunIds : row[q].shot \in disk => row[q].shot \in disk',
         worker' \in WorkerType, WorkerIsSound'
  PROVE  ArchiveInvariant'
<1>1. TypeInvariant /\ \A q \in RunIds : RowIsSound(q)
  BY DEF ArchiveInvariant
<1>2. Evolves
  BY EvolvesKept
<1>3. TypeInvariant'
  BY <1>1 DEF TypeInvariant, WorkerType
<1>4. ASSUME NEW q \in RunIds
      PROVE  RowIsSound(q)'
  BY <1>1, <1>2, RowKept DEF RowIsSound, Evolves
<1>5. QED
  BY <1>2, <1>3, <1>4, OthersKept DEF ArchiveInvariant

LEMMA RetryStep ==
  ASSUME ArchiveInvariant, NEW step \in WorkerSteps \ {"idle", "upload"}, W(step),
         Retry, disk' = disk, Event,
         UNCHANGED <<backend, remote, upload, batch, apiLock, doomed, forgotten>>
  PROVE  ArchiveInvariant'
<1>1. PICK r \in RunIds : r = worker.run
  BY AtWork
<1>2. /\ TypeInvariant /\ row[r].status = "running"
      /\ upload["worker"].step = "none" /\ WorkerKnows(r)
      /\ worker \in WorkerType /\ worker.step = step
  BY <1>1, AtWork
<1>3. events' \in 0..MaxEvents /\ disk' \subseteq Files
  BY <1>2, EventBounded DEF TypeInvariant
<1>4. CASE Settle("failed")
  BY <1>3, <1>4, SettleStep
<1>5. CASE /\ worker.attempt < MaxAttempts /\ row' = row
           /\ worker' = [worker EXCEPT !.step = "capture", !.attempt = @ + 1,
                                       !.file = NoFile]
  <2>1. worker.attempt + 1 \in 0..MaxAttempts
    BY <1>2, <1>5, Constants, WorkerFields
  <2>2. worker' \in WorkerType
    BY <1>2, <1>5, <2>1 DEF WorkerType, WorkerSteps
  <2>3. worker'.step = "capture" /\ worker'.run = r /\ worker'.had = worker.had
    BY <1>1, <1>2, <1>5 DEF WorkerType
  <2>4. WorkerIsSound'
    BY <1>2, <1>5, <2>3 DEF WorkerIsSound, WorkerKnows
  <2>5. QED
    BY <1>2, <1>3, <1>5, <2>2, <2>4, WorkerMoves
<1>6. QED
  BY <1>4, <1>5 DEF Retry

LEMMA CapturePageStep ==
  ASSUME ArchiveInvariant, NEW content \in Contents, CapturePage(content)
  PROVE  ArchiveInvariant'
<1>1. /\ TypeInvariant /\ WorkerIsSound /\ UploadIsSound("worker")
      /\ \A q \in RunIds : RowIsSound(q)
  BY DEF ArchiveInvariant, Uploaders
<1>2. worker.step = "capture" /\ NewFiles(worker.run) # {}
  BY DEF CapturePage
<1>3. PICK r \in RunIds : r = worker.run
  BY <1>1, <1>2 DEF WorkerIsSound
<1>4. PICK f \in Files : f = FreshFile(r) /\ f[1] = r /\ f \notin disk
  BY <1>2, <1>3, FreshFileIs
<1>5. /\ disk' = disk \cup {f}
      /\ worker' = [worker EXCEPT !.step = "store", !.hash = content, !.file = f]
      /\ UNCHANGED <<backend, row, remote, upload, apiVars, events, forgotten>>
  BY <1>3, <1>4 DEF CapturePage
<1>6. UNCHANGED <<batch, apiLock, doomed>>
  BY <1>5 DEF apiVars
<1>7. worker \in WorkerType
  BY <1>1 DEF TypeInvariant, WorkerType
<1>8. worker' \in WorkerType
  BY <1>5, <1>7 DEF WorkerType, WorkerSteps
<1>9. /\ worker'.step = "store" /\ worker'.run = r /\ worker'.had = worker.had
      /\ worker'.file = f /\ worker'.hash = content
  BY <1>3, <1>5, <1>7 DEF WorkerType
<1>10. WorkerIsSound'
  <2>1. row[r].status \in {"running", "deleted"}
    BY <1>1, <1>2, <1>3 DEF WorkerIsSound
  <2>2. Exists(r) => WorkerKnows(r)
    BY <1>1, <1>2, <1>3 DEF WorkerIsSound
  <2>3. f \in disk' /\ row[r].shot # f
    BY <1>1, <1>4, <1>5, FilesAre DEF RowIsSound
  <2>4. Exists(r)' => WorkerKnows(r)'
    BY <1>5, <1>9, <2>2, <2>3 DEF WorkerKnows, Exists
  <2>5. QED
    BY <1>4, <1>5, <1>9, <2>1, <2>4 DEF WorkerIsSound
<1>11. /\ disk' \subseteq Files /\ events' \in 0..MaxEvents
       /\ \A q \in RunIds : row[q].shot \in disk => row[q].shot \in disk'
  BY <1>1, <1>5 DEF TypeInvariant
<1>12. upload["worker"].step = "none"
  BY <1>1, <1>2 DEF UploadIsSound
<1>13. QED
  BY <1>2, <1>5, <1>6, <1>8, <1>10, <1>11, <1>12, WorkerMoves

LEMMA CaptureRaisesStep ==
  ASSUME ArchiveInvariant, CaptureRaises
  PROVE  ArchiveInvariant'
<1>1. /\ W("capture") /\ Event
      /\ UNCHANGED <<backend, remote, upload, apiVars, forgotten>>
  BY DEF CaptureRaises
<1>2. UNCHANGED <<batch, apiLock, doomed>>
  BY <1>1 DEF apiVars
<1>3. "capture" \in WorkerSteps \ {"idle", "upload"}
  BY DEF WorkerSteps
<1>4. TypeInvariant /\ worker.run \in RunIds
  BY <1>1, <1>3, AtWork
<1>5. events' \in 0..MaxEvents /\ disk \subseteq Files
  BY <1>1, <1>4, EventBounded DEF TypeInvariant
<1>6. CASE Retry /\ UNCHANGED disk
  BY <1>1, <1>2, <1>3, <1>6, RetryStep
<1>7. CASE Settle("suspended") /\ UNCHANGED disk
  BY <1>1, <1>2, <1>3, <1>5, <1>7, SettleStep
<1>8. CASE /\ Settle("failed") /\ NewFiles(worker.run) # {}
           /\ disk' \in {disk, disk \cup {FreshFile(worker.run)}}
  <2>1. disk' \subseteq Files /\ disk \subseteq disk'
    BY <1>4, <1>5, <1>8, FreshFileIs
  <2>2. QED
    BY <1>1, <1>2, <1>3, <1>5, <1>8, <2>1, SettleStep
<1>9. QED
  BY <1>6, <1>7, <1>8 DEF CaptureRaises

LEMMA AnalysisRaisesStep ==
  ASSUME ArchiveInvariant, AnalysisRaises
  PROVE  ArchiveInvariant'
<1>1. /\ W("stored") /\ Event /\ Retry
      /\ UNCHANGED <<backend, disk, remote, upload, apiVars, forgotten>>
  BY DEF AnalysisRaises
<1>2. UNCHANGED <<batch, apiLock, doomed>>
  BY <1>1 DEF apiVars
<1>3. "stored" \in WorkerSteps \ {"idle", "upload"}
  BY DEF WorkerSteps
<1>4. QED
  BY <1>1, <1>2, <1>3, RetryStep

LEMMA FinishStep ==
  ASSUME ArchiveInvariant, Finish
  PROVE  ArchiveInvariant'
<1>1. /\ W("finish") /\ Settle("success")
      /\ UNCHANGED <<backend, disk, remote, upload, apiVars, events, forgotten>>
  BY DEF Finish
<1>2. UNCHANGED <<batch, apiLock, doomed>>
  BY <1>1 DEF apiVars
<1>3. "finish" \in WorkerSteps \ {"idle", "upload"}
  BY DEF WorkerSteps
<1>4. /\ TypeInvariant /\ WorkerKnows(worker.run) /\ worker.step = "finish"
      /\ worker.file \in Files
  BY <1>1, <1>3, AtWork
<1>5. row[worker.run].shot # NoFile
  BY <1>4, FilesAre DEF WorkerKnows
<1>6. disk' \subseteq Files /\ events' \in 0..MaxEvents
  BY <1>1, <1>4 DEF TypeInvariant
<1>7. QED
  BY <1>1, <1>2, <1>3, <1>5, <1>6, SettleStep

LEMMA UnlinkDuplicateStep ==
  ASSUME ArchiveInvariant, UnlinkDuplicate
  PROVE  ArchiveInvariant'
<1>1. /\ W("unlink") /\ Settle("skipped") /\ disk' = disk \ {worker.file}
      /\ UNCHANGED <<backend, remote, upload, apiVars, events, forgotten>>
  BY DEF UnlinkDuplicate
<1>2. UNCHANGED <<batch, apiLock, doomed>>
  BY <1>1 DEF apiVars
<1>3. "unlink" \in WorkerSteps \ {"idle", "upload"}
  BY DEF WorkerSteps
<1>4. /\ TypeInvariant /\ WorkerKnows(worker.run) /\ worker.step = "unlink"
      /\ worker.file \in Files /\ worker.file[1] = worker.run
      /\ \A q \in RunIds : RowIsSound(q)
  BY <1>1, <1>3, AtWork
<1>5. ASSUME NEW q \in RunIds, row[q].shot \in disk
      PROVE  row[q].shot \in disk'
  <2>1. row[q].shot # worker.file
    BY <1>4, FilesAre DEF WorkerKnows, RowIsSound
  <2>2. QED
    BY <1>1, <1>5, <2>1
<1>6. disk' \subseteq Files /\ events' \in 0..MaxEvents
  BY <1>1, <1>4 DEF TypeInvariant
<1>7. QED
  BY <1>1, <1>2, <1>3, <1>5, <1>6, SettleStep

LEMMA OneRow ==
  ASSUME ArchiveInvariant, NEW r \in RunIds, NEW x \in Row,
         row' = [row EXCEPT ![r] = x], disk' = disk, remote' = remote,
         forgotten \subseteq forgotten', RowEvolves(r)
  PROVE  /\ row' \in [RunIds -> Row] /\ row'[r] = x /\ Evolves
         /\ \A q \in RunIds \ {r} : row'[q] = row[q] /\ RowIsSound(q)'
<1>1. TypeInvariant /\ \A q \in RunIds : RowIsSound(q)
  BY DEF ArchiveInvariant
<1>2. /\ row' \in [RunIds -> Row] /\ row'[r] = x
      /\ \A q \in RunIds \ {r} : row'[q] = row[q]
  BY <1>1, RowFields
<1>3. Evolves
  BY <1>2, RowEvolvesKept, RemoteKept DEF Evolves
<1>4. ASSUME NEW q \in RunIds \ {r}
      PROVE  RowIsSound(q)'
  BY <1>1, <1>2, <1>3, RowKept DEF RowIsSound, Evolves
<1>5. QED
  BY <1>2, <1>3, <1>4

LEMMA StoreStep ==
  ASSUME ArchiveInvariant, Store
  PROVE  ArchiveInvariant'
<1>1. /\ W("store")
      /\ UNCHANGED <<backend, remote, upload, apiVars, events, forgotten>>
  BY DEF Store
<1>2. UNCHANGED <<batch, apiLock, doomed>>
  BY <1>1 DEF apiVars
<1>3. "store" \in WorkerSteps \ {"idle", "upload"}
  BY DEF WorkerSteps
<1>4. PICK r \in RunIds : r = worker.run
  BY <1>1, <1>3, AtWork
<1>5. /\ TypeInvariant /\ worker.step = "store" /\ worker \in WorkerType
      /\ row[r].status = "running" /\ WorkerKnows(r)
      /\ worker.file \in Files /\ worker.file[1] = r /\ worker.hash \in Contents
      /\ upload["worker"].step = "none" /\ \A q \in RunIds : RowIsSound(q)
  BY <1>1, <1>3, <1>4, AtWork
<1>6. CASE Settle("failed") /\ disk' = disk \ {worker.file}
  <2>1. ASSUME NEW q \in RunIds, row[q].shot \in disk
        PROVE  row[q].shot \in disk'
    <3>1. row[q].shot # worker.file
      BY <1>5, FilesAre DEF WorkerKnows, RowIsSound
    <3>2. QED
      BY <1>6, <2>1, <3>1
  <2>2. disk' \subseteq Files /\ events' \in 0..MaxEvents
    BY <1>1, <1>5, <1>6 DEF TypeInvariant
  <2>3. QED
    BY <1>1, <1>2, <1>3, <1>6, <2>1, <2>2, SettleStep
<1>7. CASE /\ row' = [row EXCEPT ![r].shot = worker.file, ![r].hash = worker.hash]
           /\ worker' = [worker EXCEPT !.step = "stored"] /\ disk' = disk
  <2>1. PICK x : x = [row[r] EXCEPT !.shot = worker.file, !.hash = worker.hash]
    OBVIOUS
  <2>2. /\ x \in Row /\ x.shot = worker.file /\ x.hash = worker.hash
        /\ x.status = "running" /\ x.drive = row[r].drive /\ x.copy = row[r].copy
    <3>1. row[r] \in Row
      BY <1>5, RowFields
    <3>2. QED
      BY <1>5, <2>1, <3>1 DEF Row
  <2>3. row' = [row EXCEPT ![r] = x]
    BY <1>5, <1>7, <2>1, RowFields
  <2>4. row'[r] = x
    BY <1>5, <2>3, RowFields
  <2>5. RowEvolves(r)
    BY <1>1, <1>5, <2>2, <2>4 DEF RowEvolves, KeepsItsCopy, Exists
  <2>6. /\ row' \in [RunIds -> Row] /\ Evolves
        /\ \A q \in RunIds \ {r} : row'[q] = row[q] /\ RowIsSound(q)'
    BY <1>1, <1>7, <2>2, <2>3, <2>5, OneRow
  <2>7. RowIsSound(r)'
    <3>1. x.hash # 0
      BY <1>5, <2>2, Constants
    <3>2. worker.file \in disk
      BY <1>5 DEF WorkerKnows
    <3>3. KeepsItsCopy(r)' => KeepsItsCopy(r)
      BY <1>1, <1>5, <2>2, <2>4 DEF KeepsItsCopy, Exists
    <3>4. QED
      BY <1>1, <1>5, <1>7, <2>2, <2>4, <3>1, <3>2, <3>3 DEF RowIsSound, IsReal, Exists
  <2>8. worker' \in WorkerType
    BY <1>5, <1>7 DEF WorkerType, WorkerSteps
  <2>9. /\ worker'.step = "stored" /\ worker'.run = r /\ worker'.file = worker.file
        /\ worker'.hash = worker.hash /\ worker'.had = worker.had
    BY <1>4, <1>5, <1>7 DEF WorkerType
  <2>10. WorkerIsSound'
    BY <1>1, <1>5, <2>2, <2>4, <2>9 DEF WorkerIsSound, WorkerKnows
  <2>11. TypeInvariant'
    BY <1>1, <1>2, <1>5, <1>7, <2>6, <2>8 DEF TypeInvariant, WorkerType
  <2>12. QED
    BY <1>1, <1>2, <1>5, <2>6, <2>7, <2>10, <2>11, OthersKept DEF ArchiveInvariant
<1>8. QED
  BY <1>4, <1>6, <1>7 DEF Store, Goto

LEMMA DeduplicateStep ==
  ASSUME ArchiveInvariant, Deduplicate
  PROVE  ArchiveInvariant'
<1> DEFINE n == Newest(Twins(worker.run, worker.hash))
<1>1. /\ W("stored") /\ HasTwin /\ Goto("unlink")
      /\ row' = [row EXCEPT ![worker.run] =
                    [ShareDrive(row[worker.run], n, worker.drive, worker.had)
                     EXCEPT !.shot = NoFile]]
      /\ forgotten' =
           IF row'[worker.run].copy = NoCopy
                /\ (row[worker.run].copy # NoCopy \/ n \in forgotten)
           THEN forgotten \cup {worker.run} ELSE forgotten
      /\ UNCHANGED <<backend, disk, remote, upload, apiVars, events>>
  BY DEF Deduplicate, Forget
<1>2. UNCHANGED <<batch, apiLock, doomed>>
  BY <1>1 DEF apiVars
<1>3. "stored" \in WorkerSteps \ {"idle", "upload"}
  BY DEF WorkerSteps
<1>4. PICK r \in RunIds : r = worker.run
  BY <1>1, <1>3, AtWork
<1>5. /\ TypeInvariant /\ worker.step = "stored" /\ worker \in WorkerType
      /\ row[r].status = "running" /\ WorkerKnows(r)
      /\ worker.file \in Files /\ worker.file[1] = r /\ worker.hash \in Contents
      /\ upload["worker"].step = "none" /\ \A q \in RunIds : RowIsSound(q)
  BY <1>1, <1>3, <1>4, AtWork
<1>6. PICK s \in RunIds : s = n /\ row[s].status = "success"
  <2>1. Twins(worker.run, worker.hash) # {}
    BY <1>1 DEF HasTwin
  <2>2. /\ Twins(worker.run, worker.hash) \in SUBSET RunIds
        /\ \A q \in Twins(worker.run, worker.hash) : row[q].status = "success"
    BY DEF Twins
  <2>3. QED
    BY <2>1, <2>2, NewestIs
<1> HIDE DEF n
<1>7. PICK had \in Copies \cup {NoCopy}, drive \in DriveStatus :
        had = worker.had /\ drive = worker.drive
  BY <1>5, WorkerFields
<1>8. PICK y : y = ShareDrive(row[r], s, drive, had)
  OBVIOUS
<1>9. /\ y \in Row /\ y.status = row[r].status /\ y.hash = row[r].hash
      /\ y.drive = Flushed(drive, row[s].drive, row[r].drive)
      /\ y.copy = Flushed(had, row[s].copy, row[r].copy)
  BY <1>5, <1>8, ShareDriveIs
<1>10. PICK x : x = [y EXCEPT !.shot = NoFile]
  OBVIOUS
<1>11. /\ x \in Row /\ x.status = "running" /\ x.shot = NoFile
       /\ x.drive = y.drive /\ x.copy = y.copy
  BY <1>5, <1>9, <1>10 DEF Row
<1>12. row' = [row EXCEPT ![r] = x]
  BY <1>1, <1>4, <1>6, <1>7, <1>8, <1>10
<1>13. row'[r] = x
  BY <1>5, <1>12, RowFields
<1>14. forgotten' = IF x.copy = NoCopy /\ (row[r].copy # NoCopy \/ s \in forgotten)
                    THEN forgotten \cup {r} ELSE forgotten
  BY <1>1, <1>4, <1>6, <1>13
<1>15. RowEvolves(r)
  BY <1>5, <1>11, <1>13, <1>14 DEF RowEvolves, KeepsItsCopy, Exists
<1>16. /\ row' \in [RunIds -> Row] /\ Evolves
       /\ \A q \in RunIds \ {r} : row'[q] = row[q] /\ RowIsSound(q)'
  BY <1>1, <1>11, <1>12, <1>14, <1>15, OneRow
<1>17. r \notin forgotten /\ had # NoCopy => row[r].copy # NoCopy
  BY <1>5, <1>7 DEF WorkerKnows
<1>18. RowIsSound(r)'
  <2>1. x.copy # NoCopy => x.copy[3] \in DOMAIN remote'[SubSeq(x.copy, 1, 2)]
    BY <1>1, <1>9, <1>11, SharedIsReal DEF IsReal
  <2>2. ASSUME r \notin forgotten', x.drive = "uploaded", x.copy = NoCopy
        PROVE  FALSE
    <3>1. /\ row[r].copy = NoCopy /\ s \notin forgotten /\ r \notin forgotten
          /\ had = NoCopy
      BY <1>14, <1>17, <2>2
    <3>2. row[s].copy = NoCopy
      BY <1>9, <1>11, <2>2, <3>1 DEF Flushed
    <3>3. row[s].drive # "uploaded" /\ row[r].drive # "uploaded"
      BY <1>5, <1>6, <3>1, <3>2 DEF RowIsSound, KeepsItsCopy, Exists
    <3>4. QED
      BY <1>9, <1>11, <2>2, <3>3 DEF Flushed
  <2>3. QED
    BY <1>11, <1>13, <2>1, <2>2 DEF RowIsSound, KeepsItsCopy, Exists, IsReal
<1>19. worker' \in WorkerType
  BY <1>1, <1>5 DEF Goto, WorkerType, WorkerSteps
<1>20. /\ worker'.step = "unlink" /\ worker'.run = r /\ worker'.file = worker.file
       /\ worker'.hash = worker.hash /\ worker'.had = had
  BY <1>1, <1>4, <1>5, <1>7 DEF Goto, WorkerType
<1>21. WorkerIsSound'
  <2>1. r \notin forgotten' /\ had # NoCopy => x.copy # NoCopy
    BY <1>14, <1>17
  <2>2. QED
    BY <1>5, <1>11, <1>13, <1>20, <2>1 DEF WorkerIsSound, WorkerKnows
<1>22. TypeInvariant'
  <2>1. forgotten' \subseteq RunIds
    BY <1>5, <1>14 DEF TypeInvariant
  <2>2. QED
    BY <1>1, <1>2, <1>5, <1>16, <1>19, <2>1 DEF TypeInvariant, WorkerType
<1>23. QED
  BY <1>1, <1>2, <1>5, <1>16, <1>18, <1>21, <1>22, OthersKept DEF ArchiveInvariant

LEMMA BeginUploadStep ==
  ASSUME ArchiveInvariant, BeginUpload
  PROVE  ArchiveInvariant'
<1>1. /\ W("stored")
      /\ UNCHANGED <<backend, disk, remote, apiVars, events, forgotten>>
  BY DEF BeginUpload
<1>2. UNCHANGED <<batch, apiLock, doomed>>
  BY <1>1 DEF apiVars
<1>3. "stored" \in WorkerSteps \ {"idle", "upload"}
  BY DEF WorkerSteps
<1>4. PICK r \in RunIds : r = worker.run
  BY <1>1, <1>3, AtWork
<1>5. /\ TypeInvariant /\ worker.step = "stored" /\ worker \in WorkerType
      /\ row[r].status = "running" /\ WorkerKnows(r)
      /\ worker.file \in Files /\ worker.file[1] = r /\ worker.hash \in Contents
      /\ upload["worker"].step = "none" /\ \A q \in RunIds : RowIsSound(q)
  BY <1>1, <1>3, <1>4, AtWork
<1>6. disk' \subseteq Files /\ events' \in 0..MaxEvents
  BY <1>1, <1>5 DEF TypeInvariant
<1>7. CASE worker' = [worker EXCEPT !.step = "finish"] /\ UNCHANGED <<row, upload>>
  <2>1. worker' \in WorkerType
    BY <1>5, <1>7 DEF WorkerType, WorkerSteps
  <2>2. /\ worker'.step = "finish" /\ worker'.run = r /\ worker'.file = worker.file
        /\ worker'.hash = worker.hash /\ worker'.had = worker.had
    BY <1>4, <1>5, <1>7 DEF WorkerType
  <2>3. WorkerIsSound'
    BY <1>1, <1>5, <1>7, <2>2 DEF WorkerIsSound, WorkerKnows
  <2>4. QED
    BY <1>1, <1>2, <1>5, <1>6, <1>7, <2>1, <2>3, WorkerMoves
<1>8. CASE /\ worker' = [worker EXCEPT !.step = "upload"]
           /\ upload' = [upload EXCEPT !["worker"] =
                [step |-> "find", run |-> r, file |-> worker.file,
                 drive |-> "pending", had |-> worker.had, got |-> NoCopy]]
           /\ row' = [row EXCEPT ![r].drive = Flushed(worker.drive, "pending", row[r].drive)]
  <2>1. PICK d \in DriveStatus :
          /\ d = Flushed(worker.drive, "pending", row[r].drive)
          /\ d = "uploaded" => row[r].drive = "uploaded"
    <3>1. row[r].drive \in DriveStatus
      BY <1>5, RowFields
    <3>2. QED
      BY <3>1 DEF Flushed, DriveStatus
  <2>2. PICK x : x = [row[r] EXCEPT !.drive = d]
    OBVIOUS
  <2>3. /\ x \in Row /\ x.status = "running" /\ x.drive = d
        /\ x.shot = row[r].shot /\ x.hash = row[r].hash /\ x.copy = row[r].copy
    <3>1. row[r] \in Row
      BY <1>5, RowFields
    <3>2. QED
      BY <1>5, <2>2, <3>1 DEF Row
  <2>4. row' = [row EXCEPT ![r] = x]
    BY <1>8, <2>1, <2>2
  <2>5. row'[r] = x
    BY <1>5, <2>4, RowFields
  <2>6. RowEvolves(r)
    BY <1>1, <1>5, <2>3, <2>5 DEF RowEvolves, KeepsItsCopy, Exists
  <2>7. /\ row' \in [RunIds -> Row] /\ Evolves
        /\ \A q \in RunIds \ {r} : row'[q] = row[q] /\ RowIsSound(q)'
    BY <1>1, <2>3, <2>4, <2>6, OneRow
  <2>8. RowIsSound(r)'
    <3>1. KeepsItsCopy(r)' => KeepsItsCopy(r)
      BY <1>1, <1>5, <2>3, <2>5 DEF KeepsItsCopy, Exists
    <3>2. QED
      BY <1>1, <1>5, <2>1, <2>3, <2>5, <3>1 DEF RowIsSound, IsReal, Exists
  <2>9. worker' \in WorkerType
    BY <1>5, <1>8 DEF WorkerType, WorkerSteps
  <2>10. /\ worker'.step = "upload" /\ worker'.run = r /\ worker'.file = worker.file
         /\ worker'.hash = worker.hash /\ worker'.had = worker.had
    BY <1>4, <1>5, <1>8 DEF WorkerType
  <2>11. WorkerIsSound'
    BY <1>1, <1>5, <2>3, <2>5, <2>10 DEF WorkerIsSound, WorkerKnows
  <2>12. PICK z : z = [step |-> "find", run |-> r, file |-> worker.file,
                       drive |-> "pending", had |-> worker.had, got |-> NoCopy]
    OBVIOUS
  <2>13. z \in Upload
    BY <1>5, <2>12, WorkerFields, Constants DEF Upload, DriveStatus, RunIds
  <2>14. /\ upload' \in [Uploaders -> Upload] /\ upload'["worker"] = z
         /\ \A v \in Uploaders \ {"worker"} : upload'[v] = upload[v]
    BY <1>5, <1>8, <2>12, <2>13, UploadFields DEF Uploaders
  <2>15. UploadIsSound("worker")'
    <3>1. KeepsItsCopy(r)' /\ worker.had # NoCopy => row'[r].copy # NoCopy
      BY <1>1, <1>5, <2>3, <2>5 DEF WorkerKnows, KeepsItsCopy
    <3>2. z.had = worker.had /\ z.run = r /\ z.step = "find" /\ z.file = worker.file
      BY <2>12
    <3>3. QED
      BY <1>5, <2>3, <2>5, <2>10, <2>14, <3>1, <3>2
      DEF UploadIsSound, KeepsItsCopy, Exists
  <2>16. \A v \in Uploaders \ {"worker"} : UploadIsSound(v)'
    BY <1>1, <1>2, <2>7, <2>14, OtherUploads DEF Uploaders
  <2>17. TypeInvariant'
    BY <1>1, <1>2, <1>5, <2>7, <2>9, <2>14 DEF TypeInvariant, WorkerType
  <2>18. QED
    BY <1>1, <1>2, <2>7, <2>8, <2>11, <2>15, <2>16, <2>17,
       RemotesKept, DoomedKept, BatchKept DEF ArchiveInvariant
<1>9. QED
  BY <1>4, <1>7, <1>8 DEF BeginUpload, Goto

(* The worker loses its run and its upload, whatever else happens to the   *)
(* remote storage.                                                         *)
LEMMA RunVanishedStep ==
  ASSUME ArchiveInvariant, RunVanished
  PROVE  ArchiveInvariant'
<1>1. /\ worker' = IdleWorker /\ upload' = [upload EXCEPT !["worker"] = NoUpload]
      /\ UNCHANGED <<backend, row, disk, remote, apiVars, events, forgotten>>
  BY DEF RunVanished
<1>2. UNCHANGED <<batch, apiLock, doomed>>
  BY <1>1 DEF apiVars
<1>3. TypeInvariant /\ \A q \in RunIds : RowIsSound(q)
  BY DEF ArchiveInvariant
<1>4. Evolves
  BY <1>1, EvolvesKept
<1>5. worker' \in WorkerType /\ WorkerIsSound'
  BY <1>1, WorkerIdles
<1>6. /\ upload' \in [Uploaders -> Upload] /\ upload'["worker"] = NoUpload
      /\ \A v \in Uploaders \ {"worker"} : upload'[v] = upload[v]
  BY <1>1, <1>3, UploadFields, NoThings DEF Uploaders
<1>7. UploadIsSound("worker")'
  BY <1>6, NoThings DEF UploadIsSound
<1>8. \A v \in Uploaders \ {"worker"} : UploadIsSound(v)'
  BY <1>1, <1>2, <1>4, <1>6, OtherUploads DEF Uploaders
<1>9. ASSUME NEW q \in RunIds
      PROVE  RowIsSound(q)'
  BY <1>1, <1>3, <1>4, RowKept DEF RowIsSound, Evolves
<1>10. TypeInvariant'
  BY <1>1, <1>2, <1>3, <1>5, <1>6 DEF TypeInvariant, WorkerType
<1>11. QED
  BY <1>1, <1>2, <1>4, <1>5, <1>7, <1>8, <1>9, <1>10,
     RemotesKept, DoomedKept, BatchKept DEF ArchiveInvariant

-----------------------------------------------------------------------------
(* The steps of the uploads.                                               *)

(* A sequence of different processes has room for one that is not in it.   *)
LEMMA RoomForProcess ==
  ASSUME NEW s \in SeqOf(Processes, 2), NEW p \in Processes,
         \A i \in DOMAIN s : s[i] # p,
         \A i, j \in DOMAIN s : i # j => s[i] # s[j],
         NEW t, t = Append(s, p) \/ (Len(s) <= 1 /\ t = <<p>>)
  PROVE  /\ t \in SeqOf(Processes, 2) /\ DOMAIN s \subseteq DOMAIN t
         /\ Len(t) \in 1..2 /\ Len(t) \in DOMAIN t
         /\ \A i, j \in DOMAIN t : i # j => t[i] # t[j]
         /\ \A i \in DOMAIN t : t[i] # p => i \in DOMAIN s /\ t[i] = s[i]
<1>1. s \in Seq(Processes) /\ Len(s) \in Nat /\ Len(s) <= 2 /\ DOMAIN s = 1..Len(s)
  BY CopiesOf
<1>2. \A i \in 1..Len(s) : s[i] \in Processes
  BY <1>1, ElementOfSeq
<1>3. Len(s) <= 1
  <2> SUFFICES ASSUME Len(s) = 2
               PROVE  FALSE
    BY <1>1
  <2>1. s[1] # s[2] /\ s[1] # p /\ s[2] # p /\ s[1] \in Processes /\ s[2] \in Processes
    BY <1>1, <1>2
  <2>2. QED
    BY <2>1 DEF Processes
<1>4. CASE t = <<p>>
  <2>1. t \in Seq(Processes) /\ Len(t) = 1 /\ DOMAIN t = 1..1 /\ t[1] = p
    BY <1>4
  <2>2. t \in SeqOf(Processes, 2)
    <3>1. t \in Seq(Processes) /\ Len(t) <= 2
      BY <2>1
    <3>2. QED
      BY <3>1, CopiesOf, Zenon
  <2>3. DOMAIN s \subseteq DOMAIN t
    BY <1>1, <1>3, <2>1
  <2>4. \A i \in DOMAIN t : i = 1
    BY <2>1
  <2>5. Len(t) \in 1..2 /\ Len(t) \in DOMAIN t
    BY <2>1
  <2>6. QED
    BY <2>1, <2>2, <2>3, <2>4, <2>5
<1>5. CASE t = Append(s, p)
  <2>1. /\ t \in Seq(Processes) /\ Len(t) = Len(s) + 1 /\ DOMAIN t = 1..Len(t)
        /\ \A i \in 1..Len(s) : t[i] = s[i]
        /\ t[Len(s) + 1] = p
    BY <1>1, <1>5, AppendProperties
  <2>2. t \in SeqOf(Processes, 2)
    BY <1>3, <2>1, CopiesOf
  <2>3. DOMAIN s \subseteq DOMAIN t /\ Len(t) \in 1..2 /\ Len(t) \in DOMAIN t
    BY <1>1, <1>3, <2>1
  <2>4. \A i \in DOMAIN t : i \in DOMAIN s \/ i = Len(s) + 1
    BY <1>1, <2>1
  <2>5. \A i \in DOMAIN t : t[i] # p => i \in DOMAIN s /\ t[i] = s[i]
    BY <1>1, <2>1, <2>4
  <2>6. \A i, j \in DOMAIN t : i # j => t[i] # t[j]
    BY <1>1, <2>1, <2>4
  <2>7. QED
    BY <2>2, <2>3, <2>5, <2>6
<1>6. QED
  BY <1>3, <1>4, <1>5

LEMMA CreatedIs ==
  ASSUME ArchiveInvariant, NEW u \in Uploaders, upload[u].step = "create",
         NEW new, new = Created(u), NEW f, f = upload[u].file
  PROVE  /\ f \in Files /\ new \in [Files -> SeqOf(Processes, 2)]
         /\ \A g \in Files \ {f} : new[g] = remote[g]
         /\ \A g \in Files : DOMAIN remote[g] \subseteq DOMAIN new[g]
         /\ Len(new[f]) \in 1..2 /\ Len(new[f]) \in DOMAIN new[f]
         /\ \A i, j \in DOMAIN new[f] : i # j => new[f][i] # new[f][j]
         /\ backend = "s3" => Len(new[f]) <= 1
         /\ \A i \in DOMAIN new[f] : new[f][i] # ProcessOf(u) =>
              i \in DOMAIN remote[f] /\ new[f][i] = remote[f][i]
<1>1. /\ remote \in [Files -> SeqOf(Processes, 2)] /\ UploadIsSound(u)
      /\ \A g \in Files : RemoteIsSound(g)
  BY DEF ArchiveInvariant, TypeInvariant, Processes
<1>2. f \in Files /\ \A i \in DOMAIN remote[f] : remote[f][i] # ProcessOf(u)
  BY <1>1 DEF UploadIsSound
<1>3. PICK s \in SeqOf(Processes, 2) : s = remote[f]
  BY <1>1, <1>2
<1>4. PICK p \in Processes : p = ProcessOf(u)
  BY CopiesOf
<1>5. PICK t : t = IF backend = "s3" THEN <<p>> ELSE Append(s, p)
  OBVIOUS
<1>6. /\ \A i, j \in DOMAIN s : i # j => s[i] # s[j]
      /\ backend = "s3" => Len(s) <= 1
  BY <1>1, <1>2, <1>3 DEF RemoteIsSound
<1>7. /\ t \in SeqOf(Processes, 2) /\ DOMAIN s \subseteq DOMAIN t
      /\ Len(t) \in 1..2 /\ Len(t) \in DOMAIN t
      /\ \A i, j \in DOMAIN t : i # j => t[i] # t[j]
      /\ \A i \in DOMAIN t : t[i] # p => i \in DOMAIN s /\ t[i] = s[i]
  <2>1. \A i \in DOMAIN s : s[i] # p
    BY <1>2, <1>3, <1>4
  <2>2. t = Append(s, p) \/ (Len(s) <= 1 /\ t = <<p>>)
    BY <1>5, <1>6
  <2>3. QED
    BY <1>6, <2>1, <2>2, RoomForProcess
<1>8. new = [remote EXCEPT ![f] = t]
  BY <1>3, <1>4, <1>5 DEF Created
<1>9. /\ new \in [Files -> SeqOf(Processes, 2)] /\ new[f] = t
      /\ \A g \in Files \ {f} : new[g] = remote[g]
  BY <1>1, <1>2, <1>7, <1>8
<1>10. backend = "s3" => Len(t) <= 1
  BY <1>5
<1>11. QED
  BY <1>2, <1>3, <1>4, <1>7, <1>9, <1>10

(* Who may call the storage takes the lock from nobody.                    *)
LEMMA LockKept ==
  ASSUME ArchiveInvariant, NEW u \in Uploaders, NEW v \in Uploaders \ {u},
         MayCall(u), upload[v].step = "create", ProcessOf(v) = "api",
         \/ apiLock' \in {apiLock, Release(u)}
         \/ ProcessOf(u) = "api" /\ apiLock' = u
  PROVE  apiLock' = v
<1>1. apiLock = v
  BY DEF ArchiveInvariant, UploadIsSound
<1>2. ProcessOf(u) = "worker"
  BY <1>1 DEF MayCall, ProcessOf, Uploaders
<1>3. QED
  BY <1>1, <1>2 DEF Release

LEMMA CreatorMayCall ==
  ASSUME ArchiveInvariant, NEW u \in Uploaders, upload[u].step = "create"
  PROVE  MayCall(u)
BY CopiesOf DEF ArchiveInvariant, UploadIsSound, MayCall, Processes

(* A copy being created is sought by nobody of the same process.           *)
LEMMA CreatedLeaves ==
  ASSUME ArchiveInvariant, NEW u \in Uploaders, NEW v \in Uploaders \ {u},
         upload[u].step = "create", upload[v].step = "create",
         remote' = Created(u)
  PROVE  \A i \in DOMAIN remote'[upload[v].file] :
           remote'[upload[v].file][i] # ProcessOf(v)
<1>1. ProcessOf(u) # ProcessOf(v)
  BY DEF ArchiveInvariant, UploadIsSound, ProcessOf, Uploaders
<1>2. PICK f \in Files : f = upload[u].file
  BY DEF ArchiveInvariant, UploadIsSound
<1>3. PICK g \in Files : g = upload[v].file /\ \A i \in DOMAIN remote[g] : remote[g][i] # ProcessOf(v)
  BY DEF ArchiveInvariant, UploadIsSound
<1>4. PICK new : new = Created(u) /\ new = remote'
  OBVIOUS
<1>5. /\ \A h \in Files \ {f} : new[h] = remote[h]
      /\ \A i \in DOMAIN new[f] : new[f][i] # ProcessOf(u) =>
              i \in DOMAIN remote[f] /\ new[f][i] = remote[f][i]
  BY <1>2, <1>4, CreatedIs
<1>6. \A i \in DOMAIN new[g] : new[g][i] # ProcessOf(v)
  BY <1>1, <1>2, <1>3, <1>5
<1>7. QED
  BY <1>3, <1>4, <1>6

LEMMA FindRemoteStep ==
  ASSUME ArchiveInvariant, NEW u \in Uploaders, FindRemote(u)
  PROVE  ArchiveInvariant'
<1>1. /\ upload[u].step = "find" /\ MayCall(u)
      /\ UNCHANGED <<backend, row, disk, remote, worker, batch, doomed, events, forgotten>>
  BY DEF FindRemote
<1>2. /\ TypeInvariant /\ UploadIsSound(u) /\ WorkerIsSound
      /\ \A q \in RunIds : RowIsSound(q)
  BY DEF ArchiveInvariant
<1>3. PICK f \in Files : f = upload[u].file
  BY <1>1, <1>2 DEF UploadIsSound
<1>4. PICK x : /\ upload' = [upload EXCEPT ![u] = x]
               /\ \/ x = [upload[u] EXCEPT !.step = "failed"] /\ apiLock' = apiLock
                  \/ /\ x = [upload[u] EXCEPT !.step = "sent", !.got = f \o <<1>>]
                     /\ remote[f] # <<>> /\ apiLock' = apiLock
                  \/ /\ x = [upload[u] EXCEPT !.step = "create"]
                     /\ remote[f] = <<>>
                     /\ apiLock' = IF ProcessOf(u) = "api" THEN u ELSE apiLock
  <2>1. CASE f \notin disk
    BY <1>3, <2>1 DEF FindRemote, UploadStep
  <2>2. CASE f \in disk /\ remote[f] # <<>>
    BY <1>3, <2>2 DEF FindRemote
  <2>3. CASE f \in disk /\ remote[f] = <<>>
    BY <1>3, <2>3 DEF FindRemote, UploadStep
  <2>4. QED
    BY <2>1, <2>2, <2>3
<1>5. /\ x \in Upload /\ x.run = upload[u].run /\ x.file = f
      /\ x.had = upload[u].had
  <2>1. upload[u] \in Upload
    BY <1>2, UploadFields
  <2>2. f \o <<1>> \in Copies
    BY CopyFields
  <2>3. QED
    BY <1>3, <1>4, <2>1, <2>2 DEF Upload
<1>6. /\ upload' \in [Uploaders -> Upload] /\ upload'[u] = x
      /\ \A v \in Uploaders \ {u} : upload'[v] = upload[v]
  BY <1>2, <1>4, <1>5, UploadFields
<1>7. x.step = "create" =>
        /\ DOMAIN remote[f] = {}
        /\ ProcessOf(u) = "api" => apiLock' = u
  <2>1. upload[u] \in Upload
    BY <1>2, UploadFields
  <2>2. x.step = "create" =>
          /\ remote[f] = <<>>
          /\ apiLock' = IF ProcessOf(u) = "api" THEN u ELSE apiLock
    BY <1>4, <2>1 DEF Upload
  <2>3. DOMAIN << >> = {}
    OBVIOUS
  <2>4. QED
    BY <2>2, <2>3
<1>8. x.step = "sent" => x.got \in Copies /\ x.got[3] \in DOMAIN remote[SubSeq(x.got, 1, 2)]
  <2> SUFFICES ASSUME x.step = "sent"
               PROVE  x.got \in Copies /\ x.got[3] \in DOMAIN remote[SubSeq(x.got, 1, 2)]
    OBVIOUS
  <2>1. upload[u] \in Upload
    BY <1>2, UploadFields
  <2>2. x.got = f \o <<1>> /\ remote[f] # <<>>
    BY <1>4, <2>1 DEF Upload
  <2>3. x.got \in Copies /\ x.got[3] = 1 /\ SubSeq(x.got, 1, 2) = f
    BY <2>2, CopyFields
  <2>4. 1 \in DOMAIN remote[f]
    <3>1. remote[f] \in Seq(Processes)
      BY <1>2, CopiesOf DEF TypeInvariant, Processes
    <3>2. QED
      BY <2>2, <3>1, EmptySeq
  <2>5. QED
    BY <2>3, <2>4
<1>9. Evolves
  BY <1>1, EvolvesKept
<1>10. UploadIsSound(u)'
  BY <1>1, <1>2, <1>3, <1>5, <1>6, <1>7, <1>8
  DEF UploadIsSound, IsReal, KeepsItsCopy, Exists
<1>11. ASSUME NEW v \in Uploaders \ {u}
       PROVE  UploadIsSound(v)'
  <2>1. UploadIsSound(v)
    BY DEF ArchiveInvariant
  <2>2. upload[v].step = "create" =>
          /\ \A i \in DOMAIN remote'[upload[v].file] :
               remote'[upload[v].file][i] # ProcessOf(v)
          /\ ProcessOf(v) = "api" => apiLock' = v
    BY <1>1, <1>4, <2>1, LockKept DEF UploadIsSound
  <2>3. v = "worker" /\ upload[v].step # "none" =>
          worker'.step = "upload" /\ worker'.run = worker.run
    BY <1>1, <2>1 DEF UploadIsSound
  <2>4. QED
    BY <1>2, <1>6, <1>9, <2>1, <2>2, <2>3, UploadKept
<1>12. WorkerIsSound' /\ \A q \in RunIds : RowIsSound(q)'
  BY <1>1, <1>2 DEF WorkerIsSound, WorkerKnows, RowIsSound, KeepsItsCopy, Exists, IsReal
<1>13. TypeInvariant'
  <2>1. apiLock' \in {"free", "retry", "manual"}
    BY <1>2, <1>4 DEF TypeInvariant, ProcessOf, Uploaders
  <2>2. QED
    BY <1>1, <1>2, <1>6, <2>1 DEF TypeInvariant
<1>14. QED
  BY <1>1, <1>9, <1>10, <1>11, <1>12, <1>13, RemotesKept, DoomedKept, BatchKept
  DEF ArchiveInvariant

LEMMA RemoteCreated ==
  ASSUME ArchiveInvariant, NEW u \in Uploaders, upload[u].step = "create",
         remote' = Created(u), backend' = backend
  PROVE  /\ remote' \in [Files -> SeqOf({"worker", "api"}, 2)] /\ RemoteGrows
         /\ \A f \in Files : RemoteIsSound(f)'
<1>1. PICK f : f = upload[u].file
  OBVIOUS
<1>2. PICK new : new = Created(u) /\ new = remote'
  OBVIOUS
<1>3. /\ f \in Files /\ new \in [Files -> SeqOf(Processes, 2)]
      /\ \A g \in Files \ {f} : new[g] = remote[g]
      /\ \A g \in Files : DOMAIN remote[g] \subseteq DOMAIN new[g]
      /\ \A i, j \in DOMAIN new[f] : i # j => new[f][i] # new[f][j]
      /\ backend = "s3" => Len(new[f]) <= 1
  BY <1>1, <1>2, CreatedIs
<1>4. ASSUME NEW g \in Files
      PROVE  /\ \A i, j \in DOMAIN new[g] : i # j => new[g][i] # new[g][j]
             /\ backend = "s3" => Len(new[g]) <= 1
  <2>1. CASE g = f
    BY <1>3, <2>1
  <2>2. CASE g # f
    BY <1>3, <2>2 DEF ArchiveInvariant, RemoteIsSound
  <2>3. QED
    BY <2>1, <2>2
<1>5. QED
  BY <1>2, <1>3, <1>4 DEF RemoteGrows, RemoteIsSound, Processes

(* An upload moves and gives the lock back, with or without a copy made.   *)
LEMMA UploadMoves ==
  ASSUME ArchiveInvariant, NEW u \in Uploaders, MayCall(u),
         upload' \in [Uploaders -> Upload],
         \A v \in Uploaders \ {u} : upload'[v] = upload[v],
         remote' = remote \/ (upload[u].step = "create" /\ remote' = Created(u)),
         apiLock' = Release(u), u = "worker" \/ worker' = worker,
         UNCHANGED <<backend, row, disk, batch, doomed, forgotten>>,
         events' \in 0..MaxEvents, worker' \in WorkerType, WorkerIsSound',
         Evolves => UploadIsSound(u)'
  PROVE  ArchiveInvariant'
<1>1. TypeInvariant /\ \A q \in RunIds : RowIsSound(q)
  BY DEF ArchiveInvariant
<1>2. /\ remote' \in [Files -> SeqOf({"worker", "api"}, 2)] /\ RemoteGrows
      /\ \A f \in Files : RemoteIsSound(f)'
  <2>1. CASE remote' = remote
    BY <1>1, <2>1, RemoteKept, RemotesKept DEF TypeInvariant
  <2>2. CASE upload[u].step = "create" /\ remote' = Created(u)
    BY <2>2, RemoteCreated
  <2>3. QED
    BY <2>1, <2>2
<1>3. Evolves
  BY <1>2, RowEvolvesKept DEF Evolves
<1>4. ASSUME NEW v \in Uploaders \ {u}
      PROVE  UploadIsSound(v)'
  <2>1. UploadIsSound(v)
    BY DEF ArchiveInvariant
  <2>2. upload[v].step = "create" => \A i \in DOMAIN remote'[upload[v].file] :
                                       remote'[upload[v].file][i] # ProcessOf(v)
    <3>1. CASE remote' = remote
      BY <2>1, <3>1 DEF UploadIsSound
    <3>2. CASE upload[u].step = "create" /\ remote' = Created(u)
      BY <3>2, CreatedLeaves
    <3>3. QED
      BY <3>1, <3>2
  <2>3. upload[v].step = "create" /\ ProcessOf(v) = "api" => apiLock' = v
    BY LockKept
  <2>4. v = "worker" /\ upload[v].step # "none" =>
          worker'.step = "upload" /\ worker'.run = worker.run
    BY <2>1 DEF UploadIsSound
  <2>5. QED
    BY <1>1, <1>3, <2>1, <2>2, <2>3, <2>4, UploadKept
<1>5. ASSUME NEW q \in RunIds
      PROVE  RowIsSound(q)'
  BY <1>1, <1>2, RowKept DEF RowIsSound
<1>6. TypeInvariant'
  <2>1. apiLock' \in {"free", "retry", "manual"}
    BY <1>1 DEF TypeInvariant, Release
  <2>2. QED
    BY <1>1, <1>2, <2>1 DEF TypeInvariant, WorkerType
<1>7. QED
  BY <1>2, <1>3, <1>4, <1>5, <1>6, DoomedKept, BatchKept DEF ArchiveInvariant

LEMMA WorkerUntouched ==
  ASSUME ArchiveInvariant, UNCHANGED <<row, disk, worker, forgotten>>
  PROVE  worker' \in WorkerType /\ WorkerIsSound'
<1>1. TypeInvariant /\ WorkerIsSound
  BY DEF ArchiveInvariant
<1>2. QED
  BY <1>1 DEF TypeInvariant, WorkerType, WorkerIsSound, WorkerKnows, Exists

LEMMA CreateRemoteStep ==
  ASSUME ArchiveInvariant, NEW u \in Uploaders, CreateRemote(u)
  PROVE  ArchiveInvariant'
<1>1. /\ upload[u].step = "create" /\ remote' = Created(u) /\ apiLock' = Release(u)
      /\ upload' = [upload EXCEPT ![u].step = "sent",
                      ![u].got = upload[u].file \o <<Len(remote'[upload[u].file])>>]
      /\ UNCHANGED <<backend, row, disk, worker, batch, doomed, events, forgotten>>
  BY DEF CreateRemote
<1>2. TypeInvariant /\ UploadIsSound(u)
  BY DEF ArchiveInvariant
<1>3. upload \in [Uploaders -> Upload] /\ upload[u] \in Upload
  BY <1>2, UploadFields
<1>4. PICK f \in Files : f = upload[u].file
  BY <1>1, <1>2 DEF UploadIsSound
<1>5. PICK new : new = Created(u) /\ new = remote'
  BY <1>1
<1>6. PICK n \in 1..2 : n = Len(new[f]) /\ n \in DOMAIN new[f]
  BY <1>1, <1>4, <1>5, CreatedIs
<1>7. PICK c : c = f \o <<n>>
  OBVIOUS
<1>8. c \in Copies /\ c[3] \in DOMAIN remote'[SubSeq(c, 1, 2)]
  BY <1>5, <1>6, <1>7, CopyFields
<1>9. PICK x : x = [upload[u] EXCEPT !.step = "sent", !.got = c]
  OBVIOUS
<1>10. /\ x \in Upload /\ x.step = "sent" /\ x.run = upload[u].run /\ x.file = f
       /\ x.had = upload[u].had /\ x.got = c
  BY <1>3, <1>4, <1>8, <1>9 DEF Upload
<1>11. upload' = [upload EXCEPT ![u] = x]
  BY <1>1, <1>3, <1>4, <1>5, <1>6, <1>7, <1>9
<1>12. /\ upload' \in [Uploaders -> Upload] /\ upload'[u] = x
       /\ \A v \in Uploaders \ {u} : upload'[v] = upload[v]
  BY <1>3, <1>10, <1>11
<1>13. UploadIsSound(u)'
  <2>1. PICK r \in RunIds : /\ r = upload[u].run /\ row'[r].status # "absent"
                            /\ KeepsItsCopy(r)' /\ x.had # NoCopy => row'[r].copy # NoCopy
    BY <1>1, <1>2, <1>10 DEF UploadIsSound, KeepsItsCopy, Exists
  <2>2. u = "worker" => worker'.step = "upload" /\ x.run = worker'.run
    BY <1>1, <1>2, <1>10 DEF UploadIsSound
  <2>3. QED
    BY <1>8, <1>10, <1>12, <2>1, <2>2 DEF UploadIsSound, IsReal, KeepsItsCopy, Exists
<1>14. MayCall(u) /\ events' \in 0..MaxEvents
  BY <1>1, <1>2, CreatorMayCall DEF TypeInvariant
<1>15. worker' \in WorkerType /\ WorkerIsSound'
  BY <1>1, WorkerUntouched
<1>16. QED
  BY <1>1, <1>12, <1>13, <1>14, <1>15, UploadMoves

LEMMA UploadFailsStep ==
  ASSUME ArchiveInvariant, NEW u \in Uploaders, UploadFails(u)
  PROVE  ArchiveInvariant'
<1>1. /\ upload[u].step \in {"find", "create"} /\ MayCall(u) /\ Event
      /\ UploadStep(u, "failed") /\ apiLock' = Release(u)
      /\ UNCHANGED remote \/ (upload[u].step = "create" /\ remote' = Created(u))
      /\ UNCHANGED <<backend, row, disk, worker, batch, doomed, forgotten>>
  BY DEF UploadFails
<1>2. TypeInvariant /\ UploadIsSound(u)
  BY DEF ArchiveInvariant
<1>3. upload \in [Uploaders -> Upload] /\ upload[u] \in Upload
  BY <1>2, UploadFields
<1>4. PICK x : x = [upload[u] EXCEPT !.step = "failed"]
  OBVIOUS
<1>5. /\ x \in Upload /\ x.step = "failed" /\ x.run = upload[u].run
      /\ x.file = upload[u].file /\ x.had = upload[u].had
  BY <1>3, <1>4 DEF Upload
<1>6. upload' = [upload EXCEPT ![u] = x]
  BY <1>1, <1>4 DEF UploadStep
<1>7. /\ upload' \in [Uploaders -> Upload] /\ upload'[u] = x
      /\ \A v \in Uploaders \ {u} : upload'[v] = upload[v]
  BY <1>3, <1>5, <1>6
<1>8. UploadIsSound(u)'
  BY <1>1, <1>2, <1>5, <1>7 DEF UploadIsSound, KeepsItsCopy, Exists
<1>9. events' \in 0..MaxEvents
  BY <1>1, <1>2, EventBounded
<1>10. worker' \in WorkerType /\ WorkerIsSound'
  BY <1>1, WorkerUntouched
<1>11. QED
  BY <1>1, <1>7, <1>8, <1>9, <1>10, UploadMoves

(* The process of the worker dies; the request it was making may be        *)
(* carried out all the same.                                               *)
LEMMA WorkerCrashStep ==
  ASSUME ArchiveInvariant, WorkerCrash
  PROVE  ArchiveInvariant'
<1>1. /\ Event /\ worker' = IdleWorker
      /\ upload' = [upload EXCEPT !["worker"] = NoUpload]
      /\ remote' \in {remote} \cup InFlight("worker")
      /\ UNCHANGED <<backend, row, disk, apiVars, forgotten>>
  BY DEF WorkerCrash
<1>2. UNCHANGED <<batch, apiLock, doomed>>
  BY <1>1 DEF apiVars
<1>3. TypeInvariant
  BY DEF ArchiveInvariant
<1>4. remote' = remote \/ (upload["worker"].step = "create" /\ remote' = Created("worker"))
  BY <1>1 DEF InFlight, ProcessOf, Uploaders
<1>5. /\ upload' \in [Uploaders -> Upload] /\ upload'["worker"] = NoUpload
      /\ \A v \in Uploaders \ {"worker"} : upload'[v] = upload[v]
  BY <1>1, <1>3, UploadFields, NoThings DEF Uploaders
<1>6. UploadIsSound("worker")'
  BY <1>5, NoThings DEF UploadIsSound
<1>7. apiLock' = Release("worker") /\ MayCall("worker")
  BY <1>2, <1>3 DEF TypeInvariant, Release, MayCall, ProcessOf
<1>8. worker' \in WorkerType /\ WorkerIsSound' /\ events' \in 0..MaxEvents
  BY <1>1, <1>3, WorkerIdles, EventBounded
<1>9. QED
  BY <1>1, <1>2, <1>4, <1>5, <1>6, <1>7, <1>8, UploadMoves DEF Uploaders

LEMMA ApiCrashStep ==
  ASSUME ArchiveInvariant, ApiCrash
  PROVE  ArchiveInvariant'
<1>1. /\ Event /\ doomed' = {} /\ batch' = << >> /\ apiLock' = "free"
      /\ upload' = [upload EXCEPT !["retry"] = NoUpload, !["manual"] = NoUpload]
      /\ remote' \in {remote} \cup InFlight("api")
      /\ UNCHANGED <<backend, row, disk, worker, forgotten>>
  BY DEF ApiCrash
<1>2. /\ TypeInvariant /\ UploadIsSound("worker")
      /\ \A q \in RunIds : RowIsSound(q)
  BY DEF ArchiveInvariant, Uploaders
<1>3. /\ remote' = remote
      \/ \E u \in {"retry", "manual"} : upload[u].step = "create" /\ remote' = Created(u)
  BY <1>1 DEF InFlight, ProcessOf, Uploaders
<1>4. /\ remote' \in [Files -> SeqOf({"worker", "api"}, 2)] /\ RemoteGrows
      /\ \A f \in Files : RemoteIsSound(f)'
  <2>1. CASE remote' = remote
    BY <1>1, <1>2, <2>1, RemoteKept, RemotesKept DEF TypeInvariant
  <2>2. ASSUME NEW u \in {"retry", "manual"}, upload[u].step = "create",
               remote' = Created(u)
        PROVE  /\ remote' \in [Files -> SeqOf({"worker", "api"}, 2)] /\ RemoteGrows
               /\ \A f \in Files : RemoteIsSound(f)'
    <3>1. u \in Uploaders /\ backend' = backend
      BY <1>1 DEF Uploaders
    <3>2. QED
      BY <2>2, <3>1, RemoteCreated
  <2>3. QED
    BY <1>3, <2>1, <2>2
<1>5. upload["worker"].step = "create" =>
         \A i \in DOMAIN remote'[upload["worker"].file] :
           remote'[upload["worker"].file][i] # ProcessOf("worker")
  <2>1. CASE remote' = remote
    BY <1>2, <2>1 DEF UploadIsSound
  <2>2. ASSUME NEW u \in {"retry", "manual"}, upload[u].step = "create",
               remote' = Created(u), upload["worker"].step = "create"
        PROVE  \A i \in DOMAIN remote'[upload["worker"].file] :
                 remote'[upload["worker"].file][i] # ProcessOf("worker")
    <3>1. u \in Uploaders /\ "worker" \in Uploaders \ {u}
      BY DEF Uploaders
    <3>2. QED
      BY <2>2, <3>1, CreatedLeaves
  <2>3. QED
    BY <1>3, <2>1, <2>2
<1>6. Evolves
  BY <1>1, <1>4, RowEvolvesKept DEF Evolves
<1>7. /\ upload' \in [Uploaders -> Upload]
      /\ upload'["worker"] = upload["worker"]
      /\ \A u \in Uploaders \ {"worker"} : upload'[u] = NoUpload
  BY <1>1, <1>2, UploadFields, NoThings DEF Uploaders
<1>8. ASSUME NEW u \in Uploaders
      PROVE  UploadIsSound(u)'
  <2>1. CASE u = "worker"
    <3>1. u = "worker" /\ upload[u].step # "none" =>
            worker'.step = "upload" /\ worker'.run = worker.run
      BY <1>1, <1>2 DEF UploadIsSound
    <3>2. ProcessOf(u) # "api"
      BY <2>1 DEF ProcessOf
    <3>3. QED
      BY <1>2, <1>6, <1>7, <1>5, <2>1, <3>1, <3>2, UploadKept
  <2>2. CASE u # "worker"
    BY <1>7, <2>2, NoThings DEF UploadIsSound
  <2>3. QED
    BY <2>1, <2>2
<1>9. ASSUME NEW q \in RunIds
      PROVE  RowIsSound(q)'
  BY <1>1, <1>2, <1>4, RowKept DEF RowIsSound
<1>10. WorkerIsSound' /\ events' \in 0..MaxEvents
  BY <1>1, <1>2, WorkerUntouched, EventBounded
<1>11. TypeInvariant'
  <2>1. batch' \in Seq([run : RunIds, file : Files, drive : DriveStatus])
    BY <1>1
  <2>2. QED
    BY <1>1, <1>2, <1>4, <1>7, <1>10, <2>1 DEF TypeInvariant
<1>12. (\A f \in doomed : row[f[1]].status = "deleted")'
       /\ (\A i \in DOMAIN batch : row[batch[i].run].status # "absent")'
  BY <1>1
<1>13. QED
  BY <1>4, <1>8, <1>9, <1>10, <1>11, <1>12 DEF ArchiveInvariant

(* What an upload brings to the row of its run.                            *)
LEMMA RecordUploadStep ==
  ASSUME ArchiveInvariant, NEW u \in Uploaders, RecordUpload(u)
  PROVE  ArchiveInvariant'
<1> DEFINE up == upload[u]
<1>1. /\ up.step \in {"sent", "failed"} /\ Exists(up.run)
      /\ row' = [row EXCEPT ![up.run] = Recorded(row[up.run], up)]
      /\ upload' = [upload EXCEPT ![u] = NoUpload]
      /\ worker' = [worker EXCEPT !.step = IF u = "worker" THEN "finish" ELSE @]
      /\ UNCHANGED <<backend, disk, remote, apiVars, events, forgotten>>
  BY DEF RecordUpload
<1>2. UNCHANGED <<batch, apiLock, doomed>>
  BY <1>1 DEF apiVars
<1>3. /\ TypeInvariant /\ UploadIsSound(u) /\ WorkerIsSound
      /\ \A q \in RunIds : RowIsSound(q)
  BY DEF ArchiveInvariant
<1>4. PICK r \in RunIds : r = up.run /\ Exists(r) /\ row[r].status # "absent"
  BY <1>1, <1>3 DEF UploadIsSound
<1>5. /\ up.step = "sent" => up.got \in Copies /\ IsReal(up.got)
      /\ KeepsItsCopy(r) /\ up.had # NoCopy => row[r].copy # NoCopy
      /\ u = "worker" => worker.step = "upload" /\ worker.run = r
  BY <1>1, <1>3, <1>4 DEF UploadIsSound
<1>6. /\ up.drive \in DriveStatus /\ up.had \in Copies \cup {NoCopy}
      /\ up.got \in Copies \cup {NoCopy} /\ upload \in [Uploaders -> Upload]
  BY <1>3, UploadFields
<1>7. /\ row[r] \in Row /\ row[r].drive \in DriveStatus
      /\ row[r].copy \in Copies \cup {NoCopy} /\ RowIsSound(r)
  BY <1>3, RowFields
<1>8. upload' \in [Uploaders -> Upload] /\ upload'[u] = NoUpload
      /\ \A v \in Uploaders \ {u} : upload'[v] = upload[v]
  BY <1>1, <1>6, NoThings
<1> HIDE DEF up
<1>9. PICK d, c :
        /\ d = IF up.step = "sent" THEN Flushed(up.drive, "uploaded", row[r].drive)
                                   ELSE Flushed(up.drive, "failed", row[r].drive)
        /\ c = IF up.step = "sent" THEN Flushed(up.had, up.got, row[r].copy)
                                   ELSE row[r].copy
  OBVIOUS
<1>10. /\ d \in DriveStatus /\ c \in Copies \cup {NoCopy}
       /\ c # NoCopy => IsReal(c)
       /\ row[r].copy # NoCopy => c # NoCopy
       /\ KeepsItsCopy(r) /\ d = "uploaded" => c # NoCopy
  <2>1. d \in DriveStatus /\ c \in Copies \cup {NoCopy}
    BY <1>6, <1>7, <1>9 DEF Flushed, DriveStatus
  <2>2. up.step = "sent" => up.got # NoCopy
    BY <1>5, CopiesAre
  <2>3. c # NoCopy => IsReal(c)
    BY <1>5, <1>7, <1>9 DEF Flushed, RowIsSound
  <2>4. row[r].copy # NoCopy => c # NoCopy
    BY <1>9, <2>2 DEF Flushed
  <2>5. KeepsItsCopy(r) /\ d = "uploaded" => c # NoCopy
    <3>1. CASE up.step = "sent"
      BY <1>5, <1>9, <2>2, <3>1 DEF Flushed
    <3>2. CASE up.step # "sent"
      BY <1>7, <1>9, <3>2 DEF Flushed, RowIsSound
    <3>3. QED
      BY <3>1, <3>2
  <2>6. QED
    BY <2>1, <2>3, <2>4, <2>5
<1>11. PICK x : x = [row[r] EXCEPT !.drive = d, !.copy = c]
  OBVIOUS
<1>12. /\ x \in Row /\ x.drive = d /\ x.copy = c /\ x.status = row[r].status
       /\ x.shot = row[r].shot /\ x.hash = row[r].hash
  BY <1>7, <1>10, <1>11 DEF Row
<1>13. row' = [row EXCEPT ![r] = x]
  <2>1. Recorded(row[r], up) = x
    <3>1. CASE up.step = "sent"
      BY <1>7, <1>9, <1>11, <3>1 DEF Row, Recorded
    <3>2. CASE up.step # "sent"
      BY <1>7, <1>9, <1>11, <3>2 DEF Row, Recorded
    <3>3. QED
      BY <3>1, <3>2
  <2>2. QED
    BY <1>1, <1>4, <2>1
<1>14. row'[r] = x
  BY <1>3, <1>13, RowFields
<1>15. KeepsItsCopy(r)' => KeepsItsCopy(r)
  BY <1>1, <1>12, <1>14 DEF KeepsItsCopy, Exists
<1>16. RowEvolves(r)
  BY <1>10, <1>12, <1>14, <1>15 DEF RowEvolves
<1>17. /\ row' \in [RunIds -> Row] /\ Evolves
       /\ \A q \in RunIds \ {r} : row'[q] = row[q] /\ RowIsSound(q)'
  BY <1>1, <1>12, <1>13, <1>16, OneRow
<1>18. RowIsSound(r)'
  <2>1. c # NoCopy => c[3] \in DOMAIN remote'[SubSeq(c, 1, 2)]
    BY <1>1, <1>10 DEF IsReal
  <2>2. Exists(r)'
    BY <1>4, <1>12, <1>14 DEF Exists
  <2>3. /\ x.shot # NoFile => x.shot[1] = r /\ x.shot \in disk' /\ x.hash # 0
        /\ x.status = "success" => x.shot # NoFile
    BY <1>1, <1>7, <1>12 DEF RowIsSound
  <2>4. KeepsItsCopy(r)' /\ x.drive = "uploaded" => x.copy # NoCopy
    BY <1>10, <1>12, <1>15
  <2>5. QED
    BY <1>12, <1>14, <2>1, <2>2, <2>3, <2>4 DEF RowIsSound, IsReal
<1>19. worker \in WorkerType
  BY <1>3 DEF TypeInvariant, WorkerType
<1>20. worker' \in WorkerType /\ WorkerIsSound'
  <2>1. CASE u = "worker"
    <3>1. worker' = [worker EXCEPT !.step = "finish"]
      BY <1>1, <2>1
    <3>2. /\ worker' \in WorkerType /\ worker'.step = "finish" /\ worker'.run = r
          /\ worker'.file = worker.file /\ worker'.hash = worker.hash
          /\ worker'.had = worker.had
      BY <1>5, <1>19, <2>1, <3>1 DEF WorkerType, WorkerSteps
    <3>3. /\ row[r].status \in {"running", "deleted"} /\ WorkerKnows(r)
          /\ worker.step = "upload" /\ worker.file \in Files /\ worker.file[1] = r
          /\ worker.hash \in Contents
      BY <1>3, <1>4, <1>5, <2>1 DEF WorkerIsSound
    <3>4. WorkerKnows(r)'
      BY <1>1, <1>10, <1>12, <1>14, <3>2, <3>3 DEF WorkerKnows
    <3>5. QED
      BY <1>12, <1>14, <3>2, <3>3, <3>4 DEF WorkerIsSound
  <2>2. CASE u # "worker"
    <3>1. worker' = worker
      BY <1>1, <1>19, <2>2 DEF WorkerType
    <3>2. worker.step # "idle" => worker.run \in RunIds
      BY <1>3 DEF WorkerIsSound
    <3>3. \A q \in RunIds : /\ row'[q].status = row[q].status
                            /\ row'[q].shot = row[q].shot /\ row'[q].hash = row[q].hash
      BY <1>12, <1>14, <1>17
    <3>4. disk' = disk
      BY <1>1
    <3>5. QED
      BY <1>3, <1>17, <1>19, <3>1, <3>2, <3>3, <3>4, WorkerKept
  <2>3. QED
    BY <2>1, <2>2
<1>21. UploadIsSound(u)'
  BY <1>8, NoThings DEF UploadIsSound
<1>22. ASSUME NEW v \in Uploaders \ {u}
       PROVE  UploadIsSound(v)'
  <2>1. u = "worker" \/ worker' = worker
    BY <1>1, <1>19 DEF WorkerType
  <2>2. QED
    BY <1>1, <1>2, <1>8, <1>17, <2>1, OtherUploads
<1>23. TypeInvariant'
  BY <1>1, <1>2, <1>3, <1>8, <1>17, <1>20 DEF TypeInvariant, WorkerType
<1>24. QED
  BY <1>1, <1>2, <1>17, <1>18, <1>20, <1>21, <1>22, <1>23,
     RemotesKept, DoomedKept, BatchKept DEF ArchiveInvariant

(* An upload of the API begins or ends, and no row moves.                  *)
LEMMA ApiUploadMoves ==
  ASSUME ArchiveInvariant, NEW u \in {"retry", "manual"},
         UNCHANGED <<backend, row, disk, remote, worker, apiLock, doomed, events, forgotten>>,
         upload' \in [Uploaders -> Upload],
         \A v \in Uploaders \ {u} : upload'[v] = upload[v],
         UploadIsSound(u)',
         batch' \in Seq([run : RunIds, file : Files, drive : DriveStatus]),
         (\A i \in DOMAIN batch : row[batch[i].run].status # "absent")'
  PROVE  ArchiveInvariant'
<1>1. TypeInvariant /\ \A q \in RunIds : RowIsSound(q)
  BY DEF ArchiveInvariant
<1>2. Evolves
  BY EvolvesKept
<1>3. \A v \in Uploaders \ {u} : UploadIsSound(v)'
  BY <1>2, OtherUploads DEF Uploaders
<1>4. ASSUME NEW q \in RunIds
      PROVE  RowIsSound(q)'
  BY <1>1, <1>2, RowKept DEF RowIsSound, Evolves
<1>5. worker' \in WorkerType /\ WorkerIsSound'
  BY WorkerUntouched
<1>6. TypeInvariant'
  BY <1>1, <1>5 DEF TypeInvariant, WorkerType
<1>7. QED
  BY <1>2, <1>3, <1>4, <1>5, <1>6, RemotesKept, DoomedKept DEF ArchiveInvariant

LEMMA UploadVanishedStep ==
  ASSUME ArchiveInvariant, NEW u \in Uploaders, UploadVanished(u)
  PROVE  ArchiveInvariant'
<1>1. /\ u # "worker" /\ upload' = [upload EXCEPT ![u] = NoUpload]
      /\ batch' = << >> \/ batch' = batch
      /\ UNCHANGED <<backend, row, disk, remote, worker, apiLock, doomed, events, forgotten>>
  BY DEF UploadVanished
<1>2. TypeInvariant
  BY DEF ArchiveInvariant
<1>3. /\ upload' \in [Uploaders -> Upload] /\ upload'[u] = NoUpload
      /\ \A v \in Uploaders \ {u} : upload'[v] = upload[v]
  BY <1>1, <1>2, UploadFields, NoThings
<1>4. UploadIsSound(u)'
  BY <1>3, NoThings DEF UploadIsSound
<1>5. batch' \in Seq([run : RunIds, file : Files, drive : DriveStatus])
  <2>1. CASE batch' = << >>
    BY <2>1
  <2>2. CASE batch' = batch
    BY <1>2, <2>2 DEF TypeInvariant
  <2>3. QED
    BY <1>1, <2>1, <2>2
<1>6. (\A i \in DOMAIN batch : row[batch[i].run].status # "absent")'
  BY <1>1 DEF ArchiveInvariant
<1>7. u \in {"retry", "manual"}
  BY <1>1 DEF Uploaders
<1>8. QED
  BY <1>1, <1>3, <1>4, <1>5, <1>6, <1>7, ApiUploadMoves

LEMMA SelectDueStep ==
  ASSUME ArchiveInvariant, SelectDue
  PROVE  ArchiveInvariant'
<1>1. PICK rs \in SetToSeqs(FirstDue) :
        batch' = [i \in DOMAIN rs |->
            [run |-> rs[i], file |-> row[rs[i]].shot, drive |-> row[rs[i]].drive]]
  BY DEF SelectDue
<1>2. UNCHANGED <<backend, row, disk, remote, worker, upload, apiLock, doomed,
                  events, forgotten>>
  BY DEF SelectDue
<1>3. TypeInvariant
  BY DEF ArchiveInvariant
<1>4. PICK n \in Nat : rs \in [1..n -> FirstDue]
  <2>1. FirstDue \in SUBSET RunIds
    BY DEF FirstDue, Due
  <2>2. Cardinality(FirstDue) \in Nat
    BY <2>1, Constants, FS_Subset, FS_CardinalityType
  <2>3. rs \in [1..Cardinality(FirstDue) -> FirstDue]
    BY DEF SetToSeqs
  <2>4. QED
    BY <2>2, <2>3
<1>5. ASSUME NEW i \in 1..n
      PROVE  /\ batch'[i] \in [run : RunIds, file : Files, drive : DriveStatus]
             /\ row'[batch'[i].run].status # "absent"
  <2>1. PICK r \in RunIds : r = rs[i] /\ row[r].shot # NoFile /\ row[r].status = "success"
    BY <1>4 DEF FirstDue, Due
  <2>2. i \in DOMAIN rs
    BY <1>4
  <2>3. batch'[i] = [run |-> r, file |-> row[r].shot, drive |-> row[r].drive]
    BY <1>1, <2>1, <2>2
  <2>4. row[r].shot \in Files /\ row[r].drive \in DriveStatus
    BY <1>3, <2>1, RowFields
  <2>5. QED
    BY <1>2, <2>1, <2>3, <2>4
<1>6. DOMAIN batch' = 1..n
  BY <1>1, <1>4
<1>7. batch' \in Seq([run : RunIds, file : Files, drive : DriveStatus])
  <2>1. batch' \in [1..n -> [run : RunIds, file : Files, drive : DriveStatus]]
    BY <1>1, <1>4, <1>5, <1>6
  <2>2. QED
    BY <2>1, SeqDef
<1>8. (\A i \in DOMAIN batch : row[batch[i].run].status # "absent")'
  BY <1>5, <1>6
<1>9. /\ upload' \in [Uploaders -> Upload] /\ UploadIsSound("retry")'
      /\ \A v \in Uploaders \ {"retry"} : upload'[v] = upload[v]
  BY <1>2, <1>3, UploadFields
  DEF ArchiveInvariant, Uploaders, UploadIsSound, IsReal, KeepsItsCopy, Exists
<1>10. QED
  BY <1>2, <1>7, <1>8, <1>9, ApiUploadMoves

LEMMA RetryNextStep ==
  ASSUME ArchiveInvariant, RetryNext
  PROVE  ArchiveInvariant'
<1>1. /\ batch # << >> /\ batch' = Tail(batch)
      /\ upload' = [upload EXCEPT !["retry"] =
           [step |-> IF Head(batch).file \in disk THEN "find" ELSE "failed",
            run |-> Head(batch).run, file |-> Head(batch).file,
            drive |-> Head(batch).drive, had |-> NoCopy, got |-> NoCopy]]
      /\ UNCHANGED <<backend, row, disk, remote, worker, apiLock, doomed, events, forgotten>>
  BY DEF RetryNext
<1>2. TypeInvariant
  BY DEF ArchiveInvariant
<1>3. /\ batch \in Seq([run : RunIds, file : Files, drive : DriveStatus])
      /\ Len(batch) \in Nat \ {0} /\ DOMAIN batch = 1..Len(batch)
  BY <1>1, <1>2, EmptySeq DEF TypeInvariant
<1>4. PICK b : b = Head(batch) /\ b = batch[1] /\ 1 \in DOMAIN batch
  BY <1>1, <1>3
<1>5. /\ b.run \in RunIds /\ b.file \in Files /\ b.drive \in DriveStatus
      /\ row[b.run].status # "absent"
  BY <1>2, <1>4, BatchRuns DEF ArchiveInvariant
<1>6. PICK x : x = [step |-> IF b.file \in disk THEN "find" ELSE "failed",
                    run |-> b.run, file |-> b.file,
                    drive |-> b.drive, had |-> NoCopy, got |-> NoCopy]
  OBVIOUS
<1>7. /\ x \in Upload /\ x.step \in {"find", "failed"} /\ x.run = b.run
      /\ x.file = b.file /\ x.had = NoCopy
  BY <1>5, <1>6, Constants DEF Upload, RunIds
<1>8. /\ upload' \in [Uploaders -> Upload] /\ upload'["retry"] = x
      /\ \A v \in Uploaders \ {"retry"} : upload'[v] = upload[v]
  BY <1>1, <1>2, <1>4, <1>6, <1>7, UploadFields DEF Uploaders
<1>9. UploadIsSound("retry")'
  BY <1>1, <1>5, <1>7, <1>8 DEF UploadIsSound
<1>10. /\ batch' \in Seq([run : RunIds, file : Files, drive : DriveStatus])
       /\ Len(batch') = Len(batch) - 1
       /\ \A i \in 1..Len(batch') : batch'[i] = batch[i + 1]
  BY <1>1, <1>3, HeadTailProperties
<1>11. (\A i \in DOMAIN batch : row[batch[i].run].status # "absent")'
  <2>1. ASSUME NEW i \in DOMAIN batch'
        PROVE  row'[batch'[i].run].status # "absent"
    <3>1. i \in 1..Len(batch')
      BY <1>10
    <3>2. i + 1 \in DOMAIN batch /\ batch'[i] = batch[i + 1]
      BY <1>3, <1>10, <3>1
    <3>3. QED
      BY <1>1, <3>2 DEF ArchiveInvariant
  <2>2. QED
    BY <2>1
<1>12. QED
  BY <1>1, <1>8, <1>9, <1>10, <1>11, ApiUploadMoves

LEMMA ManualRetryStep ==
  ASSUME ArchiveInvariant, NEW r \in RunIds, ManualRetry(r)
  PROVE  ArchiveInvariant'
<1>1. /\ Exists(r) /\ Event /\ row[r].shot \in disk
      /\ row' = [row EXCEPT ![r].drive = "pending"]
      /\ upload' = [upload EXCEPT !["manual"] =
           [step |-> "find", run |-> r, file |-> row[r].shot, drive |-> "pending",
            had |-> row[r].copy, got |-> NoCopy]]
      /\ UNCHANGED <<backend, disk, remote, worker, apiVars, forgotten>>
  BY DEF ManualRetry
<1>2. UNCHANGED <<batch, apiLock, doomed>>
  BY <1>1 DEF apiVars
<1>3. /\ TypeInvariant /\ WorkerIsSound /\ RowIsSound(r)
      /\ \A q \in RunIds : RowIsSound(q)
  BY DEF ArchiveInvariant
<1>4. /\ row[r] \in Row /\ row[r].shot \in Files /\ row[r].copy \in Copies \cup {NoCopy}
      /\ row[r].status # "absent"
  BY <1>1, <1>3, RowFields DEF TypeInvariant, Exists
<1>5. PICK x : x = [row[r] EXCEPT !.drive = "pending"]
  OBVIOUS
<1>6. /\ x \in Row /\ x.drive = "pending" /\ x.copy = row[r].copy
      /\ x.status = row[r].status /\ x.shot = row[r].shot /\ x.hash = row[r].hash
  BY <1>4, <1>5 DEF Row, DriveStatus
<1>7. row' = [row EXCEPT ![r] = x]
  BY <1>1, <1>5
<1>8. row'[r] = x
  BY <1>3, <1>7, RowFields
<1>9. RowEvolves(r)
  <2>1. KeepsItsCopy(r)' => KeepsItsCopy(r)
    BY <1>1, <1>6, <1>8 DEF KeepsItsCopy, Exists
  <2>2. QED
    BY <1>6, <1>8, <2>1 DEF RowEvolves
<1>10. /\ row' \in [RunIds -> Row] /\ Evolves
       /\ \A q \in RunIds \ {r} : row'[q] = row[q] /\ RowIsSound(q)'
  BY <1>1, <1>6, <1>7, <1>9, OneRow
<1>11. RowIsSound(r)'
  BY <1>1, <1>3, <1>6, <1>8 DEF RowIsSound, IsReal, Exists
<1>12. WorkerIsSound'
  <2>1. worker.step # "idle" => worker.run \in RunIds
    BY <1>3 DEF WorkerIsSound
  <2>2. \A q \in RunIds : /\ row'[q].status = row[q].status
                          /\ row'[q].shot = row[q].shot /\ row'[q].hash = row[q].hash
    BY <1>6, <1>8, <1>10
  <2>3. QED
    BY <1>1, <1>3, <1>10, <2>1, <2>2, WorkerKept
<1>13. PICK z : z = [step |-> "find", run |-> r, file |-> row[r].shot,
                     drive |-> "pending", had |-> row[r].copy, got |-> NoCopy]
  OBVIOUS
<1>14. /\ z \in Upload /\ z.step = "find" /\ z.run = r /\ z.file \in Files
       /\ z.had = row[r].copy
  BY <1>4, <1>13, Constants DEF Upload, DriveStatus, RunIds
<1>15. /\ upload' \in [Uploaders -> Upload] /\ upload'["manual"] = z
       /\ \A v \in Uploaders \ {"manual"} : upload'[v] = upload[v]
  BY <1>1, <1>3, <1>13, <1>14, UploadFields DEF Uploaders
<1>16. UploadIsSound("manual")'
  BY <1>4, <1>6, <1>8, <1>14, <1>15 DEF UploadIsSound
<1>17. \A v \in Uploaders \ {"manual"} : UploadIsSound(v)'
  BY <1>1, <1>2, <1>10, <1>15, OtherUploads DEF Uploaders
<1>18. events' \in 0..MaxEvents
  BY <1>1, <1>3, EventBounded
<1>19. TypeInvariant'
  BY <1>1, <1>2, <1>3, <1>10, <1>15, <1>18 DEF TypeInvariant
<1>20. QED
  BY <1>1, <1>2, <1>10, <1>11, <1>12, <1>16, <1>17, <1>19,
     RemotesKept, DoomedKept, BatchKept DEF ArchiveInvariant

-----------------------------------------------------------------------------
(* The invariant holds in every state of every behaviour.                  *)

LEMMA ArchiveInit ==
  ASSUME Init
  PROVE  ArchiveInvariant
<1>1. /\ backend \in Backends /\ disk = {} /\ worker = IdleWorker
      /\ batch = << >> /\ apiLock = "free" /\ doomed = {} /\ events = 0
      /\ forgotten = {}
  BY DEF Init
<1>2. row \in [RunIds -> Row] /\ \A r \in RunIds : row[r] = NoRow
  BY NoThings DEF Init
<1>3. remote \in [Files -> SeqOf({"worker", "api"}, 2)] /\ \A f \in Files : remote[f] = << >>
  <2>1. << >> \in SeqOf(Processes, 2)
    <3>1. << >> \in Seq(Processes) /\ Len(<< >>) <= 2
      OBVIOUS
    <3>2. QED
      BY <3>1, CopiesOf, Zenon
  <2>2. QED
    BY <2>1 DEF Init, Processes
<1>4. upload \in [Uploaders -> Upload] /\ \A u \in Uploaders : upload[u] = NoUpload
  BY NoThings DEF Init
<1>5. TypeInvariant
  <2>1. batch \in Seq([run : RunIds, file : Files, drive : DriveStatus])
    BY <1>1
  <2>2. events \in 0..MaxEvents
    BY <1>1, Constants
  <2>3. QED
    BY <1>1, <1>2, <1>3, <1>4, <2>1, <2>2, NoThings DEF TypeInvariant
<1>6. \A r \in RunIds : RowIsSound(r)
  <2>1. NoRow.status = "absent"
    BY DEF NoRow
  <2>2. QED
    BY <1>2, <2>1, NoThings DEF RowIsSound, KeepsItsCopy, Exists
<1>7. WorkerIsSound /\ \A u \in Uploaders : UploadIsSound(u)
  BY <1>1, <1>4, NoThings DEF WorkerIsSound, UploadIsSound
<1>8. \A f \in Files : RemoteIsSound(f)
  <2>1. DOMAIN << >> = {} /\ Len(<< >>) = 0
    OBVIOUS
  <2>2. QED
    BY <1>3, <2>1 DEF RemoteIsSound
<1>9. /\ \A f \in doomed : row[f[1]].status = "deleted"
      /\ \A i \in DOMAIN batch : row[batch[i].run].status # "absent"
  BY <1>1
<1>10. QED
  BY <1>5, <1>6, <1>7, <1>8, <1>9 DEF ArchiveInvariant

LEMMA ArchiveStutters ==
  ASSUME ArchiveInvariant, UNCHANGED vars
  PROVE  ArchiveInvariant'
<1>1. UNCHANGED <<backend, row, disk, remote, worker, upload, batch, apiLock, doomed,
                  events, forgotten>>
  BY DEF vars, actorVars, apiVars
<1>2. worker.step = "upload" \/ upload["worker"].step = "none"
  BY DEF ArchiveInvariant, UploadIsSound, Uploaders
<1>3. TypeInvariant /\ \A q \in RunIds : RowIsSound(q)
  BY DEF ArchiveInvariant
<1>4. Evolves
  BY <1>1, EvolvesKept
<1>5. TypeInvariant'
  BY <1>1, <1>3 DEF TypeInvariant
<1>6. ASSUME NEW q \in RunIds
      PROVE  RowIsSound(q)'
  BY <1>1, <1>3, <1>4, RowKept DEF RowIsSound, Evolves
<1>7. WorkerIsSound'
  BY <1>1, WorkerUntouched
<1>8. upload["worker"].step # "none" =>
        worker'.step = "upload" /\ worker'.run = worker.run
  BY <1>1, <1>2
<1>9. doomed' \subseteq doomed
  BY <1>1
<1>10. QED
  BY <1>1, <1>4, <1>5, <1>6, <1>7, <1>8, <1>9, OthersKept DEF ArchiveInvariant

LEMMA ArchiveStep ==
  ASSUME ArchiveInvariant, [Next]_vars
  PROVE  ArchiveInvariant'
<1>1. CASE \E r \in RunIds, d \in 1..LastDay, force \in BOOLEAN : Create(r, d, force)
  BY <1>1, CreateStep
<1>2. CASE \E last \in RunIds : PurgeRows(last)
  BY <1>2, PurgeRowsStep
<1>3. CASE \E f \in Files : PurgeFile(f)
  BY <1>3, PurgeFileStep
<1>4. CASE DeleteTarget
  BY <1>4, DeleteTargetStep
<1>5. CASE WorkerStep
  BY <1>5, ExecuteStep, CapturePageStep, StoreStep, DeduplicateStep,
     UnlinkDuplicateStep, BeginUploadStep, FinishStep, RunVanishedStep DEF WorkerStep
<1>6. CASE \E u \in Uploaders : UploadNext(u)
  BY <1>6, FindRemoteStep, CreateRemoteStep, RecordUploadStep, UploadVanishedStep
  DEF UploadNext
<1>7. CASE RetryJob
  BY <1>7, SelectDueStep, RetryNextStep DEF RetryJob
<1>8. CASE \E r \in RunIds : ManualRetry(r)
  BY <1>8, ManualRetryStep
<1>9. CASE Failure
  BY <1>9, CaptureRaisesStep, AnalysisRaisesStep, UploadFailsStep, WorkerCrashStep,
     ApiCrashStep DEF Failure
<1>10. CASE UNCHANGED vars
  BY <1>10, ArchiveStutters
<1>11. QED
  BY <1>1, <1>2, <1>3, <1>4, <1>5, <1>6, <1>7, <1>8, <1>9, <1>10 DEF Next

(* The invariant of the archive: rows, worker, uploads and remote storage  *)
(* agree with each other, through crashes, deletions and late uploads.     *)
THEOREM ArchiveInvariantHolds == Spec => []ArchiveInvariant
<1>1. Init => ArchiveInvariant
  BY ArchiveInit
<1>2. ArchiveInvariant /\ [Next]_vars => ArchiveInvariant'
  BY ArchiveStep
<1>3. QED
  BY <1>1, <1>2, PTL DEF Spec

(* Every variable keeps its type: attempts, copies and events stay within  *)
(* their bounds (_attempt_once, find_file before create).                  *)
THEOREM ArchiveTypeCorrect == Spec => []TypeInvariant
<1>1. ArchiveInvariant => TypeInvariant
  BY DEF ArchiveInvariant
<1>2. QED
  BY <1>1, ArchiveInvariantHolds, PTL

(* A row never names an image that is not on the disk (purge_expired_runs, *)
(* _deduplicate_by_hash and enforce_capture_size order commit and unlink). *)
THEOREM ImagesOutliveRows == Spec => []RowsHaveTheirImage
<1>1. ArchiveInvariant => RowsHaveTheirImage
  BY DEF ArchiveInvariant, RowIsSound, RowsHaveTheirImage
<1>2. QED
  BY <1>1, ArchiveInvariantHolds, PTL

(* A process creates at most one copy of an image (DriveClient.upload).    *)
THEOREM NoSecondCopy == Spec => []OneCopyPerProcess
<1>1. ArchiveInvariant => OneCopyPerProcess
  BY DEF ArchiveInvariant, RemoteIsSound, OneCopyPerProcess
<1>2. QED
  BY <1>1, ArchiveInvariantHolds, PTL

(* A copy named by the database exists, and a success said to be uploaded  *)
(* names one (mark_success, _deduplicate_by_hash).                         *)
THEOREM NamedCopiesExist == Spec => []CopiesAreReal
<1>1. ArchiveInvariant => CopiesAreReal
  <2> SUFFICES ASSUME ArchiveInvariant, NEW r \in RunIds
               PROVE  /\ row[r].copy # NoCopy => IsReal(row[r].copy)
                      /\ row[r].status = "success" /\ row[r].drive = "uploaded" =>
                           row[r].copy # NoCopy \/ r \in forgotten
    BY DEF CopiesAreReal, IsReal
  <2>1. RowIsSound(r)
    BY DEF ArchiveInvariant
  <2>2. QED
    BY <2>1 DEF RowIsSound, KeepsItsCopy, Exists
<1>2. QED
  BY <1>1, ArchiveInvariantHolds, PTL

-----------------------------------------------------------------------------
(* The storage of the organisation.                                        *)

(* The bytes of a run, as the sum counts them.                             *)
Weight(r) == IF Exists(r) /\ r # 0 THEN Bytes(r) ELSE 0

(* What a step may do to the bytes of a run, but for the one that stores.  *)
Lighter(r) ==
  Exists(r)' /\ row'[r].shot # NoFile =>
    Exists(r) /\ row'[r].shot = row[r].shot /\ row'[r].hash = row[r].hash

(* The step that stores: the new image is counted against the limit.       *)
Stores ==
  /\ worker.run \in RunIds /\ worker.hash \in Contents
  /\ StorageLimit > 0 => ~(StorageBytes(worker.run) + worker.hash > StorageLimit)
  /\ Exists(worker.run) /\ row'[worker.run].status = row[worker.run].status
  /\ row'[worker.run].shot # NoFile /\ row'[worker.run].hash = worker.hash
  /\ \A q \in RunIds \ {worker.run} : row'[q] = row[q]

LEMMA RowsUntouched ==
  ASSUME row' = row
  PROVE  \A r \in RunIds : Lighter(r)
BY DEF Lighter, Exists

LEMMA StatusIsNoWeight ==
  ASSUME TypeInvariant, NEW r \in RunIds, Exists(r), NEW s \in Statuses,
         row' = [row EXCEPT ![r].status = s]
  PROVE  \A q \in RunIds : Lighter(q)
BY RowWithStatus DEF Lighter, Exists

(* The run r keeps its image, or loses it.                                 *)
LEMMA OneLighter ==
  ASSUME TypeInvariant, NEW r \in RunIds, NEW x,
         row' = [row EXCEPT ![r] = x],
         x.shot = NoFile \/ (Exists(r) /\ x.shot = row[r].shot /\ x.hash = row[r].hash)
  PROVE  \A q \in RunIds : Lighter(q)
BY RowFields DEF Lighter, Exists

LEMMA WorkerIsLighter ==
  ASSUME ArchiveInvariant, WorkerStep \/ CaptureRaises \/ AnalysisRaises
  PROVE  (\A r \in RunIds : Lighter(r)) \/ Stores
<1>1. /\ TypeInvariant /\ \A q \in RunIds : RowIsSound(q)
  BY DEF ArchiveInvariant
<1>2. ASSUME NEW step \in WorkerSteps \ {"idle"}, W(step), NEW s \in Statuses, Settle(s)
      PROVE  \A r \in RunIds : Lighter(r)
  <2>1. worker.run \in RunIds /\ Exists(worker.run)
    BY <1>2, AtWork DEF W
  <2>2. row' = [row EXCEPT ![worker.run].status = s]
    BY <1>2 DEF Settle
  <2>3. QED
    BY <1>1, <2>1, <2>2, StatusIsNoWeight
<1>3. ASSUME NEW step \in WorkerSteps \ {"idle"}, W(step), Retry
      PROVE  \A r \in RunIds : Lighter(r)
  <2>1. CASE row' = row
    BY <2>1, RowsUntouched
  <2>2. CASE Settle("failed")
    BY <1>2, <1>3, <2>2 DEF Statuses, Settled
  <2>3. QED
    BY <1>3, <2>1, <2>2 DEF Retry
<1>4. ASSUME NEW r \in RunIds, Execute(r)
      PROVE  \A q \in RunIds : Lighter(q)
  <2>1. Exists(r)
    BY <1>4 DEF Execute, Exists
  <2>2. CASE row' = [row EXCEPT ![r].status = "running"]
    BY <1>1, <2>1, <2>2, StatusIsNoWeight DEF Statuses
  <2>3. CASE /\ DaySuccesses(r) # {}
             /\ row' = [row EXCEPT ![r] =
                          [ShareDrive(row[r], Newest(DaySuccesses(r)), row[r].drive, row[r].copy)
                           EXCEPT !.status = "skipped"]]
    <3>1. PICK s \in RunIds : s = Newest(DaySuccesses(r))
      <4>1. DaySuccesses(r) \in SUBSET RunIds
        BY DEF DaySuccesses
      <4>2. QED
        BY <2>3, <4>1, NewestIs
    <3>2. PICK y : y = ShareDrive(row[r], s, row[r].drive, row[r].copy)
      OBVIOUS
    <3>3. row[r].drive \in DriveStatus /\ row[r].copy \in Copies \cup {NoCopy}
      BY <1>1, RowFields
    <3>4. y \in Row /\ y.shot = row[r].shot /\ y.hash = row[r].hash
      BY <1>1, <3>2, <3>3, ShareDriveIs
    <3>5. PICK x : x = [y EXCEPT !.status = "skipped"]
      OBVIOUS
    <3>6. x.shot = row[r].shot /\ x.hash = row[r].hash
      BY <3>4, <3>5 DEF Row
    <3>7. row' = [row EXCEPT ![r] = x]
      BY <2>3, <3>1, <3>2, <3>5
    <3>8. QED
      BY <1>1, <2>1, <3>6, <3>7, OneLighter
  <2>4. QED
    BY <1>4, <2>2, <2>3 DEF Execute
<1>5. CASE Store
  <2>1. W("store") /\ "store" \in WorkerSteps \ {"idle"}
    BY <1>5 DEF Store, WorkerSteps
  <2>2. PICK r \in RunIds : r = worker.run /\ Exists(r) /\ worker.hash \in Contents
                            /\ worker.file \in Files
    BY <2>1, AtWork DEF W
  <2>3. CASE Settle("failed")
    BY <1>2, <2>1, <2>3 DEF Statuses, Settled
  <2>4. CASE /\ row' = [row EXCEPT ![r].shot = worker.file, ![r].hash = worker.hash]
             /\ StorageLimit > 0 => ~(StorageBytes(r) + worker.hash > StorageLimit)
    <3>1. PICK x : x = [row[r] EXCEPT !.shot = worker.file, !.hash = worker.hash]
      OBVIOUS
    <3>2. x.status = row[r].status /\ x.shot = worker.file /\ x.hash = worker.hash
      <4>1. row[r] \in Row
        BY <1>1, RowFields
      <4>2. QED
        BY <3>1, <4>1 DEF Row
    <3>3. row' = [row EXCEPT ![r] = x]
      BY <1>1, <2>4, <3>1, RowFields
    <3>4. row'[r] = x /\ \A q \in RunIds \ {r} : row'[q] = row[q]
      BY <1>1, <3>3, RowFields
    <3>5. worker.file # NoFile
      BY <2>2, FilesAre
    <3>6. QED
      BY <2>2, <2>4, <3>2, <3>4, <3>5 DEF Stores
  <2>5. QED
    BY <1>5, <2>2, <2>3, <2>4 DEF Store, Goto
<1>6. CASE Deduplicate
  <2>1. W("stored") /\ "stored" \in WorkerSteps \ {"idle"}
    BY <1>6 DEF Deduplicate, WorkerSteps
  <2>2. PICK r \in RunIds : r = worker.run
    BY <2>1, AtWork
  <2>3. PICK x : /\ row' = [row EXCEPT ![r] = x] /\ x.shot = NoFile
    <3>1. PICK y : y = ShareDrive(row[r], Newest(Twins(worker.run, worker.hash)),
                                  worker.drive, worker.had)
      OBVIOUS
    <3>2. y = [row[r] EXCEPT !.drive = y.drive, !.copy = y.copy]
      <4>1. row[r] \in Row
        BY <1>1, RowFields
      <4>2. QED
        BY <3>1, <4>1 DEF ShareDrive, Row
    <3>3. [y EXCEPT !.shot = NoFile].shot = NoFile
      <4>1. row[r] \in Row
        BY <1>1, RowFields
      <4>2. QED
        BY <3>2, <4>1 DEF Row
    <3>4. row' = [row EXCEPT ![r] = [y EXCEPT !.shot = NoFile]]
      BY <1>6, <2>2, <3>1 DEF Deduplicate
    <3>5. QED
      BY <3>3, <3>4
  <2>4. QED
    BY <1>1, <2>3, OneLighter
<1>7. CASE BeginUpload
  <2>1. W("stored") /\ "stored" \in WorkerSteps \ {"idle"}
    BY <1>7 DEF BeginUpload, WorkerSteps
  <2>2. PICK r \in RunIds : r = worker.run /\ Exists(r)
    BY <2>1, AtWork DEF W
  <2>3. CASE row' = row
    BY <2>3, RowsUntouched
  <2>4. CASE row' = [row EXCEPT ![r].drive = Flushed(worker.drive, "pending", row[r].drive)]
    <3>1. PICK x : x = [row[r] EXCEPT !.drive = Flushed(worker.drive, "pending", row[r].drive)]
      OBVIOUS
    <3>2. x.shot = row[r].shot /\ x.hash = row[r].hash
      <4>1. row[r] \in Row
        BY <1>1, RowFields
      <4>2. QED
        BY <3>1, <4>1 DEF Row
    <3>3. row' = [row EXCEPT ![r] = x]
      BY <2>4, <3>1
    <3>4. QED
      BY <1>1, <2>2, <3>2, <3>3, OneLighter
  <2>5. QED
    BY <1>7, <2>2, <2>3, <2>4 DEF BeginUpload
<1>8. CASE UnlinkDuplicate
  BY <1>2, <1>8 DEF UnlinkDuplicate, WorkerSteps, Statuses, Settled
<1>9. CASE Finish
  BY <1>2, <1>9 DEF Finish, WorkerSteps, Statuses, Settled
<1>10. CASE RunVanished \/ \E c \in Contents : CapturePage(c)
  BY <1>10, RowsUntouched DEF RunVanished, CapturePage
<1>11. CASE CaptureRaises
  BY <1>2, <1>3, <1>11 DEF CaptureRaises, WorkerSteps, Statuses, Settled
<1>12. CASE AnalysisRaises
  BY <1>3, <1>12 DEF AnalysisRaises, WorkerSteps
<1>13. QED
  BY <1>4, <1>5, <1>6, <1>7, <1>8, <1>9, <1>10, <1>11, <1>12 DEF WorkerStep

(* No step adds to the images of the rows but the one that stores.         *)
LEMMA StepIsLighter ==
  ASSUME ArchiveInvariant, [Next]_vars
  PROVE  (\A r \in RunIds : Lighter(r)) \/ Stores
<1>1. /\ TypeInvariant /\ \A q \in RunIds : RowIsSound(q)
  BY DEF ArchiveInvariant
<1>2. ASSUME NEW r \in RunIds, NEW d \in 1..LastDay, NEW force \in BOOLEAN,
             Create(r, d, force)
      PROVE  \A q \in RunIds : Lighter(q)
  <2>1. PICK x : x = [NoRow EXCEPT !.status = "pending", !.date = d, !.force = force]
    OBVIOUS
  <2>2. row' = [row EXCEPT ![r] = x]
    BY <1>2, <2>1 DEF Create
  <2>3. x.shot = NoFile
    BY <2>1 DEF NoRow
  <2>4. QED
    BY <1>1, <2>2, <2>3, OneLighter
<1>3. ASSUME NEW E \in SUBSET RunIds,
             row' = [r \in RunIds |-> IF r \in E
                                      THEN [NoRow EXCEPT !.status = "deleted",
                                                         !.date = row[r].date]
                                      ELSE row[r]]
      PROVE  \A q \in RunIds : Lighter(q)
  <2> TAKE q \in RunIds
  <2>1. CASE q \in E
    <3>1. row'[q] = [NoRow EXCEPT !.status = "deleted", !.date = row[q].date]
      BY <1>3, <2>1
    <3>2. row'[q].shot = NoFile
      BY <3>1 DEF NoRow
    <3>3. QED
      BY <3>2 DEF Lighter
  <2>2. CASE q \notin E
    BY <1>3, <2>2 DEF Lighter, Exists
  <2>3. QED
    BY <2>1, <2>2
<1>4. ASSUME NEW last \in RunIds, PurgeRows(last)
      PROVE  \A q \in RunIds : Lighter(q)
  <2>1. PICK E \in SUBSET RunIds : E = {r \in 1..last : Exists(r)}
    <3>1. {r \in 1..last : Exists(r)} \subseteq RunIds
      BY Constants DEF RunIds
    <3>2. QED
      BY <3>1
  <2>2. QED
    BY <1>3, <1>4, <2>1 DEF PurgeRows
<1>5. CASE DeleteTarget
  <2>1. row' = [r \in RunIds |-> IF r \in RunIds
                                 THEN [NoRow EXCEPT !.status = "deleted",
                                                    !.date = row[r].date]
                                 ELSE row[r]]
    BY <1>5 DEF DeleteTarget
  <2>2. QED
    BY <1>3, <2>1
<1>6. ASSUME NEW u \in Uploaders, RecordUpload(u)
      PROVE  \A q \in RunIds : Lighter(q)
  <2>1. PICK r \in RunIds : r = upload[u].run /\ Exists(r)
    BY <1>6 DEF RecordUpload, ArchiveInvariant, UploadIsSound
  <2>2. PICK x : x = Recorded(row[r], upload[u])
    OBVIOUS
  <2>3. row[r] \in Row
    BY <1>1, RowFields
  <2>4. x.shot = row[r].shot /\ x.hash = row[r].hash
    <3>1. CASE upload[u].step = "sent"
      BY <2>2, <2>3, <3>1 DEF Recorded, Row
    <3>2. CASE upload[u].step # "sent"
      BY <2>2, <2>3, <3>2 DEF Recorded, Row
    <3>3. QED
      BY <3>1, <3>2
  <2>5. row' = [row EXCEPT ![r] = x]
    BY <1>6, <2>1, <2>2 DEF RecordUpload
  <2>6. QED
    BY <1>1, <2>1, <2>4, <2>5, OneLighter
<1>7. ASSUME NEW r \in RunIds, ManualRetry(r)
      PROVE  \A q \in RunIds : Lighter(q)
  <2>1. PICK x : x = [row[r] EXCEPT !.drive = "pending"]
    OBVIOUS
  <2>2. row[r] \in Row
    BY <1>1, RowFields
  <2>3. x.shot = row[r].shot /\ x.hash = row[r].hash
    BY <2>1, <2>2 DEF Row
  <2>4. row' = [row EXCEPT ![r] = x] /\ Exists(r)
    BY <1>7, <2>1 DEF ManualRetry
  <2>5. QED
    BY <1>1, <2>3, <2>4, OneLighter
<1>8. CASE WorkerStep \/ CaptureRaises \/ AnalysisRaises
  BY <1>8, WorkerIsLighter
<1>9. CASE row' = row
  BY <1>9, RowsUntouched
<1>10. CASE \E u \in Uploaders : UploadNext(u)
  <2>1. PICK u \in Uploaders : UploadNext(u)
    BY <1>10
  <2>2. CASE RecordUpload(u)
    BY <1>6, <2>2
  <2>3. CASE FindRemote(u) \/ CreateRemote(u) \/ UploadVanished(u)
    <3>1. row' = row
      BY <2>3 DEF FindRemote, CreateRemote, UploadVanished
    <3>2. QED
      BY <3>1, RowsUntouched
  <2>4. QED
    BY <2>1, <2>2, <2>3 DEF UploadNext
<1>11. CASE (\E f \in Files : PurgeFile(f)) \/ RetryJob \/ UNCHANGED vars
  <2>1. row' = row
    BY <1>11 DEF PurgeFile, RetryJob, SelectDue, RetryNext, vars
  <2>2. QED
    BY <2>1, RowsUntouched
<1>12. CASE Failure
  <2>1. CASE CaptureRaises \/ AnalysisRaises
    BY <1>8, <2>1
  <2>2. CASE (\E u \in Uploaders : UploadFails(u)) \/ WorkerCrash \/ ApiCrash
    <3>1. row' = row
      BY <2>2 DEF UploadFails, WorkerCrash, ApiCrash
    <3>2. QED
      BY <3>1, RowsUntouched
  <2>3. QED
    BY <1>12, <2>1, <2>2 DEF Failure
<1>13. CASE \E r \in RunIds, d \in 1..LastDay, force \in BOOLEAN : Create(r, d, force)
  BY <1>2, <1>13
<1>14. CASE \E last \in RunIds : PurgeRows(last)
  BY <1>4, <1>14
<1>15. CASE \E r \in RunIds : ManualRetry(r)
  BY <1>7, <1>15
<1>16. CASE WorkerStep
  BY <1>8, <1>16
<1>17. QED
  BY <1>5, <1>10, <1>11, <1>12, <1>13, <1>14, <1>15, <1>16 DEF Next

LEMMA HashesAre == \A n \in Contents \cup {0} : n \in Nat
<1>1. \A n \in Contents : n \in Nat
  BY Constants
<1>2. QED
  BY <1>1

LEMMA WeightIs ==
  ASSUME TypeInvariant, NEW r \in RunIds
  PROVE  Bytes(r) \in Nat /\ Weight(r) \in Nat
<1>1. row[r].hash \in Nat
  BY RowFields, HashesAre
<1>2. QED
  BY <1>1 DEF Weight, Bytes

LEMMA StorageStep ==
  ASSUME ArchiveInvariant, ArchiveInvariant', [Next]_vars, StorageIsBounded
  PROVE  StorageIsBounded'
<1> SUFFICES ASSUME StorageLimit > 0
             PROVE  StorageBytes(0)' <= StorageLimit
  BY DEF StorageIsBounded
<1>1. TypeInvariant /\ TypeInvariant' /\ IsFiniteSet(RunIds) /\ StorageLimit \in Nat
  BY Constants DEF ArchiveInvariant
<1>2. PICK f : f = [r \in RunIds |-> Weight(r)]
  OBVIOUS
<1>3. PICK g : g = [r \in RunIds |-> Weight(r)']
  OBVIOUS
<1>4. f \in [RunIds -> Nat] /\ StorageBytes(0) = SumFunction(f)
  BY <1>1, <1>2, WeightIs DEF StorageBytes, Weight
<1>5. g \in [RunIds -> Nat] /\ StorageBytes(0)' = SumFunction(g)
  <2>1. \A r \in RunIds : Weight(r)' \in Nat
    <3> TAKE r \in RunIds
    <3>1. row'[r].hash \in Nat
      <4>1. row' \in [RunIds -> Row]
        BY <1>1 DEF TypeInvariant
      <4>2. row'[r] \in Row
        BY <4>1
      <4>3. row'[r].hash \in Contents \cup {0}
        BY <4>2 DEF Row
      <4>4. QED
        BY <4>3, HashesAre
    <3>2. QED
      BY <3>1 DEF Weight, Bytes
  <2>2. g \in [RunIds -> Nat]
    BY <1>3, <2>1
  <2>3. StorageBytes(0)' = SumFunction(g)
    BY <1>3 DEF StorageBytes, Weight
  <2>4. QED
    BY <2>2, <2>3
<1>6. SumFunction(f) <= StorageLimit
  BY <1>4 DEF StorageIsBounded
<1>7. CASE \A r \in RunIds : Lighter(r)
  <2>1. ASSUME NEW r \in RunIds
        PROVE  g[r] <= f[r]
    <3>1. g[r] = Weight(r)' /\ f[r] = Weight(r) /\ f[r] \in Nat
      BY <1>2, <1>3, <1>4
    <3>2. Weight(r)' = 0 \/ Weight(r)' = Weight(r)
      BY <1>7 DEF Weight, Bytes, Lighter
    <3>3. QED
      BY <3>1, <3>2
  <2>2. SumFunction(g) <= SumFunction(f)
    BY <1>1, <1>4, <1>5, <2>1, SumShrinks
  <2>3. SumFunction(g) \in Nat /\ SumFunction(f) \in Nat
    BY <1>1, <1>4, <1>5, SumType
  <2>4. QED
    BY <1>1, <1>5, <1>6, <2>2, <2>3
<1>8. CASE Stores
  <2>1. PICK x \in RunIds, n \in Nat \ {0} : x = worker.run /\ n = worker.hash
    BY <1>8, Constants DEF Stores
  <2>2. /\ ~(StorageBytes(x) + n > StorageLimit)
        /\ Exists(x) /\ row'[x].status = row[x].status
        /\ row'[x].shot # NoFile /\ row'[x].hash = n
        /\ \A q \in RunIds \ {x} : row'[q] = row[q]
    BY <1>8, <2>1 DEF Stores
  <2>3. PICK h : h = [r \in RunIds |-> IF Exists(r) /\ r # x THEN Bytes(r) ELSE 0]
    OBVIOUS
  <2>4. h \in [RunIds -> Nat] /\ StorageBytes(x) = SumFunction(h)
    BY <1>1, <2>3, WeightIs DEF StorageBytes
  <2>5. \A y \in RunIds \ {x} : g[y] = h[y]
    <3> TAKE y \in RunIds \ {x}
    <3>1. row'[y] = row[y] /\ y # 0 /\ y \in RunIds
      BY <2>2, Constants DEF RunIds
    <3>2. g[y] = Weight(y)' /\ h[y] = Weight(y)
      BY <1>3, <2>3, <3>1 DEF Weight
    <3>3. QED
      BY <3>1, <3>2 DEF Weight, Bytes, Exists
  <2>6. g[x] = n /\ h[x] = 0
    <3>1. x # 0
      BY Constants DEF RunIds
    <3>2. QED
      BY <1>3, <2>2, <2>3, <3>1 DEF Weight, Bytes, Exists
  <2>7. SumFunction(g) = SumFunction(h) + (g[x] - h[x])
    BY <1>1, <1>5, <2>4, <2>5, SumChanges
  <2>8. SumFunction(h) \in Nat
    BY <1>1, <2>4, SumType
  <2>9. SumFunction(g) = SumFunction(h) + n
    BY <2>6, <2>7, <2>8
  <2>10. QED
    BY <1>1, <1>5, <2>2, <2>4, <2>8, <2>9
<1>9. QED
  BY <1>7, <1>8, StepIsLighter

(* The images named by the rows never exceed the storage of the            *)
(* organisation (enforce_capture_size under the lock of the organisation). *)
THEOREM StorageQuotaHolds == Spec => []StorageIsBounded
<1>1. Init => StorageIsBounded
  <2> SUFFICES ASSUME Init, StorageLimit > 0
               PROVE  StorageBytes(0) <= StorageLimit
    BY DEF StorageIsBounded
  <2>1. PICK f : f = [r \in RunIds |-> IF Exists(r) /\ r # 0 THEN Bytes(r) ELSE 0]
    OBVIOUS
  <2>2. \A r \in RunIds : f[r] = 0
    BY <2>1, NoThings DEF Init, Bytes
  <2>3. f \in [RunIds -> Nat]
    BY <2>1, <2>2
  <2>4. SumFunction(f) = 0
    BY <2>2, <2>3, Constants, SumOfZeros
  <2>5. QED
    BY <2>1, <2>4, Constants DEF StorageBytes
<1>2. ArchiveInvariant /\ ArchiveInvariant' /\ StorageIsBounded /\ [Next]_vars
        => StorageIsBounded'
  BY StorageStep
<1>3. QED
  BY <1>1, <1>2, ArchiveInvariantHolds, PTL DEF Spec

=============================================================================
