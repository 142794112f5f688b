----------------------------- MODULE BackupRestore -----------------------------
(***************************************************************************)
(* scripts/backup.py and scripts/restore.py, on the installation that      *)
(* docker compose runs (PostgreSQL).                                       *)
(*                                                                         *)
(* A backup copies one kind of data after the other while the application  *)
(* goes on capturing and purging.  A restoration makes a backup of what it *)
(* is going to overwrite, then overwrites one kind after the other; it     *)
(* wants the application stopped but may not see that it runs.  Either may *)
(* die between two steps.                                                  *)
(***************************************************************************)
EXTENDS Integers, Sequences, FiniteSets

CONSTANTS
  RunIds,     \* bound: the runs captured
  Changing,   \* bound: the other kinds of data that change
  MaxChanges, \* bound: changes of each
  BackupOptions, RestoreOptions, \* the options explored, sets of kinds
  MaxScripts, \* bound: scripts started
  Outputs,    \* the archives that backups are asked to write
  Rollbacks   \* the archives pre-restore-<stamp>, one by restoration

ASSUME BackupAssumption ==
  /\ IsFiniteSet(RunIds) /\ {MaxChanges, MaxScripts} \subseteq Nat
  /\ Changing \subseteq {"profiles", "env", "secrets"}
  /\ BackupOptions \subseteq SUBSET {"secrets", "captures"}
  /\ RestoreOptions \subseteq SUBSET {"env", "secrets", "captures"}
  /\ Outputs \cap Rollbacks = {} /\ "none" \notin Outputs \cup Rollbacks

(* The kinds of data, in the order of create_backup.  "db" is the set of   *)
(* the runs that have a row, "captures" the set of those with an image;    *)
(* the others are known by their version.                                  *)
AlwaysCopied == <<"db", "key", "profiles", "env">>
Kinds == {"db", "key", "profiles", "env", "secrets", "captures"}
Versioned == {"key", "profiles", "env", "secrets"}
Paths == Outputs \cup Rollbacks

VARIABLES
  live,      \* the data directory and the database
  app,       \* the application: up or not, and the runs it works on
  archives,  \* by path: what it holds, kind by kind
  leftover,  \* the paths with a file .tmp beside them
  tool,      \* the script that runs
  undo,      \* what each restoration has overwritten (history)
  everPurged, \* the runs ever purged (history)
  scripts    \* bound

backupVars ==
  <<live, app, archives, leftover, tool, undo, everPurged, scripts>>

NoArchive == [k \in {} |-> 0]
Saved(path) == archives[path] # NoArchive
(* written: what the application has written since a restoration copied it *)
(* to its rollback archive (history).                                      *)
NoTool == [step |-> "idle", path |-> "none", from |-> "none", todo |-> <<>>,
           payload |-> NoArchive, asked |-> {}, written |-> {}]

BackupTypes ==
  /\ DOMAIN live = Kinds
  /\ live["db"] \subseteq RunIds /\ live["captures"] \subseteq RunIds
  /\ \A k \in Versioned : live[k] \in 0..MaxChanges
  /\ app.up \in BOOLEAN /\ app.fresh \cup app.doomed \subseteq RunIds
  /\ \A p \in Paths : DOMAIN archives[p] \subseteq Kinds
  /\ leftover \subseteq Paths
  /\ tool.step \in 
       {"idle", "open", "database", "copy", "zip", "publish", "overwrite"}
  /\ tool.path \in Paths \cup {"none"} /\ tool.from \in Paths \cup {"none"}
  /\ DOMAIN tool.payload \cup tool.written \subseteq Kinds
  /\ \A u \in undo : u.path \in Rollbacks /\ u.lost[1] \in Kinds
  /\ scripts \in 0..MaxScripts

BackupInit ==
  /\ live = [k \in Kinds |-> IF k \in Versioned THEN 0 ELSE {}]
  /\ app = [up |-> TRUE, known |-> {}, fresh |-> {}, doomed |-> {}]
  /\ archives = [p \in Paths |-> NoArchive]
  /\ leftover = {} /\ tool = NoTool /\ undo = {} /\ everPurged = {}
  /\ scripts = 0

-------------------------------------------------------------------------------
Restoring == tool.from # "none"
Write(k, data) ==
  /\ live' = [live EXCEPT ![k] = data]
  /\ tool' = IF Restoring /\ k \in DOMAIN tool.payload
             THEN [tool EXCEPT !.written = @ \cup {k}] ELSE tool

(* The application: the image is written before its row, and a purge       *)
(* commits the deletion of the row before it removes the image.            *)
Photograph(i) ==
  /\ app.up /\ i \notin app.known
  /\ app' = [app EXCEPT !.known = @ \cup {i}, !.fresh = @ \cup {i}]
  /\ Write("captures", live["captures"] \cup {i})
  /\ UNCHANGED <<archives, leftover, undo, everPurged, scripts>>

CommitRun(i) ==
  /\ app.up /\ i \in app.fresh
  /\ app' = [app EXCEPT !.fresh = @ \ {i}]
  /\ Write("db", live["db"] \cup {i})
  /\ UNCHANGED <<archives, leftover, undo, everPurged, scripts>>

ExpireRun(i) ==
  /\ app.up /\ i \in live["db"]
  /\ app' = [app EXCEPT !.doomed = @ \cup {i}]
  /\ Write("db", live["db"] \ {i})
  /\ everPurged' = everPurged \cup {i}
  /\ UNCHANGED <<archives, leftover, undo, scripts>>

UnlinkImage(i) ==
  /\ app.up /\ i \in app.doomed
  /\ app' = [app EXCEPT !.doomed = @ \ {i}]
  /\ Write("captures", live["captures"] \ {i})
  /\ UNCHANGED <<archives, leftover, undo, everPurged, scripts>>

(* A profile is sealed again, .env is edited.                              *)
ChangeData(k) ==
  /\ app.up /\ live[k] < MaxChanges
  /\ Write(k, live[k] + 1)
  /\ UNCHANGED <<app, archives, leftover, undo, everPurged, scripts>>

(* docker compose down and up.                                             *)
StopApp ==
  /\ app.up
  /\ app' = [app EXCEPT !.up = FALSE, !.fresh = {}, !.doomed = {}]
  /\ UNCHANGED <<live, archives, leftover, tool, undo, everPurged, scripts>>

StartApp ==
  /\ ~ app.up
  /\ app' = [app EXCEPT !.up = TRUE]
  /\ UNCHANGED <<live, archives, leftover, tool, undo, everPurged, scripts>>

-------------------------------------------------------------------------------
(* create_backup: the database, the key, the profiles and .env, then what  *)
(* the options ask for.                                                    *)
If(condition, sequence) == IF condition THEN sequence ELSE <<>>
(* Mutant: the images are copied before the database.                      *)
WantedImagesFirst(asked) ==
  If("captures" \in asked, <<"captures">>) \o AlwaysCopied
    \o If("secrets" \in asked, <<"secrets">>)
Wanted(asked) ==
  AlwaysCopied \o If("secrets" \in asked, <<"secrets">>)
               \o If("captures" \in asked, <<"captures">>)

(* Without a database that runs there is nothing to dump.                  *)
StartBackup(path, asked) ==
  /\ tool.step = "idle" /\ scripts < MaxScripts
  /\ scripts' = scripts + 1 /\ app.up
  /\ tool' = [NoTool EXCEPT !.step = "copy", !.path = path,
                             !.todo = Wanted(asked)]
  /\ UNCHANGED <<live, app, archives, leftover, undo, everPurged>>

(* _dump_postgres and _copy_optional, into a temporary directory.          *)
CopyKind ==
  /\ tool.step = "copy"
  /\ LET k == Head(tool.todo) IN
       tool' = [tool EXCEPT
         !.payload = [j \in DOMAIN @ \cup {k} |-> IF j = k THEN live[k] ELSE @[j]],
         !.todo = Tail(@),
         !.step = IF Len(tool.todo) = 1 THEN "zip" ELSE @]
  /\ UNCHANGED <<live, app, archives, leftover, undo, everPurged, scripts>>

(* The manifest, the zip, its encryption: all in <output>.tmp.             *)
WriteArchive ==
  /\ tool.step = "zip"
  /\ leftover' = leftover \cup {tool.path}
  /\ tool' = [tool EXCEPT !.step = "publish"]
  /\ UNCHANGED <<live, app, archives, undo, everPurged, scripts>>

(* What restore_backup overwrites, in its order.                           *)
Overwritten(asked) ==
  <<"db", "key", "profiles">> \o If("env" \in asked, <<"env">>)
                              \o If("secrets" \in asked, <<"secrets">>)
                              \o If("captures" \in asked, <<"captures">>)

(* temporary.replace(output); a restoration then begins to write.          *)
PublishArchive ==
  /\ tool.step = "publish"
  /\ archives' = [archives EXCEPT ![tool.path] = tool.payload]
  /\ leftover' = leftover \ {tool.path}
  /\ tool' = IF Restoring
             THEN [tool EXCEPT !.step = "overwrite",
                               !.todo = Overwritten(tool.asked)]
             ELSE NoTool
  /\ UNCHANGED <<live, app, undo, everPurged, scripts>>

(* Mutant: a restoration without its rollback archive.                     *)
StartDatabaseAndRestore ==
  /\ tool.step = "database"
  /\ tool' = [tool EXCEPT !.step = "overwrite", !.todo = Overwritten(tool.asked)]
  /\ UNCHANGED <<live, app, archives, leftover, undo, everPurged, scripts>>

(* What _stack_running may answer: docker compose that fails, is not there *)
(* or takes 20 s is read as an application that is stopped.                *)
StackRunning == {app.up, FALSE}

(* restore_backup: refused when it sees that the application runs, unless  *)
(* forced.                                                                 *)
StartRestore(from, rollback, asked, forced) ==
  /\ tool.step = "idle" /\ scripts < MaxScripts
  /\ scripts' = scripts + 1
  /\ Saved(from) /\ ~ Saved(rollback)
  /\ \E running \in StackRunning : running => forced
  /\ tool' = [NoTool EXCEPT !.step = "open", !.path = rollback, !.from = from,
                             !.asked = asked]
  /\ UNCHANGED <<live, app, archives, leftover, undo, everPurged>>

(* decrypt_archive, into a temporary directory.                            *)
OpenArchive ==
  /\ tool.step = "open"
  /\ tool' = [tool EXCEPT !.step = "database"]
  /\ UNCHANGED <<live, app, archives, leftover, undo, everPurged, scripts>>

(* The password is wrong, the archive is damaged, or a file of its         *)
(* manifest is not what it says (verify_backup): nothing was written.      *)
RefuseArchive ==
  /\ tool.step = "open" /\ tool' = NoTool
  /\ UNCHANGED <<live, app, archives, leftover, undo, everPurged, scripts>>

(* docker compose up -d db, pg_isready; then the rollback archive.         *)
StartDatabase ==
  /\ tool.step = "database"
  /\ tool' = [tool EXCEPT !.step = "copy", !.todo = Wanted({})]
  /\ UNCHANGED <<live, app, archives, leftover, undo, everPurged, scripts>>

Lost(k) == [path |-> tool.path, lost |-> <<k, live[k]>>,
            written |-> k \in tool.written]

Done == IF Len(tool.todo) = 1 THEN NoTool ELSE [tool EXCEPT !.todo = Tail(@)]

(* pg_restore --clean.                                                     *)
RestoreDatabase ==
  /\ tool.step = "overwrite" /\ Head(tool.todo) = "db"
  /\ live' = [live EXCEPT !["db"] = archives[tool.from]["db"]]
  /\ undo' = undo \cup {Lost("db")}
  /\ tool' = Done
  /\ UNCHANGED <<app, archives, leftover, everPurged, scripts>>

(* shutil.copy2, or copytree: the images that are there already stay.      *)
RestoreFiles ==
  /\ tool.step = "overwrite" /\ Head(tool.todo) # "db"
  /\ LET k == Head(tool.todo)
         saved == archives[tool.from]
     IN IF k \in DOMAIN saved
        THEN /\ live' = [live EXCEPT ![k] = IF k = "captures" THEN @ \cup saved[k]
                                            ELSE saved[k]]
             /\ undo' = undo \cup {Lost(k)}
        ELSE UNCHANGED <<live, undo>>
  /\ tool' = Done
  /\ UNCHANGED <<app, archives, leftover, everPurged, scripts>>

(* pg_restore is not one transaction: it fails with the tables dropped and *)
(* some of the rows loaded, and the restoration stops there.               *)
RestoreDatabaseFails ==
  /\ tool.step = "overwrite" /\ Head(tool.todo) = "db"
  /\ \E loaded \in SUBSET archives[tool.from]["db"] :
       live' = [live EXCEPT !["db"] = loaded]
  /\ undo' = undo \cup {Lost("db")}
  /\ tool' = NoTool
  /\ UNCHANGED <<app, archives, leftover, everPurged, scripts>>

(* pg_dump fails, the disk is full, the script is killed.                  *)
ToolDies ==
  /\ tool.step # "idle"
  /\ tool' = NoTool
  /\ UNCHANGED <<live, app, archives, leftover, undo, everPurged, scripts>>

BackupNext ==
  \/ \E i \in RunIds :
       Photograph(i) \/ CommitRun(i) \/ ExpireRun(i) \/ UnlinkImage(i)
  \/ \E k \in Changing : ChangeData(k)
  \/ StopApp \/ StartApp
  \/ \E path \in Outputs, asked \in BackupOptions :
       StartBackup(path, asked)
  \/ CopyKind \/ WriteArchive \/ PublishArchive
  \/ \E from \in Paths, rollback \in Rollbacks, forced \in BOOLEAN,
        asked \in RestoreOptions :
       StartRestore(from, rollback, asked, forced)
  \/ OpenArchive \/ RefuseArchive \/ StartDatabase
  \/ RestoreDatabase \/ RestoreDatabaseFails \/ RestoreFiles \/ ToolDies

BackupSpec == BackupInit /\ [][BackupNext]_backupVars

-------------------------------------------------------------------------------
(* An archive is all there or not there, and it makes sense although the   *)
(* application went on while it was copied: every run of its database has  *)
(* its image in it, but for the runs that were purged.                     *)
ArchivesAreSound ==
  \A p \in Paths : Saved(p) =>
    /\ {AlwaysCopied[i] : i \in 1..Len(AlwaysCopied)} \subseteq DOMAIN archives[p]
    /\ "captures" \in DOMAIN archives[p] =>
         archives[p]["db"] \ archives[p]["captures"] \subseteq everPurged

(* "Une sauvegarde de securite de l'etat courant est creee avant toute     *)
(* ecriture": wherever a restoration stopped, its rollback archive holds   *)
(* the database, the key, the profiles and .env that it has overwritten.   *)
(* It does not hold the secrets and the images, nor what an application    *)
(* that was running, forced or unseen, wrote after the archive copied it.  *)
RestoreIsReversible ==
  \A u \in undo :
    LET k == u.lost[1]
    IN ~ u.written /\ k \notin {"secrets", "captures"} =>
         /\ Saved(u.path) /\ k \in DOMAIN archives[u.path]
         /\ archives[u.path][k] = u.lost[2]

===============================================================================
