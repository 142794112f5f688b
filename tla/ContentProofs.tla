---------------------------- MODULE ContentProofs ----------------------------
(***************************************************************************)
(* Proofs about the five parts of Content: the key of the sessions, the    *)
(* archives and their restoration, the capture of a long page, the product *)
(* sheets, the extraction of the rows of a page; and of the whole, which   *)
(* is a behaviour of each.                                                 *)
(***************************************************************************)
EXTENDS Content, Sums, SequenceTheorems

(* SessionKey: for any number of processes and of restarts.                *)

(* Before its link a process holds the key it has drawn; after it, or      *)
(* after it has read the file, the one the file holds.                     *)
DrawnKeys ==
  \A p \in Starters : starting[p] \in {"write", "link"} => keyOf[p] = p
SettledKeys ==
  \A p \in Starters :
    starting[p] \in {"unlink", "ready"} => keyFile # NoKey /\ keyOf[p] = keyFile

KeyInvariant == SessionKeyTypes /\ DrawnKeys /\ SettledKeys

LEMMA KeyInvariantInit == SessionKeyInit => KeyInvariant
BY KeyAssumption
DEF SessionKeyInit, KeyInvariant, SessionKeyTypes, DrawnKeys, SettledKeys, KeySteps

LEMMA KeyTypesStep ==
  SessionKeyTypes /\ [SessionKeyNext]_keyVars => SessionKeyTypes'
<1> SUFFICES ASSUME SessionKeyTypes, [SessionKeyNext]_keyVars
             PROVE  SessionKeyTypes'
  OBVIOUS
<1> USE KeyAssumption DEF SessionKeyTypes, Keys, KeySteps
<1>1. CASE TouchKeyFile
  BY <1>1 DEF TouchKeyFile
<1>2. ASSUME NEW p \in Starters, StartUp(p) PROVE SessionKeyTypes'
  BY <1>2 DEF StartUp
<1>3. ASSUME NEW p \in Starters, FindKey(p) PROVE SessionKeyTypes'
  BY <1>3 DEF FindKey
<1>4. ASSUME NEW p \in Starters, DrawKey(p) PROVE SessionKeyTypes'
  BY <1>4 DEF DrawKey
<1>5. ASSUME NEW p \in Starters, WriteDraft(p) PROVE SessionKeyTypes'
  BY <1>5 DEF WriteDraft
<1>6. ASSUME NEW p \in Starters, Publish(p) PROVE SessionKeyTypes'
  <2>1. CASE keyFile = NoKey
    BY <1>6, <2>1 DEF Publish
  <2>2. CASE keyFile # NoKey
    BY <1>6, <2>2 DEF Publish
  <2>3. QED
    BY <2>1, <2>2
<1>7. ASSUME NEW p \in Starters, RemoveDraft(p) PROVE SessionKeyTypes'
  BY <1>7 DEF RemoveDraft
<1>8. ASSUME NEW p \in Starters, Restart(p) PROVE SessionKeyTypes'
  BY <1>8 DEF Restart
<1>9. CASE UNCHANGED keyVars
  BY <1>9 DEF keyVars
<1>10. QED
  BY <1>1, <1>2, <1>3, <1>4, <1>5, <1>6, <1>7, <1>8, <1>9 DEF SessionKeyNext

LEMMA KeyInvariantStep ==
  KeyInvariant /\ [SessionKeyNext]_keyVars => KeyInvariant'
<1> SUFFICES ASSUME KeyInvariant, [SessionKeyNext]_keyVars PROVE KeyInvariant'
  OBVIOUS
<1>0. SessionKeyTypes'
  BY KeyTypesStep DEF KeyInvariant
<1> DEFINE Preserved == DrawnKeys' /\ SettledKeys'
<1> SUFFICES Preserved
  BY <1>0 DEF KeyInvariant
<1> USE KeyAssumption DEF KeyInvariant, SessionKeyTypes, DrawnKeys, SettledKeys, Keys, KeySteps
<1>1. CASE TouchKeyFile
  BY <1>1 DEF TouchKeyFile
<1>2. ASSUME NEW p \in Starters, StartUp(p) PROVE Preserved
  BY <1>2 DEF StartUp
<1>3. ASSUME NEW p \in Starters, FindKey(p) PROVE Preserved
  BY <1>3 DEF FindKey
<1>4. ASSUME NEW p \in Starters, DrawKey(p) PROVE Preserved
  BY <1>4 DEF DrawKey
<1>5. ASSUME NEW p \in Starters, WriteDraft(p) PROVE Preserved
  BY <1>5 DEF WriteDraft
<1>6. ASSUME NEW p \in Starters, Publish(p) PROVE Preserved
  \* The first link finds no file, so nobody has settled on another key.
  <2>1. CASE keyFile = NoKey
    <3>1. \A q \in Starters : starting[q] \notin {"unlink", "ready"}
      BY <2>1
    <3>2. keyFile' = p /\ keyOf' = keyOf /\ keyOf[p] = p /\ p # NoKey
      BY <1>6, <2>1 DEF Publish
    <3>3. QED
      BY <1>6, <3>1, <3>2 DEF Publish
  \* Every later one takes the key of the file.
  <2>2. CASE keyFile # NoKey
    BY <1>6, <2>2 DEF Publish
  <2>3. QED
    BY <2>1, <2>2
<1>7. ASSUME NEW p \in Starters, RemoveDraft(p) PROVE Preserved
  BY <1>7 DEF RemoveDraft
<1>8. ASSUME NEW p \in Starters, Restart(p) PROVE Preserved
  BY <1>8 DEF Restart
<1>9. CASE UNCHANGED keyVars
  BY <1>9 DEF keyVars
<1>10. QED
  BY <1>1, <1>2, <1>3, <1>4, <1>5, <1>6, <1>7, <1>8, <1>9 DEF SessionKeyNext

LEMMA KeyInvariantHolds == SessionKeySpec => []KeyInvariant
BY KeyInvariantInit, KeyInvariantStep, PTL DEF SessionKeySpec

(* The processes that are ready use one key, the one of the file.          *)
THEOREM StartersShareOneKey == SessionKeySpec => []OneKey
<1>1. KeyInvariant => OneKey
  BY DEF KeyInvariant, SettledKeys, OneKey
<1>2. QED
  BY <1>1, KeyInvariantHolds, PTL

(* A key that was published stays: what it has sealed can be opened for    *)
(* ever.                                                                   *)
PublishedKeyStays == [][(keyFile \in Keys) => keyFile' = keyFile]_keyVars

(* _load_key never replaces the key of another process.                    *)
THEOREM KeyFileIsFinal == SessionKeySpec => PublishedKeyStays
<1>1. ASSUME [SessionKeyNext]_keyVars
      PROVE  [(keyFile \in Keys) => keyFile' = keyFile]_keyVars
  <2>1. NoKey \notin Keys
    BY KeyAssumption DEF Keys
  <2>2. QED
    BY <1>1, <2>1
    DEF SessionKeyNext, TouchKeyFile, StartUp, FindKey, DrawKey, WriteDraft,
        Publish, RemoveDraft, Restart, keyVars
<1>2. QED
  BY <1>1, PTL DEF SessionKeySpec, PublishedKeyStays
-----------------------------------------------------------------------------
(* The archives of scripts/backup.py and what scripts/restore.py undoes.   *)

Holding(k) == IF k \in Versioned THEN 0..MaxChanges ELSE SUBSET RunIds
Archives == UNION {[D -> (0..MaxChanges) \cup SUBSET RunIds] : D \in SUBSET Kinds}
IsArchive(a) == DOMAIN a \subseteq Kinds /\ \A k \in DOMAIN a : a[k] \in Holding(k)

Tools == [step : {"idle", "open", "database", "copy", "zip", "publish", "overwrite"},
          path : Paths \cup {"none"}, from : Paths \cup {"none"},
          todo : Seq(Kinds), payload : Archives, asked : SUBSET Kinds,
          written : SUBSET Kinds]

BackupShapes ==
  /\ DOMAIN live = Kinds /\ IsArchive(live)
  /\ app \in [up : BOOLEAN, known : SUBSET RunIds, fresh : SUBSET RunIds,
              doomed : SUBSET RunIds]
  /\ DOMAIN archives = Paths /\ \A p \in Paths : IsArchive(archives[p])
  /\ leftover \subseteq Paths
  /\ tool \in Tools /\ IsArchive(tool.payload)
  /\ \A u \in undo : u.path \in Rollbacks /\ u.lost[1] \in Kinds
  /\ scripts \in 0..MaxScripts

(* The runs of a database have their images, but for those ever purged.    *)
HaveImages(db) == db \subseteq live["captures"] \cup everPurged

ImagesStay ==
  /\ HaveImages(live["db"]) /\ HaveImages(app.fresh)
  /\ app.doomed \subseteq everPurged

Copied(a) ==
  /\ "db" \in DOMAIN a /\ HaveImages(a["db"])
  /\ "captures" \in DOMAIN a => a["db"] \ a["captures"] \subseteq everPurged

Always == {"db", "key", "profiles", "env"}
IsWhole(a) == Always \subseteq DOMAIN a /\ Copied(a)

ArchivesAreWhole == \A p \in Paths : Saved(p) => IsWhole(archives[p])

(* The copy begins with the database, which it copies once.                *)
CopyIsSound ==
  /\ tool.step \in {"open", "database"} => DOMAIN tool.payload = {}
  /\ tool.step = "copy" =>
       /\ Len(tool.todo) > 0
       /\ \A i \in DOMAIN tool.todo : i > 1 => tool.todo[i] # "db"
       /\ IF tool.todo[1] = "db" THEN DOMAIN tool.payload = {} ELSE Copied(tool.payload)
       /\ \A k \in Always : \/ k \in DOMAIN tool.payload
                            \/ \E i \in DOMAIN tool.todo : tool.todo[i] = k
  /\ tool.step \in {"zip", "publish"} => IsWhole(tool.payload)

Distinct(s) == \A i, j \in DOMAIN s : s[i] = s[j] => i = j

(* The rollback archive holds what a restoration is going to overwrite,    *)
(* but for what the application has written since it was copied.           *)
Rollback(k) ==
  k \in DOMAIN archives[tool.path] /\ archives[tool.path][k] = live[k]

RestoreIsSound ==
  /\ tool.step \in {"open", "database", "overwrite"} => Restoring
  /\ tool.step # "idle" /\ ~Restoring => tool.path \in Outputs
  /\ Restoring =>
       /\ tool.step # "idle"
       /\ tool.from \in Paths /\ Saved(tool.from) /\ tool.path \in Rollbacks
       /\ tool.step # "overwrite" =>
            /\ ~Saved(tool.path)
            /\ \A k \in DOMAIN tool.payload \ tool.written : tool.payload[k] = live[k]
       /\ tool.step = "overwrite" =>
            /\ Saved(tool.path) /\ Len(tool.todo) > 0 /\ Distinct(tool.todo)
            /\ Always \subseteq DOMAIN tool.payload
            /\ \A i \in DOMAIN tool.todo :
                 tool.todo[i] \notin {"secrets", "captures"} \cup tool.written
                   => Rollback(tool.todo[i])

UndoIsSound == RestoreIsReversible /\ \A u \in undo : Saved(u.path)

BackupInvariant ==
  /\ BackupShapes /\ ImagesStay /\ ArchivesAreWhole /\ CopyIsSound
  /\ RestoreIsSound /\ UndoIsSound

-----------------------------------------------------------------------------
(* The sequences of kinds.                                                 *)

LEMMA TailKeeps ==
  ASSUME NEW S, NEW s \in Seq(S), Len(s) > 0
  PROVE  /\ Tail(s) \in Seq(S) /\ Len(Tail(s)) = Len(s) - 1 /\ Len(s) \in Nat
         /\ Head(s) = s[1] /\ s[1] \in S /\ 1 \in DOMAIN s
         /\ \A i \in DOMAIN Tail(s) : /\ i \in Nat /\ i >= 1
                                      /\ i + 1 \in DOMAIN s /\ Tail(s)[i] = s[i + 1]
         /\ \A i \in DOMAIN s : i = 1 \/ (i - 1 \in DOMAIN Tail(s) /\ Tail(s)[i - 1] = s[i])
<1>1. s # <<>> /\ Len(s) \in Nat /\ DOMAIN s = 1..Len(s)
  BY LenProperties
<1>2. /\ Head(s) \in S /\ Tail(s) \in Seq(S) /\ Len(Tail(s)) = Len(s) - 1
      /\ \A i \in 1..Len(Tail(s)) : Tail(s)[i] = s[i + 1]
  BY <1>1, HeadTailProperties
<1>3. DOMAIN Tail(s) = 1..(Len(s) - 1)
  BY <1>2, LenProperties
<1>4. Head(s) = s[1]
  BY <1>1
<1>5. QED
  BY <1>1, <1>2, <1>3, <1>4

(* Two lists one after the other.                                          *)
LEMMA Joined ==
  ASSUME NEW S, NEW s \in Seq(S), NEW t \in Seq(S)
  PROVE  /\ s \o t \in Seq(S) /\ Len(s \o t) = Len(s) + Len(t)
         /\ \A i \in DOMAIN s : i \in DOMAIN (s \o t) /\ (s \o t)[i] = s[i]
         /\ \A i \in DOMAIN (s \o t) :
              \/ i \in DOMAIN s
              \/ i - Len(s) \in DOMAIN t /\ (s \o t)[i] = t[i - Len(s)]
         /\ DOMAIN s = 1..Len(s) /\ Len(s) \in Nat
<1>1. /\ s \o t \in Seq(S) /\ Len(s \o t) = Len(s) + Len(t)
      /\ \A i \in 1..(Len(s) + Len(t)) :
           (s \o t)[i] = IF i <= Len(s) THEN s[i] ELSE t[i - Len(s)]
  BY ConcatProperties
<1>2. /\ Len(s) \in Nat /\ DOMAIN s = 1..Len(s)
      /\ Len(t) \in Nat /\ DOMAIN t = 1..Len(t)
      /\ DOMAIN (s \o t) = 1..(Len(s) + Len(t))
  BY <1>1, LenProperties
<1>3. QED
  BY <1>1, <1>2

LEMMA IfIs ==
  ASSUME NEW c, NEW k \in Kinds
  PROVE  /\ If(c, <<k>>) \in Seq(Kinds)
         /\ \A i \in DOMAIN If(c, <<k>>) : i = 1 /\ If(c, <<k>>)[i] = k
<1>1. CASE c
  BY <1>1 DEF If
<1>2. CASE ~c
  BY <1>2 DEF If
<1>3. QED
  BY <1>1, <1>2

(* create_backup copies the database, once, and the key, the profiles and  *)
(* .env whatever it is asked for.                                          *)
LEMMA WantedIs ==
  ASSUME NEW asked
  PROVE  /\ Wanted(asked) \in Seq(Kinds) /\ Len(Wanted(asked)) > 0
         /\ Wanted(asked)[1] = "db"
         /\ \A i \in DOMAIN Wanted(asked) : i > 1 => Wanted(asked)[i] # "db"
         /\ \A k \in Always : \E i \in DOMAIN Wanted(asked) : Wanted(asked)[i] = k
<1> DEFINE a == AlwaysCopied
           b == If("secrets" \in asked, <<"secrets">>)
           c == If("captures" \in asked, <<"captures">>)
<1>1. /\ a \in Seq(Kinds) /\ Len(a) = 4 /\ DOMAIN a = 1..4
      /\ a[1] = "db" /\ a[2] = "key" /\ a[3] = "profiles" /\ a[4] = "env"
  BY DEF AlwaysCopied, Kinds
<1>2. /\ b \in Seq(Kinds) /\ \A i \in DOMAIN b : b[i] = "secrets"
      /\ c \in Seq(Kinds) /\ \A i \in DOMAIN c : c[i] = "captures"
  BY IfIs DEF Kinds
<1> DEFINE ab == a \o b
           abc == ab \o c
<1> HIDE DEF a, b, c
<1>3. /\ ab \in Seq(Kinds) /\ Len(ab) = Len(a) + Len(b)
      /\ \A i \in DOMAIN a : i \in DOMAIN ab /\ ab[i] = a[i]
      /\ \A i \in DOMAIN ab :
           i \in DOMAIN a \/ (i - Len(a) \in DOMAIN b /\ ab[i] = b[i - Len(a)])
  <2>1. a \in Seq(Kinds) /\ b \in Seq(Kinds)
    BY <1>1, <1>2
  <2>2. QED
    BY <2>1, Joined, Zenon
<1> HIDE DEF ab
<1>4. /\ abc \in Seq(Kinds) /\ Len(abc) = Len(ab) + Len(c)
      /\ \A i \in DOMAIN ab : i \in DOMAIN abc /\ abc[i] = ab[i]
      /\ \A i \in DOMAIN abc :
           i \in DOMAIN ab \/ (i - Len(ab) \in DOMAIN c /\ abc[i] = c[i - Len(ab)])
  <2>1. ab \in Seq(Kinds) /\ c \in Seq(Kinds)
    BY <1>2, <1>3
  <2>2. QED
    BY <2>1, Joined, Zenon
<1>5. Wanted(asked) = abc
  BY DEF Wanted, a, b, c, ab
<1> HIDE DEF abc
<1>6. Len(b) \in Nat /\ Len(c) \in Nat
  BY <1>2, LenProperties
<1>7. \A i \in 1..4 : i \in DOMAIN abc /\ abc[i] = a[i]
  BY <1>1, <1>3, <1>4
<1>8. \A i \in DOMAIN abc : i \in 1..4 \/ abc[i] \in {"secrets", "captures"}
  BY <1>1, <1>2, <1>3, <1>4
<1>9. /\ Len(abc) > 0 /\ abc[1] = "db"
      /\ \A i \in DOMAIN abc : i > 1 => abc[i] # "db"
  <2>1. \A i \in 1..4 : i > 1 => a[i] # "db"
    BY <1>1
  <2>2. \A i \in DOMAIN abc : i > 1 => abc[i] # "db"
    BY <1>7, <1>8, <2>1
  <2>3. QED
    BY <1>1, <1>3, <1>4, <1>6, <1>7, <2>2
<1>10. \A k \in Always : \E i \in DOMAIN abc : abc[i] = k
  <2>1. \A k \in Always : \E i \in 1..4 : a[i] = k
    BY <1>1 DEF Always
  <2>2. QED
    BY <1>7, <2>1
<1>11. QED
  BY <1>4, <1>5, <1>9, <1>10

LEMMA DistinctJoin ==
  ASSUME NEW s \in Seq(Kinds), NEW k \in Kinds, NEW c, Distinct(s),
         \A i \in DOMAIN s : s[i] # k
  PROVE  /\ s \o If(c, <<k>>) \in Seq(Kinds) /\ Distinct(s \o If(c, <<k>>))
         /\ Len(s \o If(c, <<k>>)) >= Len(s)
         /\ \A i \in DOMAIN (s \o If(c, <<k>>)) :
              \/ (s \o If(c, <<k>>))[i] = k
              \/ i \in DOMAIN s /\ (s \o If(c, <<k>>))[i] = s[i]
<1> DEFINE t == If(c, <<k>>)
<1>1. t \in Seq(Kinds) /\ \A i \in DOMAIN t : i = 1 /\ t[i] = k
  BY IfIs
<1> HIDE DEF t
<1>2. /\ s \o t \in Seq(Kinds) /\ Len(s \o t) = Len(s) + Len(t)
      /\ \A i \in DOMAIN s : i \in DOMAIN (s \o t) /\ (s \o t)[i] = s[i]
      /\ \A i \in DOMAIN (s \o t) :
           \/ i \in DOMAIN s
           \/ i - Len(s) \in DOMAIN t /\ (s \o t)[i] = t[i - Len(s)]
      /\ DOMAIN s = 1..Len(s) /\ Len(s) \in Nat
  BY <1>1, Joined
<1>3. Len(t) \in Nat
  BY <1>1, LenProperties
<1>4. \A i \in DOMAIN (s \o t) : i \in Nat
  BY <1>2, LenProperties
<1>5. \A i \in DOMAIN (s \o t) :
        \/ i \in DOMAIN s /\ (s \o t)[i] = s[i]
        \/ i = Len(s) + 1 /\ (s \o t)[i] = k
  BY <1>1, <1>2, <1>4
<1>6. Distinct(s \o t)
  BY <1>5 DEF Distinct
<1>7. QED
  BY <1>2, <1>3, <1>5, <1>6 DEF t

(* restore_backup overwrites each kind once.                               *)
LEMMA OverwrittenIs ==
  ASSUME NEW asked
  PROVE  /\ Overwritten(asked) \in Seq(Kinds) /\ Len(Overwritten(asked)) > 0
         /\ Distinct(Overwritten(asked))
<1> DEFINE a == <<"db", "key", "profiles">>
           b == a \o If("env" \in asked, <<"env">>)
           c == b \o If("secrets" \in asked, <<"secrets">>)
           d == c \o If("captures" \in asked, <<"captures">>)
<1>1. /\ a \in Seq(Kinds) /\ Len(a) = 3 /\ Distinct(a)
      /\ \A i \in DOMAIN a : a[i] \in {"db", "key", "profiles"}
  BY DEF Kinds, Distinct
<1> HIDE DEF a
<1>2. /\ b \in Seq(Kinds) /\ Len(b) >= Len(a) /\ Distinct(b)
      /\ \A i \in DOMAIN b : b[i] \in {"db", "key", "profiles", "env"}
  <2>1. "env" \in Kinds /\ \A i \in DOMAIN a : a[i] # "env"
    BY <1>1 DEF Kinds
  <2>2. /\ b \in Seq(Kinds) /\ Len(b) >= Len(a) /\ Distinct(b)
        /\ \A i \in DOMAIN b : b[i] = "env" \/ (i \in DOMAIN a /\ b[i] = a[i])
    <3>1. a \in Seq(Kinds) /\ Distinct(a)
      BY <1>1
    <3>2. QED
      BY <2>1, <3>1, DistinctJoin
  <2>3. QED
    BY <1>1, <2>2
<1> HIDE DEF b
<1>3. /\ c \in Seq(Kinds) /\ Len(c) >= Len(b) /\ Distinct(c)
      /\ \A i \in DOMAIN c : c[i] \in {"db", "key", "profiles", "env", "secrets"}
  BY <1>2, DistinctJoin DEF Kinds
<1> HIDE DEF c
<1>4. d \in Seq(Kinds) /\ Len(d) >= Len(c) /\ Distinct(d)
  BY <1>3, DistinctJoin DEF Kinds
<1> HIDE DEF d
<1>5. Len(b) \in Nat /\ Len(c) \in Nat /\ Len(d) \in Nat
  BY <1>2, <1>3, <1>4, LenProperties
<1>6. Overwritten(asked) = d
  BY DEF Overwritten, a, b, c, d
<1>7. QED
  BY <1>1, <1>2, <1>3, <1>4, <1>5, <1>6

-----------------------------------------------------------------------------
(* The steps of the application, which may run whatever a script does.     *)

Apps == [up : BOOLEAN, known : SUBSET RunIds, fresh : SUBSET RunIds,
         doomed : SUBSET RunIds]

ImagesGrow ==
  /\ everPurged \subseteq everPurged'
  /\ live["captures"] \cup everPurged \subseteq live'["captures"] \cup everPurged'

(* What was copied stays as good as it was.                                *)
LEMMA CopiesStay ==
  ASSUME ImagesGrow, NEW a, Copied(a)
  PROVE  /\ "db" \in DOMAIN a /\ a["db"] \subseteq live'["captures"] \cup everPurged'
         /\ "captures" \in DOMAIN a => a["db"] \ a["captures"] \subseteq everPurged'
BY DEF ImagesGrow, Copied, HaveImages

(* What the application writes after it was copied is noted as written.    *)
Noted ==
  /\ tool' \in Tools /\ tool'.step = tool.step /\ tool'.path = tool.path
  /\ tool'.from = tool.from /\ tool'.todo = tool.todo
  /\ tool'.payload = tool.payload /\ tool.written \subseteq tool'.written
  /\ \A k \in Kinds :
       Restoring /\ k \in DOMAIN tool.payload /\ k \notin tool'.written
         => live'[k] = live[k]

LEMMA AppStep ==
  ASSUME BackupInvariant, UNCHANGED <<archives, leftover, undo, scripts>>,
         ImagesGrow, DOMAIN live' = Kinds, IsArchive(live'), app' \in Apps, ImagesStay',
         Noted
  PROVE  BackupInvariant'
<1>1. BackupShapes'
  BY DEF BackupInvariant, BackupShapes, Apps, Noted
<1>2. ArchivesAreWhole'
  <2>1. ASSUME NEW p \in Paths, Saved(p)
        PROVE  Always \subseteq DOMAIN archives[p] /\ Copied(archives[p])
    BY <2>1 DEF BackupInvariant, ArchivesAreWhole, IsWhole
  <2>2. ASSUME NEW p \in Paths, Saved(p)'
        PROVE  IsWhole(archives[p])'
    <3>1. archives' = archives /\ Saved(p)
      BY <2>2 DEF Saved, NoArchive
    <3>2. Copied(archives[p])'
      BY <2>1, <3>1, CopiesStay DEF Copied, HaveImages
    <3>3. QED
      BY <2>1, <3>1, <3>2 DEF IsWhole
  <2>3. QED
    BY <2>2 DEF ArchivesAreWhole
<1>3. CopyIsSound'
  <2>1. /\ tool'.step = tool.step /\ tool'.todo = tool.todo
        /\ tool'.payload = tool.payload
    BY DEF Noted
  <2>2. Copied(tool.payload) => Copied(tool.payload)'
    BY <2>1, CopiesStay DEF Copied, HaveImages
  <2>3. IsWhole(tool.payload) => IsWhole(tool.payload)'
    BY <2>1, <2>2 DEF IsWhole
  <2>4. QED
    BY <2>1, <2>2, <2>3 DEF BackupInvariant, CopyIsSound
<1>4. RestoreIsSound'
  <2>1. PICK new : tool' = new
    OBVIOUS
  <2>2. /\ new.step = tool.step /\ new.path = tool.path /\ new.from = tool.from
        /\ new.todo = tool.todo /\ new.payload = tool.payload
        /\ tool.written \subseteq new.written
        /\ \A k \in Kinds : Restoring /\ k \in DOMAIN tool.payload /\ k \notin new.written
                               => live'[k] = live[k]
    BY <2>1 DEF Noted
  <2>3. ASSUME Restoring, tool.step # "overwrite",
               NEW k \in DOMAIN tool.payload \ new.written
        PROVE  tool.payload[k] = live'[k]
    <3>1. k \in Kinds
      BY DEF BackupInvariant, BackupShapes, IsArchive
    <3>2. tool.payload[k] = live[k]
      BY <2>2, <2>3 DEF BackupInvariant, RestoreIsSound
    <3>3. QED
      BY <2>2, <2>3, <3>1, <3>2
  <2>4. ASSUME Restoring, tool.step = "overwrite", NEW i \in DOMAIN tool.todo,
               tool.todo[i] \notin {"secrets", "captures"} \cup new.written
        PROVE  /\ tool.todo[i] \in DOMAIN archives[tool.path]
               /\ archives[tool.path][tool.todo[i]] = live'[tool.todo[i]]
    <3>1. PICK k : k = tool.todo[i]
      OBVIOUS
    <3>2. k \in Kinds
      <4>1. tool.todo \in Seq(Kinds)
        BY DEF BackupInvariant, BackupShapes, Tools
      <4>2. QED
        BY <3>1, <4>1, ElementOfSeq, LenProperties
    <3>3. k \in Always /\ k \in DOMAIN tool.payload
      BY <2>4, <3>1, <3>2 DEF Always, Kinds, BackupInvariant, RestoreIsSound
    <3>4. Rollback(k)
      BY <2>2, <2>4, <3>1 DEF BackupInvariant, RestoreIsSound
    <3>5. QED
      BY <2>2, <2>4, <3>1, <3>2, <3>3, <3>4 DEF Rollback
  <2>5. QED
    BY <2>1, <2>2, <2>3, <2>4
    DEF BackupInvariant, RestoreIsSound, Restoring, Rollback, Saved, NoArchive
<1>5. UndoIsSound'
  BY DEF BackupInvariant, UndoIsSound, RestoreIsReversible, Saved
<1>6. QED
  BY <1>1, <1>2, <1>3, <1>4, <1>5 DEF BackupInvariant

LEMMA Idle ==
  ASSUME BackupInvariant
  PROVE  /\ DOMAIN live = Kinds /\ IsArchive(live) /\ app \in Apps
         /\ live["db"] \in SUBSET RunIds /\ live["captures"] \in SUBSET RunIds
         /\ \A k \in Kinds : live[k] \in Holding(k)
BY DEF BackupInvariant, BackupShapes, IsArchive, Holding, Apps, Kinds, Versioned

LEMMA WritesAreNoted ==
  ASSUME BackupInvariant, NEW k \in Kinds, NEW x \in Holding(k), Write(k, x)
  PROVE  /\ DOMAIN live' = Kinds /\ IsArchive(live') /\ live'[k] = x
         /\ \A j \in Kinds : j # k => live'[j] = live[j]
         /\ Noted
<1>1. /\ DOMAIN live' = Kinds /\ IsArchive(live') /\ live'[k] = x
      /\ \A j \in Kinds : j # k => live'[j] = live[j]
  BY Idle DEF IsArchive, Write
<1>2. tool \in Tools
  BY DEF BackupInvariant, BackupShapes
<1>3. CASE Restoring /\ k \in DOMAIN tool.payload
  <2>1. PICK new : new = [tool EXCEPT !.written = @ \cup {k}]
    OBVIOUS
  <2>2. tool' = new
    BY <1>3, <2>1 DEF Write
  <2>3. /\ new \in Tools /\ new.step = tool.step /\ new.path = tool.path
        /\ new.from = tool.from /\ new.todo = tool.todo
        /\ new.payload = tool.payload /\ new.written = tool.written \cup {k}
    BY <1>2, <2>1 DEF Tools
  <2>4. QED
    BY <1>1, <2>2, <2>3 DEF Noted
<1>4. CASE ~(Restoring /\ k \in DOMAIN tool.payload)
  <2>1. tool' = tool
    BY <1>4, Zenon DEF Write
  <2>2. \A j \in Kinds : Restoring /\ j \in DOMAIN tool.payload => live'[j] = live[j]
    BY <1>1, <1>4
  <2>3. QED
    BY <1>1, <1>2, <2>1, <2>2 DEF Noted
<1>5. QED
  BY <1>1, <1>3, <1>4

LEMMA NothingIsNoted ==
  ASSUME BackupInvariant, live' = live, tool' = tool
  PROVE  Noted
BY DEF Noted, BackupInvariant, BackupShapes

LEMMA ApplicationSteps ==
  ASSUME BackupInvariant,
         \/ \E i \in RunIds :
              Photograph(i) \/ CommitRun(i) \/ ExpireRun(i) \/ UnlinkImage(i)
         \/ \E k \in Changing : ChangeData(k)
         \/ StopApp \/ StartApp
  PROVE  BackupInvariant'
<1>0. /\ DOMAIN live = Kinds /\ IsArchive(live) /\ app \in Apps
      /\ live["db"] \in SUBSET RunIds /\ live["captures"] \in SUBSET RunIds
      /\ \A k \in Kinds : live[k] \in Holding(k)
  BY Idle
<1>1. /\ live["db"] \subseteq live["captures"] \cup everPurged
      /\ app.fresh \subseteq live["captures"] \cup everPurged
      /\ app.doomed \subseteq everPurged
  BY DEF BackupInvariant, ImagesStay, HaveImages
<1>2. ASSUME NEW k \in Kinds, NEW x \in Holding(k), Write(k, x)
      PROVE  /\ DOMAIN live' = Kinds /\ IsArchive(live') /\ live'[k] = x
             /\ \A j \in Kinds : j # k => live'[j] = live[j]
             /\ Noted
  BY <1>2, WritesAreNoted
<1>3. "db" \in Kinds /\ "captures" \in Kinds /\ "db" \notin Versioned /\ "captures" \notin Versioned
  BY DEF Kinds, Versioned
<1>4. ASSUME NEW i \in RunIds, Photograph(i)
      PROVE  BackupInvariant'
  <2>1. PICK x : x = live["captures"] \cup {i}
    OBVIOUS
  <2>2. x \in Holding("captures") /\ Write("captures", x)
    BY <1>0, <1>3, <1>4, <2>1 DEF Photograph, Holding
  <2>3. /\ DOMAIN live' = Kinds /\ IsArchive(live') /\ live'["captures"] = x
        /\ live'["db"] = live["db"] /\ Noted
    BY <1>2, <1>3, <2>2
  <2>4. /\ app' \in Apps /\ app'.fresh = app.fresh \cup {i} /\ app'.doomed = app.doomed
        /\ everPurged' = everPurged
    BY <1>0, <1>4 DEF Photograph, Apps
  <2>5. ImagesGrow /\ ImagesStay'
    BY <1>1, <2>1, <2>3, <2>4 DEF ImagesGrow, ImagesStay, HaveImages
  <2>6. QED
    BY <1>0, <1>4, <2>3, <2>4, <2>5, AppStep DEF Photograph
<1>5. ASSUME NEW i \in RunIds, CommitRun(i)
      PROVE  BackupInvariant'
  <2>1. PICK x : x = live["db"] \cup {i}
    OBVIOUS
  <2>2. x \in Holding("db") /\ Write("db", x)
    BY <1>0, <1>3, <1>5, <2>1 DEF CommitRun, Holding
  <2>3. /\ DOMAIN live' = Kinds /\ IsArchive(live') /\ live'["db"] = x
        /\ live'["captures"] = live["captures"] /\ Noted
    BY <1>2, <1>3, <2>2
  <2>4. /\ app' \in Apps /\ app'.fresh = app.fresh \ {i} /\ app'.doomed = app.doomed
        /\ everPurged' = everPurged /\ i \in app.fresh
    BY <1>0, <1>5 DEF CommitRun, Apps
  <2>5. ImagesGrow /\ ImagesStay'
    BY <1>1, <2>1, <2>3, <2>4 DEF ImagesGrow, ImagesStay, HaveImages
  <2>6. QED
    BY <1>0, <1>5, <2>3, <2>4, <2>5, AppStep DEF CommitRun
<1>6. ASSUME NEW i \in RunIds, ExpireRun(i)
      PROVE  BackupInvariant'
  <2>1. PICK x : x = live["db"] \ {i}
    OBVIOUS
  <2>2. x \in Holding("db") /\ Write("db", x)
    BY <1>0, <1>3, <1>6, <2>1 DEF ExpireRun, Holding
  <2>3. /\ DOMAIN live' = Kinds /\ IsArchive(live') /\ live'["db"] = x
        /\ live'["captures"] = live["captures"] /\ Noted
    BY <1>2, <1>3, <2>2
  <2>4. /\ app' \in Apps /\ app'.fresh = app.fresh /\ app'.doomed = app.doomed \cup {i}
        /\ everPurged' = everPurged \cup {i}
    BY <1>0, <1>6 DEF ExpireRun, Apps
  <2>5. ImagesGrow /\ ImagesStay'
    BY <1>1, <2>1, <2>3, <2>4 DEF ImagesGrow, ImagesStay, HaveImages
  <2>6. QED
    BY <1>0, <1>6, <2>3, <2>4, <2>5, AppStep DEF ExpireRun
<1>7. ASSUME NEW i \in RunIds, UnlinkImage(i)
      PROVE  BackupInvariant'
  <2>1. PICK x : x = live["captures"] \ {i}
    OBVIOUS
  <2>2. x \in Holding("captures") /\ Write("captures", x)
    BY <1>0, <1>3, <1>7, <2>1 DEF UnlinkImage, Holding
  <2>3. /\ DOMAIN live' = Kinds /\ IsArchive(live') /\ live'["captures"] = x
        /\ live'["db"] = live["db"] /\ Noted
    BY <1>2, <1>3, <2>2
  <2>4. /\ app' \in Apps /\ app'.fresh = app.fresh /\ app'.doomed = app.doomed \ {i}
        /\ everPurged' = everPurged /\ i \in app.doomed
    BY <1>0, <1>7 DEF UnlinkImage, Apps
  <2>5. ImagesGrow /\ ImagesStay'
    BY <1>1, <2>1, <2>3, <2>4 DEF ImagesGrow, ImagesStay, HaveImages
  <2>6. QED
    BY <1>0, <1>7, <2>3, <2>4, <2>5, AppStep DEF UnlinkImage
<1>8. ASSUME NEW k \in Changing, ChangeData(k)
      PROVE  BackupInvariant'
  <2>1. PICK x : x = live[k] + 1
    OBVIOUS
  <2>2. k \in Kinds /\ k \in Versioned /\ k # "db" /\ k # "captures"
    BY BackupAssumption DEF Kinds, Versioned
  <2>3. x \in Holding(k) /\ Write(k, x)
    <3>1. live[k] \in 0..MaxChanges /\ MaxChanges \in Nat
      BY <1>0, <2>2, BackupAssumption DEF Holding
    <3>2. QED
      BY <1>8, <2>1, <2>2, <3>1 DEF ChangeData, Holding
  <2>4. /\ DOMAIN live' = Kinds /\ IsArchive(live')
        /\ live'["captures"] = live["captures"] /\ live'["db"] = live["db"]
        /\ Noted
    BY <1>2, <1>3, <2>2, <2>3
  <2>5. app' = app /\ everPurged' = everPurged
    BY <1>8 DEF ChangeData
  <2>6. ImagesGrow /\ ImagesStay'
    BY <1>1, <2>4, <2>5 DEF ImagesGrow, ImagesStay, HaveImages
  <2>7. QED
    BY <1>0, <1>8, <2>4, <2>5, <2>6, AppStep DEF ChangeData
<1>9. CASE StopApp \/ StartApp
  <2>1. /\ app' \in Apps /\ live' = live /\ everPurged' = everPurged
        /\ app'.fresh \subseteq app.fresh /\ app'.doomed \subseteq app.doomed
    BY <1>0, <1>9 DEF StopApp, StartApp, Apps
  <2>2. ImagesGrow /\ ImagesStay'
    BY <1>1, <2>1 DEF ImagesGrow, ImagesStay, HaveImages
  <2>3. Noted
    BY <1>9, <2>1, NothingIsNoted DEF StopApp, StartApp
  <2>4. QED
    BY <1>0, <1>9, <2>1, <2>2, <2>3, AppStep DEF StopApp, StartApp
<1>10. QED
  BY <1>4, <1>5, <1>6, <1>7, <1>8, <1>9

-----------------------------------------------------------------------------
(* The steps of a script up to its archive.                                *)

LEMMA ToolStep ==
  ASSUME BackupInvariant, UNCHANGED <<live, app, archives, undo, everPurged>>,
         leftover' \subseteq Paths, scripts' \in 0..MaxScripts,
         tool' \in Tools, IsArchive(tool'.payload), CopyIsSound', RestoreIsSound'
  PROVE  BackupInvariant'
<1>1. BackupShapes'
  BY DEF BackupInvariant, BackupShapes
<1>2. ImagesStay' /\ ArchivesAreWhole'
  BY DEF BackupInvariant, ImagesStay, ArchivesAreWhole, IsWhole, Copied, HaveImages, Saved
<1>3. UndoIsSound'
  BY DEF BackupInvariant, UndoIsSound, RestoreIsReversible, Saved
<1>4. QED
  BY <1>1, <1>2, <1>3 DEF BackupInvariant

LEMMA NoArchiveIs == NoArchive \in Archives /\ IsArchive(NoArchive) /\ DOMAIN NoArchive = {}
<1>1. NoArchive \in [{} -> (0..MaxChanges) \cup SUBSET RunIds] /\ DOMAIN NoArchive = {}
  BY DEF NoArchive
<1>2. QED
  BY <1>1 DEF Archives, IsArchive

(* What a tool is that no script uses, and that one has just taken.        *)
LEMMA NoToolIs ==
  /\ NoTool \in Tools /\ IsArchive(NoTool.payload) /\ NoTool.step = "idle"
  /\ NoTool.from = "none"
BY NoArchiveIs DEF NoTool, Tools

LEMMA IdleTool ==
  ASSUME tool' = NoTool
  PROVE  CopyIsSound' /\ RestoreIsSound'
<1>1. tool'.step = "idle" /\ tool'.from = "none"
  BY NoToolIs
<1>2. QED
  BY <1>1 DEF CopyIsSound, RestoreIsSound, Restoring

LEMMA ToolFacts ==
  ASSUME BackupInvariant
  PROVE  /\ tool \in Tools /\ IsArchive(tool.payload) /\ leftover \subseteq Paths
         /\ scripts \in 0..MaxScripts /\ MaxScripts \in Nat
         /\ tool.todo \in Seq(Kinds) /\ tool.payload \in Archives
BY BackupAssumption DEF BackupInvariant, BackupShapes, Tools

LEMMA StartBackupStep ==
  ASSUME BackupInvariant, NEW path \in Outputs, NEW asked, StartBackup(path, asked)
  PROVE  BackupInvariant'
<1>1. PICK todo \in Seq(Kinds) :
         /\ todo = Wanted(asked) /\ Len(todo) > 0 /\ todo[1] = "db"
         /\ \A i \in DOMAIN todo : i > 1 => todo[i] # "db"
         /\ \A k \in Always : \E i \in DOMAIN todo : todo[i] = k
  BY WantedIs
<1>2. PICK new : new = [NoTool EXCEPT !.step = "copy", !.path = path, !.todo = todo]
  OBVIOUS
<1>3. tool' = new /\ UNCHANGED <<live, app, archives, leftover, undo, everPurged>>
  BY <1>1, <1>2 DEF StartBackup
<1>4. /\ new \in Tools /\ new.step = "copy" /\ new.path = path /\ new.todo = todo
      /\ new.from = "none" /\ new.payload = NoArchive
  <2>1. path \in Paths
    BY DEF Paths
  <2>2. QED
    BY <1>1, <1>2, <2>1, NoToolIs DEF Tools, NoTool
<1>5. CopyIsSound'
  BY <1>1, <1>3, <1>4, NoArchiveIs DEF CopyIsSound
<1>6. RestoreIsSound'
  BY <1>3, <1>4 DEF RestoreIsSound, Restoring
<1>7. scripts' \in 0..MaxScripts
  BY ToolFacts DEF StartBackup
<1>8. IsArchive(new.payload)
  BY <1>4, NoArchiveIs
<1>9. QED
  BY <1>3, <1>4, <1>5, <1>6, <1>7, <1>8, ToolFacts, ToolStep

LEMMA StartRestoreStep ==
  ASSUME BackupInvariant, NEW from \in Paths, NEW rollback \in Rollbacks,
         NEW asked \in RestoreOptions, NEW forced \in BOOLEAN,
         StartRestore(from, rollback, asked, forced)
  PROVE  BackupInvariant'
<1>1. PICK new : new = [NoTool EXCEPT !.step = "open", !.path = rollback, !.from = from,
                                      !.asked = asked]
  OBVIOUS
<1>2. tool' = new /\ UNCHANGED <<live, app, archives, leftover, undo, everPurged>>
  BY <1>1 DEF StartRestore
<1>3. /\ new \in Tools /\ new.step = "open" /\ new.path = rollback /\ new.from = from
      /\ new.payload = NoArchive
  <2>1. rollback \in Paths /\ asked \in SUBSET Kinds
    BY BackupAssumption DEF Paths, Kinds
  <2>2. QED
    BY <1>1, <2>1, NoToolIs DEF Tools, NoTool
<1>4. CopyIsSound'
  BY <1>2, <1>3, NoArchiveIs DEF CopyIsSound
<1>5. from # "none" /\ Saved(from) /\ ~Saved(rollback)
  BY BackupAssumption DEF StartRestore, Paths
<1>6. RestoreIsSound'
  BY <1>2, <1>3, <1>5, NoArchiveIs DEF RestoreIsSound, Restoring, Saved
<1>7. scripts' \in 0..MaxScripts
  BY ToolFacts DEF StartRestore
<1>8. IsArchive(new.payload)
  BY <1>3, NoArchiveIs
<1>9. QED
  BY <1>2, <1>3, <1>4, <1>6, <1>7, <1>8, ToolFacts, ToolStep

LEMMA OpenArchiveStep ==
  ASSUME BackupInvariant, OpenArchive
  PROVE  BackupInvariant'
<1>1. PICK new : new = [tool EXCEPT !.step = "database"]
  OBVIOUS
<1>2. tool' = new /\ UNCHANGED <<live, app, archives, leftover, undo, everPurged, scripts>>
  BY <1>1 DEF OpenArchive
<1>3. /\ new \in Tools /\ new.step = "database" /\ new.path = tool.path
      /\ new.from = tool.from /\ new.written = tool.written /\ new.payload = tool.payload
  BY <1>1, ToolFacts DEF Tools
<1>4. CopyIsSound'
  BY <1>2, <1>3 DEF BackupInvariant, OpenArchive, CopyIsSound
<1>5. RestoreIsSound'
  BY <1>2, <1>3 DEF BackupInvariant, OpenArchive, RestoreIsSound, Restoring, Saved
<1>6. QED
  BY <1>2, <1>3, <1>4, <1>5, ToolFacts, ToolStep

LEMMA StartDatabaseStep ==
  ASSUME BackupInvariant, StartDatabase
  PROVE  BackupInvariant'
<1>1. PICK todo \in Seq(Kinds) :
         /\ todo = Wanted({}) /\ Len(todo) > 0 /\ todo[1] = "db"
         /\ \A i \in DOMAIN todo : i > 1 => todo[i] # "db"
         /\ \A k \in Always : \E i \in DOMAIN todo : todo[i] = k
  BY WantedIs
<1>2. PICK new : new = [tool EXCEPT !.step = "copy", !.todo = todo]
  OBVIOUS
<1>3. tool' = new /\ UNCHANGED <<live, app, archives, leftover, undo, everPurged, scripts>>
  BY <1>1, <1>2 DEF StartDatabase
<1>4. /\ new \in Tools /\ new.step = "copy" /\ new.path = tool.path /\ new.todo = todo
      /\ new.from = tool.from /\ new.written = tool.written /\ new.payload = tool.payload
  BY <1>1, <1>2, ToolFacts DEF Tools
<1>5. tool.step = "database" /\ DOMAIN tool.payload = {}
  BY DEF BackupInvariant, StartDatabase, CopyIsSound
<1>6. CopyIsSound'
  BY <1>1, <1>3, <1>4, <1>5 DEF CopyIsSound
<1>7. RestoreIsSound'
  BY <1>3, <1>4, <1>5 DEF BackupInvariant, RestoreIsSound, Restoring, Saved
<1>8. QED
  BY <1>3, <1>4, <1>6, <1>7, ToolFacts, ToolStep

LEMMA WriteArchiveStep ==
  ASSUME BackupInvariant, WriteArchive
  PROVE  BackupInvariant'
<1>1. PICK new : new = [tool EXCEPT !.step = "publish"]
  OBVIOUS
<1>2. tool' = new /\ UNCHANGED <<live, app, archives, undo, everPurged, scripts>>
  BY <1>1 DEF WriteArchive
<1>3. /\ new \in Tools /\ new.step = "publish" /\ new.path = tool.path
      /\ new.from = tool.from /\ new.written = tool.written /\ new.payload = tool.payload
  BY <1>1, ToolFacts DEF Tools
<1>4. CopyIsSound'
  BY <1>2, <1>3
  DEF BackupInvariant, WriteArchive, CopyIsSound, IsWhole, Copied, HaveImages
<1>5. RestoreIsSound'
  BY <1>2, <1>3 DEF BackupInvariant, WriteArchive, RestoreIsSound, Restoring, Saved
<1>6. leftover' \subseteq Paths
  <2>1. tool.path \in Paths
    BY DEF BackupInvariant, RestoreIsSound, WriteArchive, Paths
  <2>2. QED
    BY <2>1, ToolFacts DEF WriteArchive
<1>7. QED
  BY <1>2, <1>3, <1>4, <1>5, <1>6, ToolFacts, ToolStep

LEMMA ToolEnds ==
  ASSUME BackupInvariant, RefuseArchive \/ ToolDies
  PROVE  BackupInvariant'
<1>1. tool' = NoTool /\ UNCHANGED <<live, app, archives, leftover, undo, everPurged, scripts>>
  BY DEF RefuseArchive, ToolDies
<1>2. QED
  BY <1>1, NoToolIs, IdleTool, ToolFacts, ToolStep

LEMMA CopyKindStep ==
  ASSUME BackupInvariant, CopyKind
  PROVE  BackupInvariant'
<1> DEFINE todo == tool.todo
           old == tool.payload
<1>1. /\ tool.step = "copy" /\ Len(todo) > 0 /\ todo \in Seq(Kinds)
      /\ \A i \in DOMAIN todo : i > 1 => todo[i] # "db"
      /\ IF todo[1] = "db" THEN DOMAIN old = {} ELSE Copied(old)
      /\ \A j \in Always : j \in DOMAIN old \/ \E i \in DOMAIN todo : todo[i] = j
  BY ToolFacts DEF BackupInvariant, CopyIsSound, CopyKind
<1>2. PICK rest \in Seq(Kinds) :
         /\ rest = Tail(todo) /\ Len(rest) = Len(todo) - 1 /\ Len(todo) \in Nat
         /\ Head(todo) = todo[1] /\ todo[1] \in Kinds
         /\ \A i \in DOMAIN rest : i + 1 > 1 /\ i + 1 \in DOMAIN todo /\ rest[i] = todo[i + 1]
         /\ \A i \in DOMAIN todo : i = 1 \/ (i - 1 \in DOMAIN rest /\ rest[i - 1] = todo[i])
  <2>1. /\ Tail(todo) \in Seq(Kinds) /\ Len(Tail(todo)) = Len(todo) - 1 /\ Len(todo) \in Nat
        /\ Head(todo) = todo[1] /\ todo[1] \in Kinds /\ 1 \in DOMAIN todo
        /\ \A i \in DOMAIN Tail(todo) : /\ i \in Nat /\ i >= 1
                                     /\ i + 1 \in DOMAIN todo /\ Tail(todo)[i] = todo[i + 1]
        /\ \A i \in DOMAIN todo :
             i = 1 \/ (i - 1 \in DOMAIN Tail(todo) /\ Tail(todo)[i - 1] = todo[i])
    <3> HIDE DEF todo
    <3>1. QED
      BY <1>1, TailKeeps
  <2>2. \A i \in Nat : i >= 1 => i + 1 > 1
    OBVIOUS
  <2>3. QED
    BY <2>1, <2>2
<1>3. PICK k \in Kinds : k = todo[1]
  BY <1>2
<1>4. PICK a : a = [j \in DOMAIN old \cup {k} |-> IF j = k THEN live[k] ELSE old[j]]
  OBVIOUS
<1>5. /\ DOMAIN a = DOMAIN old \cup {k} /\ a[k] = live[k]
      /\ \A j \in DOMAIN old : j # k => a[j] = old[j]
  BY <1>4
<1>6. \A j \in Kinds : live[j] \in Holding(j)
  BY Idle
<1>7. IsArchive(a) /\ a \in Archives
  <2>1. DOMAIN a \in SUBSET Kinds /\ \A j \in DOMAIN a : a[j] \in Holding(j)
    BY <1>5, <1>6, ToolFacts DEF IsArchive
  <2>2. \A j \in DOMAIN a : a[j] \in (0..MaxChanges) \cup SUBSET RunIds
    BY <2>1 DEF Holding
  <2>3. a \in [DOMAIN a -> (0..MaxChanges) \cup SUBSET RunIds]
    BY <1>4, <1>5, <2>2
  <2>4. QED
    BY <2>1, <2>3 DEF IsArchive, Archives
<1>8. PICK new : new = [tool EXCEPT !.payload = a, !.todo = rest,
                                    !.step = IF Len(todo) = 1 THEN "zip" ELSE "copy"]
  OBVIOUS
<1>9. tool' = new /\ UNCHANGED <<live, app, archives, leftover, undo, everPurged, scripts>>
  BY <1>1, <1>2, <1>3, <1>4, <1>8 DEF CopyKind
<1>10. /\ new \in Tools /\ new.step = (IF Len(todo) = 1 THEN "zip" ELSE "copy")
       /\ new.path = tool.path /\ new.todo = rest /\ new.payload = a
       /\ new.from = tool.from /\ new.written = tool.written
  BY <1>7, <1>8, ToolFacts DEF Tools
<1>11. Copied(a)
  <2>1. HaveImages(live["db"])
    BY DEF BackupInvariant, ImagesStay
  <2>2. CASE k = "db"
    BY <1>1, <1>3, <1>5, <2>1, <2>2 DEF Copied
  <2>3. CASE k # "db"
    BY <1>1, <1>3, <1>5, <2>3 DEF Copied, HaveImages
  <2>4. QED
    BY <2>2, <2>3
<1>12. \A j \in Always : j \in DOMAIN a \/ \E i \in DOMAIN rest : rest[i] = j
  <2>1. SUFFICES ASSUME NEW j \in Always, j \notin DOMAIN a
                 PROVE  \E i \in DOMAIN rest : rest[i] = j
    OBVIOUS
  <2>2. j \notin DOMAIN old /\ j # k
    BY <1>5, <2>1
  <2>3. PICK i \in DOMAIN todo : todo[i] = j
    BY <1>1, <2>2
  <2>4. i # 1
    BY <1>3, <2>2, <2>3
  <2>5. QED
    BY <1>2, <2>3, <2>4
<1>13. Copied(a)'
  BY <1>9, <1>11 DEF Copied, HaveImages
<1>14. CopyIsSound'
  <2>1. CASE Len(todo) = 1
    <3>1. Len(rest) = 0 /\ DOMAIN rest = {}
      BY <1>2, <2>1, LenProperties
    <3>2. IsWhole(a)'
      BY <1>12, <1>13, <3>1 DEF IsWhole
    <3>3. QED
      BY <1>9, <1>10, <2>1, <3>2 DEF CopyIsSound
  <2>2. CASE Len(todo) # 1
    <3>0. DOMAIN rest = 1..Len(rest) /\ Len(rest) \in Nat
      BY <1>2, LenProperties
    <3>1. Len(rest) > 0 /\ 1 \in DOMAIN rest
      <4> HIDE DEF todo
      <4>1. Len(todo) \in Nat /\ Len(todo) > 0 /\ Len(rest) = Len(todo) - 1
        BY <1>1, <1>2
      <4>2. QED
        BY <2>2, <3>0, <4>1
    <3>2. \A i \in DOMAIN rest : rest[i] # "db"
      BY <1>1, <1>2
    <3>3. QED
      BY <1>9, <1>10, <1>12, <1>13, <2>2, <3>1, <3>2 DEF CopyIsSound
  <2>3. QED
    BY <2>1, <2>2
<1>15. RestoreIsSound'
  <2>1. new.step \in {"zip", "copy"}
    BY <1>10
  <2>2. Restoring => \A j \in DOMAIN a \ tool.written : a[j] = live[j]
    BY <1>1, <1>5 DEF BackupInvariant, RestoreIsSound
  <2>3. QED
    BY <1>1, <1>9, <1>10, <2>1, <2>2 DEF BackupInvariant, RestoreIsSound, Restoring, Saved
<1>16. QED
  BY <1>7, <1>9, <1>10, <1>14, <1>15, ToolFacts, ToolStep

(* temporary.replace puts a whole archive where none was, or where one that *)
(* no restoration counts on was.                                           *)
LEMMA PublishArchiveStep ==
  ASSUME BackupInvariant, PublishArchive
  PROVE  BackupInvariant'
<1> DEFINE p == tool.path
           a == tool.payload
<1>1. tool.step = "publish" /\ IsWhole(a) /\ IsArchive(a)
  BY ToolFacts DEF BackupInvariant, PublishArchive, CopyIsSound
<1>2. a # NoArchive
  BY <1>1, NoArchiveIs DEF IsWhole, Always
<1>3. p \in Paths
  BY <1>1 DEF BackupInvariant, RestoreIsSound, Paths
<1>4. /\ DOMAIN archives = Paths /\ DOMAIN archives' = Paths
      /\ archives'[p] = a /\ \A q \in Paths : q # p => archives'[q] = archives[q]
      /\ UNCHANGED <<live, app, undo, everPurged, scripts>> /\ leftover' \subseteq Paths
  BY <1>3, ToolFacts DEF BackupInvariant, BackupShapes, PublishArchive
<1>5. \A u \in undo : u.path \in Paths /\ u.path # p
  BY <1>1, BackupAssumption
  DEF BackupInvariant, BackupShapes, UndoIsSound, RestoreIsSound, Paths
<1>6. UndoIsSound'
  BY <1>4, <1>5 DEF BackupInvariant, UndoIsSound, RestoreIsReversible, Saved
<1>7. ImagesStay' /\ ArchivesAreWhole'
  <2>1. ImagesStay'
    BY <1>4 DEF BackupInvariant, ImagesStay, HaveImages
  <2>2. ASSUME NEW q \in Paths, Saved(q)'
        PROVE  IsWhole(archives[q])'
    <3>1. IsWhole(archives'[q])
      BY <1>1, <1>4, <2>2, NoArchiveIs DEF BackupInvariant, ArchivesAreWhole, Saved, NoArchive
    <3>2. QED
      BY <1>4, <3>1 DEF IsWhole, Copied, HaveImages
  <2>3. QED
    BY <2>1, <2>2 DEF ArchivesAreWhole
<1>8. tool' \in Tools /\ IsArchive(tool'.payload) /\ CopyIsSound' /\ RestoreIsSound'
  <2>1. CASE ~Restoring
    <3>1. tool' = NoTool
      BY <2>1 DEF PublishArchive
    <3>2. QED
      BY <3>1, NoToolIs, IdleTool
  <2>2. CASE Restoring
    <3>1. PICK todo \in Seq(Kinds) :
             todo = Overwritten(tool.asked) /\ Len(todo) > 0 /\ Distinct(todo)
      BY OverwrittenIs
    <3>2. PICK new : new = [tool EXCEPT !.step = "overwrite", !.todo = todo]
      OBVIOUS
    <3>3. tool' = new
      BY <2>2, <3>1, <3>2 DEF PublishArchive
    <3>4. /\ new \in Tools /\ new.step = "overwrite" /\ new.path = p /\ new.todo = todo
          /\ new.from = tool.from /\ new.written = tool.written /\ new.payload = a
      BY <3>1, <3>2, ToolFacts DEF Tools
    <3>5. CopyIsSound'
      BY <3>3, <3>4 DEF CopyIsSound
    <3>6. /\ tool.from \in Paths /\ Saved(tool.from) /\ p \in Rollbacks /\ ~Saved(p)
          /\ \A k \in DOMAIN a \ tool.written : a[k] = live[k]
      BY <1>1, <2>2 DEF BackupInvariant, RestoreIsSound
    <3>7. archives'[tool.from] # NoArchive /\ archives'[p] # NoArchive
      BY <1>2, <1>4, <3>6 DEF Saved
    <3>8. ASSUME NEW i \in DOMAIN todo,
                 todo[i] \notin {"secrets", "captures"} \cup tool.written
          PROVE  todo[i] \in DOMAIN a /\ a[todo[i]] = live[todo[i]]
      <4>1. todo[i] \in Kinds
        BY ElementOfSeq, LenProperties
      <4>2. todo[i] \in Always
        BY <3>8, <4>1 DEF Always, Kinds
      <4>3. QED
        BY <1>1, <3>6, <3>8, <4>2 DEF IsWhole
    <3>9. RestoreIsSound'
      BY <1>1, <1>4, <2>2, <3>1, <3>3, <3>4, <3>6, <3>7, <3>8
      DEF IsWhole, RestoreIsSound, Restoring, Rollback, Saved, NoArchive
    <3>10. QED
      BY <1>1, <3>3, <3>4, <3>5, <3>9
  <2>3. QED
    BY <2>1, <2>2
<1>9. BackupShapes'
  BY <1>1, <1>4, <1>8 DEF BackupInvariant, BackupShapes
<1>10. QED
  BY <1>6, <1>7, <1>8, <1>9 DEF BackupInvariant

-----------------------------------------------------------------------------
(* The steps that overwrite.                                               *)

(* What is left to overwrite is distinct from what has just been.          *)
LEMMA DoneIs ==
  ASSUME BackupInvariant, tool.step = "overwrite"
  PROVE  /\ Done \in Tools /\ IsArchive(Done.payload)
         /\ Head(tool.todo) \in Kinds /\ Head(tool.todo) = tool.todo[1]
         /\ 1 \in DOMAIN tool.todo
         /\ \/ Done = NoTool
            \/ /\ Done.step = "overwrite" /\ Done.path = tool.path
               /\ Done.from = tool.from /\ Done.written = tool.written
               /\ Len(Done.todo) > 0 /\ Distinct(Done.todo)
               /\ Done.payload = tool.payload
               /\ \A i \in DOMAIN Done.todo :
                    /\ i + 1 \in DOMAIN tool.todo /\ Done.todo[i] = tool.todo[i + 1]
                    /\ Done.todo[i] # tool.todo[1]
<1> DEFINE todo == tool.todo
<1>1. todo \in Seq(Kinds) /\ Len(todo) > 0 /\ Distinct(todo)
  BY ToolFacts DEF BackupInvariant, RestoreIsSound
<1> HIDE DEF todo
<1>2. /\ Tail(todo) \in Seq(Kinds) /\ Len(Tail(todo)) = Len(todo) - 1 /\ Len(todo) \in Nat
      /\ Head(todo) = todo[1] /\ todo[1] \in Kinds /\ 1 \in DOMAIN todo
      /\ \A i \in DOMAIN Tail(todo) : /\ i \in Nat /\ i >= 1
                                   /\ i + 1 \in DOMAIN todo /\ Tail(todo)[i] = todo[i + 1]
  BY <1>1, TailKeeps
<1>3. CASE Len(todo) = 1
  <2>1. Done = NoTool
    BY <1>3 DEF Done, todo
  <2>2. QED
    BY <1>2, <2>1, NoToolIs DEF todo
<1>4. CASE Len(todo) # 1
  <2>1. PICK rest \in Seq(Kinds) : rest = Tail(todo)
    BY <1>2
  <2>2. PICK new : new = [tool EXCEPT !.todo = rest]
    OBVIOUS
  <2>3. Done = new
    BY <1>4, <2>1, <2>2 DEF Done, todo
  <2>4. /\ new \in Tools /\ new.step = "overwrite" /\ new.path = tool.path
        /\ new.from = tool.from /\ new.written = tool.written /\ new.todo = rest
        /\ new.payload = tool.payload
    BY <2>2, ToolFacts DEF Tools
  <2>5. Len(rest) > 0
    BY <1>1, <1>2, <1>4, <2>1
  <2>6. \A i \in DOMAIN rest : i + 1 \in DOMAIN todo /\ rest[i] = todo[i + 1] /\ i + 1 # 1
    BY <1>2, <2>1
  <2>7. \A i \in DOMAIN rest : rest[i] # todo[1]
    BY <1>1, <1>2, <2>6 DEF Distinct
  <2>8. \A i \in DOMAIN rest : i \in Nat
    BY <1>2, <2>1
  <2>9. Distinct(rest)
    BY <1>1, <2>6, <2>8 DEF Distinct
  <2>10. QED
    BY <1>2, <2>3, <2>4, <2>5, <2>6, <2>7, <2>9, ToolFacts DEF todo
<1>5. QED
  BY <1>3, <1>4

LEMMA AfterOverwrite ==
  ASSUME BackupInvariant, tool.step = "overwrite", tool' \in {Done, NoTool},
         UNCHANGED <<app, archives, leftover, everPurged, scripts>>,
         \A k \in Kinds : k # Head(tool.todo) => live'[k] = live[k]
  PROVE  tool' \in Tools /\ IsArchive(tool'.payload) /\ CopyIsSound' /\ RestoreIsSound'
<1>1. CASE tool' = NoTool
  BY <1>1, NoToolIs, IdleTool
<1>2. CASE tool' # NoTool
  <2>1. PICK new : new = Done
    OBVIOUS
  <2>2. /\ tool' = new /\ new \in Tools /\ IsArchive(new.payload)
        /\ new.step = "overwrite" /\ new.path = tool.path
        /\ new.from = tool.from /\ new.written = tool.written
        /\ Len(new.todo) > 0 /\ Distinct(new.todo) /\ new.payload = tool.payload
        /\ \A i \in DOMAIN new.todo :
             /\ i + 1 \in DOMAIN tool.todo /\ new.todo[i] = tool.todo[i + 1]
             /\ new.todo[i] # Head(tool.todo)
    BY <1>2, <2>1, DoneIs
  <2>3. CopyIsSound'
    BY <2>2 DEF CopyIsSound
  <2>4. /\ Restoring /\ tool.from \in Paths /\ Saved(tool.from) /\ tool.path \in Rollbacks
        /\ Saved(tool.path) /\ Always \subseteq DOMAIN tool.payload
    BY DEF BackupInvariant, RestoreIsSound
  <2>5. ASSUME NEW i \in DOMAIN new.todo,
               new.todo[i] \notin {"secrets", "captures"} \cup tool.written
        PROVE  /\ new.todo[i] \in DOMAIN archives[tool.path]
               /\ archives[tool.path][new.todo[i]] = live'[new.todo[i]]
    <3>1. PICK k : k = new.todo[i]
      OBVIOUS
    <3>2. k = tool.todo[i + 1] /\ i + 1 \in DOMAIN tool.todo /\ k # Head(tool.todo)
      BY <2>2, <3>1
    <3>3. k \in Kinds
      BY <3>2, ToolFacts, ElementOfSeq, LenProperties
    <3>4. Rollback(k)
      BY <2>4, <2>5, <3>1, <3>2 DEF BackupInvariant, RestoreIsSound
    <3>5. QED
      BY <3>1, <3>2, <3>3, <3>4 DEF Rollback
  <2>6. RestoreIsSound'
    BY <2>2, <2>4, <2>5 DEF RestoreIsSound, Restoring, Rollback, Saved, NoArchive
  <2>7. QED
    BY <2>2, <2>3, <2>6
<1>3. QED
  BY <1>1, <1>2

LEMMA OverwriteStep ==
  ASSUME BackupInvariant, tool.step = "overwrite", tool' \in {Done, NoTool},
         UNCHANGED <<app, archives, leftover, everPurged, scripts>>,
         NEW k \in Kinds, k = Head(tool.todo), NEW x \in Holding(k),
         live' = [live EXCEPT ![k] = x], undo' = undo \cup {Lost(k)},
         k = "db" => HaveImages(x), k = "captures" => live["captures"] \subseteq x
  PROVE  BackupInvariant'
<1>1. /\ DOMAIN live = Kinds /\ IsArchive(live) /\ "db" \in Kinds /\ "captures" \in Kinds
  BY Idle DEF Kinds
<1>2. /\ DOMAIN live' = Kinds /\ live'[k] = x /\ IsArchive(live')
      /\ \A j \in Kinds : j # k => live'[j] = live[j]
  BY <1>1 DEF IsArchive
<1>3. tool' \in Tools /\ IsArchive(tool'.payload) /\ CopyIsSound' /\ RestoreIsSound'
  BY <1>2, AfterOverwrite
<1>4. ImagesGrow
  BY <1>1, <1>2 DEF ImagesGrow
<1>5. ImagesStay'
  <2>1. HaveImages(live["db"]) /\ HaveImages(app.fresh) /\ app.doomed \subseteq everPurged
    BY DEF BackupInvariant, ImagesStay
  <2>2. live'["db"] \subseteq live["captures"] \cup everPurged
    BY <1>1, <1>2, <2>1 DEF HaveImages
  <2>3. QED
    BY <1>4, <2>1, <2>2 DEF ImagesGrow, ImagesStay, HaveImages
<1>6. ArchivesAreWhole'
  <2>1. ASSUME NEW p \in Paths, Saved(p)'
        PROVE  IsWhole(archives[p])'
    <3>1. archives' = archives /\ Saved(p)
      BY <2>1 DEF Saved, NoArchive
    <3>2. Always \subseteq DOMAIN archives[p] /\ Copied(archives[p])
      BY <3>1 DEF BackupInvariant, ArchivesAreWhole, IsWhole
    <3>3. Copied(archives[p])'
      BY <1>4, <3>1, <3>2, CopiesStay DEF Copied, HaveImages
    <3>4. QED
      BY <3>1, <3>2, <3>3 DEF IsWhole
  <2>2. QED
    BY <2>1 DEF ArchivesAreWhole
<1>7. PICK new : new = Lost(k)
  OBVIOUS
<1>7a. /\ new.path = tool.path /\ (~new.written => k \notin tool.written)
       /\ new.lost = <<k, live[k]>> /\ new.lost[1] = k /\ new.lost[2] = live[k]
  BY <1>7 DEF Lost
<1>8. /\ Saved(tool.path) /\ tool.path \in Rollbacks
      /\ k \notin {"secrets", "captures"} \cup tool.written => Rollback(k)
  BY DoneIs DEF BackupInvariant, RestoreIsSound
<1>9. UndoIsSound'
  <2>1. \A u \in undo' : Saved(u.path)'
    BY <1>7, <1>7a, <1>8 DEF BackupInvariant, UndoIsSound, Saved
  <2>2. RestoreIsReversible'
    BY <1>7, <1>7a, <1>8 DEF BackupInvariant, UndoIsSound, RestoreIsReversible, Rollback, Saved
  <2>3. QED
    BY <2>1, <2>2 DEF UndoIsSound
<1>10. BackupShapes'
  <2>1. \A u \in undo' : u.path \in Rollbacks /\ u.lost[1] \in Kinds
    BY <1>7, <1>7a, <1>8 DEF BackupInvariant, BackupShapes
  <2>2. QED
    BY <1>2, <1>3, <2>1 DEF BackupInvariant, BackupShapes
<1>11. QED
  BY <1>3, <1>5, <1>6, <1>9, <1>10 DEF BackupInvariant

(* What the archive restored holds.                                        *)
LEMMA SourceIs ==
  ASSUME BackupInvariant, tool.step = "overwrite"
  PROVE  /\ \A k \in DOMAIN archives[tool.from] :
              k \in Kinds /\ archives[tool.from][k] \in Holding(k)
         /\ "db" \in DOMAIN archives[tool.from] /\ HaveImages(archives[tool.from]["db"])
         /\ archives[tool.from]["db"] \in SUBSET RunIds
<1>1. tool.from \in Paths /\ Saved(tool.from)
  BY DEF BackupInvariant, RestoreIsSound
<1>2. QED
  BY <1>1 DEF BackupInvariant, BackupShapes, IsArchive, ArchivesAreWhole, IsWhole, Copied,
              Holding, Versioned

LEMMA RestoreDatabaseStep ==
  ASSUME BackupInvariant, RestoreDatabase \/ RestoreDatabaseFails
  PROVE  BackupInvariant'
<1>1. PICK db \in SUBSET archives[tool.from]["db"] : live' = [live EXCEPT !["db"] = db]
  BY DEF RestoreDatabase, RestoreDatabaseFails
<1>2. /\ tool.step = "overwrite" /\ Head(tool.todo) = "db" /\ tool' \in {Done, NoTool}
      /\ undo' = undo \cup {Lost("db")}
      /\ UNCHANGED <<app, archives, leftover, everPurged, scripts>>
  BY DEF RestoreDatabase, RestoreDatabaseFails
<1>3. HaveImages(db) /\ db \in Holding("db") /\ "db" \in Kinds
  BY <1>1, <1>2, SourceIs DEF HaveImages, Holding, Versioned, Kinds
<1>4. QED
  BY <1>1, <1>2, <1>3, OverwriteStep

LEMMA RestoreFilesStep ==
  ASSUME BackupInvariant, RestoreFiles
  PROVE  BackupInvariant'
<1>1. PICK k, saved : k = Head(tool.todo) /\ saved = archives[tool.from]
  OBVIOUS
<1>2. /\ tool.step = "overwrite" /\ k # "db" /\ tool' = Done
      /\ UNCHANGED <<app, archives, leftover, everPurged, scripts>>
  BY <1>1 DEF RestoreFiles
<1>3. CASE k \in DOMAIN saved
  <2>1. PICK x : x = IF k = "captures" THEN live[k] \cup saved[k] ELSE saved[k]
    OBVIOUS
  <2>2. live' = [live EXCEPT ![k] = x] /\ undo' = undo \cup {Lost(k)}
    BY <1>1, <1>3, <2>1 DEF RestoreFiles
  <2>3. k \in Kinds /\ saved[k] \in Holding(k)
    BY <1>1, <1>2, <1>3, SourceIs
  <2>4. x \in Holding(k) /\ (k = "captures" => live["captures"] \subseteq x)
    BY <2>1, <2>3, Idle DEF Holding, Versioned
  <2>5. QED
    BY <1>1, <1>2, <2>2, <2>3, <2>4, OverwriteStep
<1>4. CASE k \notin DOMAIN saved
  <2>1. live' = live /\ undo' = undo
    BY <1>1, <1>4 DEF RestoreFiles
  <2>2. tool' \in Tools /\ IsArchive(tool'.payload) /\ CopyIsSound' /\ RestoreIsSound'
    BY <1>2, <2>1, AfterOverwrite
  <2>3. QED
    BY <1>2, <2>1, <2>2, ToolFacts, ToolStep
<1>5. QED
  BY <1>3, <1>4

LEMMA BackupInvariantInit == BackupInit => BackupInvariant
<1> SUFFICES ASSUME BackupInit PROVE BackupInvariant
  OBVIOUS
<1>1. BackupShapes
  <2>1. DOMAIN live = Kinds /\ IsArchive(live)
    BY BackupAssumption DEF BackupInit, IsArchive, Holding
  <2>2. tool \in Tools /\ IsArchive(tool.payload)
    BY NoToolIs DEF BackupInit
  <2>3. DOMAIN archives = Paths /\ \A p \in Paths : IsArchive(archives[p])
    BY NoArchiveIs DEF BackupInit
  <2>4. QED
    BY <2>1, <2>2, <2>3, BackupAssumption DEF BackupInit, BackupShapes
<1>2. ImagesStay
  BY DEF BackupInit, ImagesStay, HaveImages, Kinds, Versioned
<1>3. ArchivesAreWhole /\ UndoIsSound
  BY DEF BackupInit, ArchivesAreWhole, UndoIsSound, RestoreIsReversible, Saved
<1>4. CopyIsSound /\ RestoreIsSound
  BY NoToolIs DEF BackupInit, CopyIsSound, RestoreIsSound, Restoring
<1>5. QED
  BY <1>1, <1>2, <1>3, <1>4 DEF BackupInvariant

LEMMA BackupInvariantStep ==
  ASSUME BackupInvariant, [BackupNext]_backupVars
  PROVE  BackupInvariant'
<1>1. CASE \/ \E i \in RunIds :
                Photograph(i) \/ CommitRun(i) \/ ExpireRun(i) \/ UnlinkImage(i)
           \/ \E k \in Changing : ChangeData(k)
           \/ StopApp \/ StartApp
  BY <1>1, ApplicationSteps
<1>2. CASE \E path \in Outputs, asked \in BackupOptions : StartBackup(path, asked)
  BY <1>2, StartBackupStep
<1>3. CASE \E from \in Paths, rollback \in Rollbacks, forced \in BOOLEAN,
              asked \in RestoreOptions : StartRestore(from, rollback, asked, forced)
  BY <1>3, StartRestoreStep
<1>4. CASE CopyKind \/ WriteArchive \/ PublishArchive
  BY <1>4, CopyKindStep, WriteArchiveStep, PublishArchiveStep
<1>5. CASE OpenArchive \/ RefuseArchive \/ StartDatabase \/ ToolDies
  BY <1>5, OpenArchiveStep, ToolEnds, StartDatabaseStep
<1>6. CASE RestoreDatabase \/ RestoreDatabaseFails \/ RestoreFiles
  BY <1>6, RestoreDatabaseStep, RestoreFilesStep
<1>7. CASE UNCHANGED backupVars
  <2>1. ImagesGrow /\ ImagesStay'
    BY <1>7 DEF backupVars, ImagesGrow, BackupInvariant, ImagesStay, HaveImages
  <2>2. Noted
    BY <1>7, NothingIsNoted DEF backupVars
  <2>3. QED
    BY <1>7, <2>1, <2>2, Idle, AppStep DEF backupVars
<1>8. QED
  BY <1>1, <1>2, <1>3, <1>4, <1>5, <1>6, <1>7 DEF BackupNext

(* The invariant of the scripts: rows keep their images, archives are      *)
(* whole, and a restoration overwrites only what it has put aside.         *)
THEOREM BackupInvariantHolds == BackupSpec => []BackupInvariant
<1>1. BackupInit => BackupInvariant
  BY BackupInvariantInit
<1>2. BackupInvariant /\ [BackupNext]_backupVars => BackupInvariant'
  BY BackupInvariantStep
<1>3. QED
  BY <1>1, <1>2, PTL DEF BackupSpec

(* A backup made while the application captures and purges makes sense:    *)
(* create_backup copies the images after the database.                     *)
THEOREM BackupsMakeSense == BackupSpec => []ArchivesAreSound
<1>1. ASSUME BackupInvariant
      PROVE  ArchivesAreSound
  <2>1. {AlwaysCopied[i] : i \in 1..Len(AlwaysCopied)} = Always
    BY DEF AlwaysCopied, Always
  <2>2. QED
    BY <1>1, <2>1
    DEF BackupInvariant, ArchivesAreWhole, IsWhole, Copied, ArchivesAreSound
<1>2. QED
  BY <1>1, BackupInvariantHolds, PTL

(* Wherever a restoration stops, forced or not, the archive that           *)
(* restore_backup made first holds the database, the key, the profiles and *)
(* .env it overwrote, but for what an application that was running wrote   *)
(* after that archive copied it.                                           *)
THEOREM RestorationsCanBeUndone == BackupSpec => []RestoreIsReversible
<1>1. BackupInvariant => RestoreIsReversible
  BY DEF BackupInvariant, UndoIsSound
<1>2. QED
  BY <1>1, BackupInvariantHolds, PTL

(* The types, for any runs, archives, options and number of scripts.       *)
THEOREM BackupTypeCorrect == BackupSpec => []BackupTypes
<1>1. ASSUME BackupInvariant
      PROVE  BackupTypes
  <2>1. \A k \in Kinds : live[k] \in Holding(k)
    BY <1>1, Idle
  <2>2. QED
    BY <1>1, <2>1
    DEF BackupInvariant, BackupShapes, BackupTypes, IsArchive, Tools, Holding, Kinds, Versioned
<1>2. QED
  BY <1>1, BackupInvariantHolds, PTL
-----------------------------------------------------------------------------
(***************************************************************************)
(* PageScrolling: for any page, any growth of it and any limit of turns.   *)
(***************************************************************************)
(* Where n turns of the wheel lead.                                        *)
Reach(n) == n * StitchWheel

(* The page and the loop, step by step.                                    *)
LoopIsSound ==
  /\ scan.step = "idle" => scan = NoScan /\ tiles = <<>>
  /\ scan.step # "idle" =>
       /\ page.height \in Heights /\ scan.opened \in Heights
       /\ scan.opened <= page.height /\ page.y <= page.height - Viewport
  /\ scan.step \in {"idle", "measure", "wheel", "check", "done"} => pdf = <<>>
  /\ scan.step = "measure" => scan.round < MaxSteps /\ scan.stable < StableRounds
  /\ scan.step \in {"wheel", "check"} =>
       /\ scan.round > 0 /\ scan.stable < StableRounds
       /\ scan.opened <= scan.seen /\ scan.seen <= page.height
  /\ scan.step = "check" => scan.stitched
  /\ scan.step \in {"paginate", "merge", "printed"} =>
       scan.sheet \in PageHeights /\ scan.sheet < ImageHeight

(* A turn starts inside the rows covered, as far down as the turns before  *)
(* could lead, the bottom of the page as it was opened being the limit.    *)
FeedAdvances ==
  scan.stitched =>
    /\ Seamless
    /\ scan.step = "measure" =>
         /\ page.y <= scan.covered
         /\ page.y >= Smaller(scan.opened - Viewport, Reach(scan.round))
         /\ scan.round = 0 => tiles = <<>> /\ scan.covered = 0
    /\ scan.step \in {"wheel", "check"} =>
         /\ scan.y + Viewport <= scan.covered
         /\ scan.y >= Smaller(scan.opened - Viewport, Reach(scan.round - 1))
    /\ scan.step = "wheel" => page.y = scan.y
    /\ scan.step = "check" =>
         /\ page.y <= scan.y + StitchWheel
         /\ \/ page.y = scan.y
            \/ /\ page.y > scan.y
               /\ page.y >= Smaller(scan.opened - Viewport, Reach(scan.round))
    /\ scan.step = "done" =>
         scan.covered >= Smaller(scan.opened - Slack, Viewport + Reach(MaxSteps - 1))

(* The pages cut so far: full ones, each at its place.                     *)
FullPage(i) == pdf[i][2] = pdf[i][1] + scan.sheet /\ pdf[i][2] < ImageHeight

PagesAdvance ==
  /\ scan.step \in {"paginate", "merge"} =>
       \A i \in 1..Len(pdf) : pdf[i][1] = (i - 1) * (scan.sheet - Overlap)
  /\ scan.step = "paginate" => \A i \in 1..Len(pdf) : FullPage(i)
  /\ scan.step = "merge" =>
       /\ Len(pdf) >= 2 /\ \A i \in 1..(Len(pdf) - 1) : FullPage(i)
       /\ pdf[Len(pdf)][2] = ImageHeight
       /\ pdf[Len(pdf)][2] <= pdf[Len(pdf)][1] + scan.sheet
  /\ PdfIsComplete

ScrollingInvariant == ScrollingTypes /\ LoopIsSound /\ FeedAdvances /\ PagesAdvance

LEMMA ReachGrows ==
  /\ Reach(0) = 0
  /\ \A n \in Nat : Reach(n) \in Nat /\ Reach(n + 1) = Reach(n) + StitchWheel
<1>1. StitchWheel \in Nat
  BY ScrollingAssumption
<1>2. QED
  BY <1>1 DEF Reach

Bounds ==
  /\ Viewport \in Nat /\ Viewport > 0
  /\ StitchWheel \in Nat /\ StitchWheel > 0 /\ StitchWheel <= Viewport
  /\ LazyWheel \in Nat /\ LazyWheel > 0 /\ LazyWheel <= Viewport
  /\ MaxSteps \in Nat /\ MaxSteps > 0 /\ StableRounds \in Nat /\ StableRounds > 0
  /\ Slack \in Nat /\ Slack < Viewport /\ Overlap \in Nat

(* The local variables of the loop and what it has produced have types.    *)
LoopTyped ==
  /\ Bounds
  /\ page.height \in Nat /\ page.y \in Nat
  /\ scan.step \in {"idle", "measure", "wheel", "check", "done", "paginate",
                    "merge", "printed"}
  /\ scan.stitched \in BOOLEAN /\ scan.round \in Nat /\ scan.round <= MaxSteps
  /\ scan.opened \in Nat /\ scan.seen \in Nat /\ scan.y \in Nat /\ scan.previous \in Nat
  /\ scan.stable \in Nat /\ scan.stable <= StableRounds /\ scan.covered \in Nat
  /\ scan.sheet \in Nat

LEMMA BoundsHold ==
  /\ Bounds
  /\ \A h \in Heights : h \in Nat /\ h >= Viewport
  /\ \A h \in PageHeights : h \in Nat /\ h > Overlap
<1>1. /\ Viewport \in Nat \ {0} /\ StitchWheel \in Nat \ {0} /\ LazyWheel \in Nat \ {0}
      /\ MaxSteps \in Nat \ {0} /\ StableRounds \in Nat \ {0}
  BY ScrollingAssumption
<1>2. /\ StitchWheel <= Viewport /\ LazyWheel <= Viewport
      /\ Slack \in Nat /\ Slack < Viewport /\ Overlap \in Nat
  BY ScrollingAssumption
<1>3. \A h \in Heights : h \in Nat /\ h >= Viewport
  BY ScrollingAssumption
<1>4. \A h \in PageHeights : h \in Nat /\ h > Overlap
  BY ScrollingAssumption
<1>5. QED
  BY <1>1, <1>2, <1>3, <1>4 DEF Bounds

LEMMA ScanIs ==
  ASSUME ScrollingInvariant
  PROVE  /\ LoopTyped
         /\ page = [height |-> page.height, y |-> page.y]
         /\ page.height \in {0} \cup Heights
         /\ scan \in Scan /\ tiles \in Seq(Nat \X Nat) /\ pdf \in Seq(Nat \X Nat)
<1>1. page \in [height : {0} \cup Heights, y : Nat] /\ scan \in Scan
      /\ tiles \in Seq(Nat \X Nat) /\ pdf \in Seq(Nat \X Nat)
  BY DEF ScrollingInvariant, ScrollingTypes
<1>2. /\ page.height \in {0} \cup Heights /\ page.y \in Nat
      /\ page = [height |-> page.height, y |-> page.y]
  BY <1>1
<1>3. page.height \in Nat
  BY <1>2, BoundsHold DEF Bounds
<1>4. scan.sheet \in Nat
  <2>1. scan.sheet \in {0} \cup PageHeights
    BY <1>1 DEF Scan
  <2>2. QED
    BY <2>1, BoundsHold DEF Bounds
<1>5. scan.round \in 0..MaxSteps /\ scan.stable \in 0..StableRounds
  BY <1>1 DEF Scan
<1>6. /\ scan.step \in {"idle", "measure", "wheel", "check", "done", "paginate",
                         "merge", "printed"}
      /\ scan.stitched \in BOOLEAN /\ scan.opened \in Nat /\ scan.seen \in Nat
      /\ scan.y \in Nat /\ scan.previous \in Nat /\ scan.covered \in Nat
  BY <1>1 DEF Scan
<1>7. QED
  BY <1>1, <1>2, <1>3, <1>4, <1>5, <1>6, BoundsHold DEF LoopTyped, Bounds

LEMMA ScrollingInvariantInit == ScrollingInit => ScrollingInvariant
<1> SUFFICES ASSUME ScrollingInit
             PROVE  ScrollingInvariant
  OBVIOUS
<1>1. scan = NoScan /\ page = [height |-> 0, y |-> 0] /\ tiles = <<>> /\ pdf = <<>>
  BY DEF ScrollingInit
<1>2. NoScan \in Scan /\ NoScan.step = "idle" /\ NoScan.stitched = FALSE
  BY BoundsHold DEF NoScan, Scan, Bounds
<1>3. ScrollingTypes
  BY <1>1, <1>2 DEF ScrollingTypes
<1>4. QED
  BY <1>1, <1>2, <1>3
  DEF ScrollingInvariant, LoopIsSound, FeedAdvances, PagesAdvance, PdfIsComplete

LEMMA OpenPageStep ==
  ASSUME ScrollingInvariant, OpenPage
  PROVE  ScrollingInvariant'
<1>1. PICK h \in Heights, stitched \in BOOLEAN :
        /\ page' = [height |-> h, y |-> 0]
        /\ scan' = [NoScan EXCEPT !.step = "measure", !.stitched = stitched, !.opened = h]
  BY DEF OpenPage
<1>2. scan.step = "idle" /\ tiles = <<>> /\ pdf = <<>> /\ UNCHANGED <<tiles, pdf>>
  BY DEF OpenPage, ScrollingInvariant, LoopIsSound
<1>3. PICK new : new = [NoScan EXCEPT !.step = "measure", !.stitched = stitched, !.opened = h]
  OBVIOUS
<1>4. h \in Nat /\ h >= Viewport
  BY BoundsHold DEF Bounds
<1>5. /\ new \in Scan /\ new.step = "measure" /\ new.stitched = stitched /\ new.opened = h
      /\ new.round = 0 /\ new.stable = 0 /\ new.covered = 0
  <2>1. NoScan \in Scan /\ NoScan.round = 0 /\ NoScan.stable = 0 /\ NoScan.covered = 0
    BY BoundsHold DEF NoScan, Scan, Bounds
  <2>2. QED
    BY <1>3, <1>4, <2>1 DEF Scan
<1>6. ScrollingTypes'
  BY <1>1, <1>2, <1>3, <1>5 DEF ScrollingTypes
<1>7. LoopIsSound'
  BY <1>1, <1>2, <1>3, <1>4, <1>5, BoundsHold DEF Bounds, LoopIsSound
<1>8. FeedAdvances'
  <2>1. Len(tiles') = 0
    BY <1>2
  <2>2. Seamless'
    BY <1>1, <1>3, <1>5, <2>1 DEF Seamless
  <2>3. Smaller(h - Viewport, 0) <= 0
    BY <1>4, BoundsHold DEF Bounds, Smaller
  <2>4. QED
    BY <1>1, <1>2, <1>3, <1>5, <2>2, <2>3, ReachGrows DEF FeedAdvances
<1>9. PagesAdvance'
  BY <1>1, <1>3, <1>5 DEF PagesAdvance, PdfIsComplete
<1>10. QED
  BY <1>6, <1>7, <1>8, <1>9 DEF ScrollingInvariant

(* The tiles follow one another from the top of the page to the row y.     *)
Sewn(rows, y) ==
  /\ \A i \in 1..Len(rows) : /\ rows[i][1] < rows[i][2]
                             /\ i > 1 => rows[i][1] = rows[i - 1][2]
  /\ Len(rows) > 0 => rows[1][1] = 0 /\ rows[Len(rows)][2] = y
  /\ Len(rows) = 0 => y = 0

LEMMA TileAppended ==
  ASSUME NEW old \in Seq(Nat \X Nat), NEW low \in Nat, NEW high \in Nat, low < high,
         Sewn(old, low)
  PROVE  /\ Append(old, <<low, high>>) \in Seq(Nat \X Nat)
         /\ Len(Append(old, <<low, high>>)) > 0
         /\ Sewn(Append(old, <<low, high>>), high)
<1>0. PICK new : new = Append(old, <<low, high>>)
  OBVIOUS
<1> DEFINE tile == <<low, high>>
<1>1. tile \in Nat \X Nat /\ tile[1] = low /\ tile[2] = high
  OBVIOUS
<1>2. new = Append(old, tile)
  BY <1>0
<1> HIDE DEF tile
<1>3. /\ new \in Seq(Nat \X Nat) /\ Len(new) = Len(old) + 1 /\ Len(old) \in Nat
      /\ \A i \in 1..Len(old) : new[i] = old[i]
      /\ new[Len(old) + 1] = tile
  BY <1>1, <1>2, AppendProperties, LenProperties
<1>4. /\ Len(old) = 0 => new[1] = tile /\ low = 0
      /\ Len(old) > 0 =>
           /\ 1 \in 1..Len(old) /\ new[1] = old[1] /\ old[1][1] = 0
           /\ Len(old) \in 1..Len(old) /\ new[Len(old)] = old[Len(old)]
           /\ old[Len(old)][2] = low
  BY <1>3 DEF Sewn
<1>5. ASSUME NEW i \in 1..Len(new)
      PROVE  new[i][1] < new[i][2] /\ (i > 1 => new[i][1] = new[i - 1][2])
  <2>1. CASE i = Len(old) + 1
    <3>1. new[i] = tile /\ i - 1 = Len(old) /\ (i > 1 => Len(old) > 0)
      BY <1>3, <2>1
    <3>2. QED
      BY <1>1, <1>4, <3>1
  <2>2. CASE i # Len(old) + 1
    <3>1. i \in 1..Len(old) /\ (i > 1 => i - 1 \in 1..Len(old))
      BY <1>3, <1>5, <2>2
    <3>2. QED
      BY <1>3, <3>1 DEF Sewn
  <2>3. QED
    BY <2>1, <2>2
<1>6. Len(new) > 0 /\ Sewn(new, high)
  BY <1>1, <1>3, <1>4, <1>5 DEF Sewn
<1>7. QED
  BY <1>0, <1>3, <1>6

LEMMA MeasureStep ==
  ASSUME ScrollingInvariant, Measure
  PROVE  ScrollingInvariant'
<1>0. LoopTyped
  BY ScanIs
<1> USE <1>0 DEF LoopTyped, Bounds
<1>1. PICK new : new = [scan EXCEPT
         !.step = IF Stable >= StableRounds THEN "done" ELSE "wheel",
         !.round = scan.round + 1, !.stable = Stable,
         !.seen = page.height, !.y = page.y, !.previous = page.height,
         !.covered = IF scan.stitched THEN Larger(scan.covered, NewRows[2])
                     ELSE scan.covered]
  OBVIOUS
<1>2. scan' = new /\ UNCHANGED <<page, pdf>> /\ scan.step = "measure" /\ pdf = <<>>
  BY <1>1 DEF Measure, ScrollingInvariant, LoopIsSound
<1>3. NewRows = <<Larger(scan.covered, page.y), page.y + Viewport>>
      /\ NewRows[1] = Larger(scan.covered, page.y) /\ NewRows[2] = page.y + Viewport
  BY DEF NewRows
<1>4. /\ scan.round < MaxSteps /\ scan.stable < StableRounds
      /\ page.height \in Heights /\ scan.opened \in Heights
      /\ scan.opened <= page.height /\ page.y <= page.height - Viewport
  BY <1>2 DEF ScrollingInvariant, LoopIsSound
<1>5. Stable \in 0..StableRounds /\ (Stable >= StableRounds => AtBottom)
  <2>1. Stable = scan.stable + 1 \/ Stable = 0
    BY DEF Stable
  <2>2. Stable # 0 => AtBottom
    BY DEF Stable
  <2>3. QED
    BY <1>4, <2>1, <2>2
<1>6. /\ new.step = (IF Stable >= StableRounds THEN "done" ELSE "wheel")
      /\ new.round = scan.round + 1 /\ new.stable = Stable /\ new.seen = page.height
      /\ new.y = page.y /\ new.stitched = scan.stitched /\ new.opened = scan.opened
      /\ new.covered = (IF scan.stitched THEN Larger(scan.covered, page.y + Viewport)
                        ELSE scan.covered)
      /\ new.covered \in Nat
  <2>1. Larger(scan.covered, page.y + Viewport) \in Nat
    BY DEF Larger
  <2>2. scan \in Scan
    BY DEF ScrollingInvariant, ScrollingTypes
  <2>3. QED
    BY <1>1, <1>3, <2>1, <2>2 DEF Scan
<1>7. new \in Scan
  <2>1. scan \in Scan
    BY DEF ScrollingInvariant, ScrollingTypes
  <2>2. scan.round + 1 \in 0..MaxSteps
    BY <1>4
  <2>3. (IF scan.stitched THEN Larger(scan.covered, NewRows[2]) ELSE scan.covered) \in Nat
    BY <1>1, <1>6, <2>1 DEF Scan
  <2>4. QED
    BY <1>1, <1>5, <2>1, <2>2, <2>3 DEF Scan
<1>8. LoopIsSound'
  BY <1>2, <1>4, <1>5, <1>6 DEF LoopIsSound
<1>9. PagesAdvance'
  BY <1>2, <1>6 DEF PagesAdvance, PdfIsComplete
<1>10. CASE ~scan.stitched
  <2>1. tiles' = tiles
    BY <1>10 DEF Measure
  <2>2. ScrollingTypes'
    BY <1>2, <1>7, <2>1 DEF ScrollingInvariant, ScrollingTypes
  <2>3. FeedAdvances'
    BY <1>2, <1>6, <1>10 DEF FeedAdvances
  <2>4. QED
    BY <1>8, <1>9, <2>2, <2>3 DEF ScrollingInvariant
<1>11. CASE scan.stitched
  <2>1. /\ page.y <= scan.covered
        /\ page.y >= Smaller(scan.opened - Viewport, Reach(scan.round))
        /\ scan.round = 0 => tiles = <<>> /\ scan.covered = 0
        /\ Seamless
    BY <1>2, <1>11 DEF ScrollingInvariant, FeedAdvances
  <2>2. Len(tiles) \in Nat /\ (Len(tiles) = 0 => scan.round = 0 /\ scan.covered = 0)
    <3>1. Len(tiles) \in Nat
      BY LenProperties
    <3>2. QED
      BY <2>1, <3>1 DEF Seamless
  <2>3. Sewn(tiles, scan.covered)
    BY <2>1, <2>2 DEF Seamless, Sewn
  <2>4. Larger(scan.covered, page.y) = scan.covered
    BY <2>1 DEF Larger
  <2>0. tiles \in Seq(Nat \X Nat)
    BY ScanIs
  <2>4a. PICK rows : rows = tiles'
    OBVIOUS
  <2>5. rows \in Seq(Nat \X Nat) /\ Len(rows) > 0 /\ Sewn(rows, new.covered)
    <3>1. CASE scan.covered < page.y + Viewport
      <4>1. rows = Append(tiles, <<scan.covered, page.y + Viewport>>)
        BY <1>3, <1>11, <2>4, <2>4a, <3>1 DEF Measure
      <4>2. new.covered = page.y + Viewport /\ page.y + Viewport \in Nat
        BY <1>6, <1>11, <3>1 DEF Larger
      <4>3. PICK low \in Nat, high \in Nat :
              low = scan.covered /\ high = page.y + Viewport /\ low < high
        BY <3>1, <4>2
      <4>4. QED
        BY <2>0, <2>3, <4>1, <4>2, <4>3, TileAppended
    <3>2. CASE ~(scan.covered < page.y + Viewport)
      <4>1. rows = tiles
        BY <1>3, <1>11, <2>4, <2>4a, <3>2 DEF Measure
      <4>2. new.covered = scan.covered /\ scan.covered > 0
        BY <1>6, <1>11, <3>2 DEF Larger
      <4>3. QED
        BY <2>0, <2>2, <2>3, <4>1, <4>2
    <3>3. QED
      BY <3>1, <3>2
  <2>6. ScrollingTypes'
    BY <1>2, <1>7, <2>4a, <2>5 DEF ScrollingInvariant, ScrollingTypes
  <2>7. Seamless'
    BY <1>2, <2>4a, <2>5 DEF Seamless, Sewn
  <2>8. new.covered >= page.y + Viewport
    BY <1>6, <1>11 DEF Larger
  <2>9. new.step = "done" =>
          new.covered >= Smaller(new.opened - Slack, Viewport + Reach(MaxSteps - 1))
    <3>1. SUFFICES ASSUME new.step = "done"
                   PROVE  new.covered >= Smaller(new.opened - Slack,
                                                 Viewport + Reach(MaxSteps - 1))
      OBVIOUS
    <3>2. page.y + Viewport >= page.height - Slack
      BY <1>5, <1>6, <3>1 DEF AtBottom
    <3>3. new.covered >= new.opened - Slack
      BY <1>4, <1>6, <2>8, <3>2
    <3>4. Viewport + Reach(MaxSteps - 1) \in Nat
      BY ReachGrows
    <3>5. QED
      BY <1>6, <3>3, <3>4 DEF Smaller
  <2>10. new.round - 1 = scan.round
    BY <1>6
  <2>11. FeedAdvances'
    BY <1>2, <1>6, <2>1, <2>7, <2>8, <2>9, <2>10 DEF FeedAdvances
  <2>12. QED
    BY <1>8, <1>9, <2>6, <2>11 DEF ScrollingInvariant
<1>12. QED
  BY <1>10, <1>11

LEMMA NextTurnIs ==
  NextTurn \in {"done", "measure"} /\ (NextTurn = "done" <=> scan.round = MaxSteps)
BY DEF NextTurn

LEMMA WheelStep ==
  ASSUME ScrollingInvariant, Wheel
  PROVE  ScrollingInvariant'
<1>0. LoopTyped
  BY ScanIs
<1> USE <1>0 DEF LoopTyped, Bounds
<1>1. PICK y \in {page.y, ScrollTo(page.y + Distance)}, h \in Heights :
         h >= page.height /\ page' = [height |-> h, y |-> y]
  BY DEF Wheel
<1>2. PICK new : new = [scan EXCEPT !.step = IF scan.stitched THEN "check" ELSE NextTurn]
  OBVIOUS
<1>3. scan' = new /\ UNCHANGED <<tiles, pdf>> /\ scan.step = "wheel" /\ pdf = <<>>
  BY <1>2 DEF Wheel, ScrollingInvariant, LoopIsSound
<1>4. /\ scan.round > 0 /\ scan.stable < StableRounds
      /\ scan.opened <= scan.seen /\ scan.seen <= page.height
      /\ page.height \in Heights /\ scan.opened \in Heights
      /\ scan.opened <= page.height /\ page.y <= page.height - Viewport
  BY <1>3 DEF ScrollingInvariant, LoopIsSound
<1>4a. h \in Nat /\ page.height \in Nat
  BY BoundsHold
<1>5. Distance \in Nat /\ (scan.stitched => Distance = StitchWheel)
  BY DEF Distance
<1>6. /\ y \in Nat /\ y <= h - Viewport
      /\ y <= page.y + Distance
      /\ y = page.y \/ y >= Smaller(page.y + Distance, page.height - Viewport)
  <2>1. 0 <= page.height - Viewport /\ page.height - Viewport <= h - Viewport
    BY <1>1, <1>4, <1>4a
  <2>2. CASE y = page.y
    BY <1>4, <1>5, <2>1, <2>2, <1>4a
  <2>3. CASE y = ScrollTo(page.y + Distance)
    BY <1>4, <1>4a, <1>5, <2>1, <2>3 DEF ScrollTo, Smaller
  <2>4. QED
    BY <1>1, <2>2, <2>3
<1>7. /\ new.step = (IF scan.stitched THEN "check" ELSE NextTurn)
      /\ new.stitched = scan.stitched /\ new.round = scan.round /\ new.opened = scan.opened
      /\ new.seen = scan.seen /\ new.y = scan.y /\ new.stable = scan.stable
      /\ new.covered = scan.covered /\ new \in Scan
  <2>1. scan \in Scan
    BY DEF ScrollingInvariant, ScrollingTypes
  <2>2. QED
    BY <1>2, <2>1, NextTurnIs DEF Scan
<1>8. ScrollingTypes'
  BY <1>1, <1>3, <1>6, <1>7 DEF ScrollingInvariant, ScrollingTypes
<1>9. LoopIsSound'
  <2>1. page'.height = h /\ page'.y = y /\ new.step \in {"check", "done", "measure"}
        /\ (new.step = "measure" => scan.round < MaxSteps)
        /\ (new.step = "check" => scan.stitched)
    BY <1>1, <1>7, NextTurnIs
  <2>2. QED
    BY <1>1, <1>3, <1>4, <1>4a, <1>6, <1>7, <2>1 DEF LoopIsSound
<1>10. PagesAdvance'
  BY <1>3, <1>7, NextTurnIs DEF PagesAdvance, PdfIsComplete
<1>11. FeedAdvances'
  <2>1. SUFFICES ASSUME scan.stitched
                 PROVE  FeedAdvances'
    BY <1>3, <1>7 DEF FeedAdvances
  <2>2. /\ scan.y + Viewport <= scan.covered
        /\ scan.y >= Smaller(scan.opened - Viewport, Reach(scan.round - 1))
        /\ page.y = scan.y /\ Seamless
    BY <1>3, <2>1 DEF ScrollingInvariant, FeedAdvances
  <2>3. Seamless'
    BY <1>3, <1>7, <2>2 DEF Seamless
  <2>4. y # page.y => y > page.y /\ y >= Smaller(scan.opened - Viewport, Reach(scan.round))
    <3>1. SUFFICES ASSUME y # page.y
                   PROVE  /\ y > page.y
                          /\ y >= Smaller(scan.opened - Viewport, Reach(scan.round))
      OBVIOUS
    <3>2. PICK before \in Nat, after \in Nat :
            /\ before = Reach(scan.round - 1) /\ after = Reach(scan.round)
            /\ after = before + StitchWheel
      BY <1>4, ReachGrows
    <3>3. y >= Smaller(page.y + StitchWheel, page.height - Viewport)
      BY <1>5, <1>6, <2>1, <3>1
    <3>4. y > page.y
      BY <1>4, <1>6, <3>1, <3>3 DEF Smaller
    <3>5. y >= Smaller(scan.opened - Viewport, after)
      BY <1>4, <1>6, <2>2, <3>2, <3>3 DEF Smaller
    <3>6. QED
      BY <3>2, <3>4, <3>5
  <2>5. page'.y = y /\ new.step = "check" /\ y <= scan.y + StitchWheel
    BY <1>1, <1>5, <1>6, <1>7, <2>1, <2>2
  <2>6. QED
    BY <1>3, <1>7, <2>2, <2>3, <2>4, <2>5 DEF FeedAdvances
<1>12. QED
  BY <1>8, <1>9, <1>10, <1>11 DEF ScrollingInvariant

(* The end of a turn of the feed, whether the scroll was forced or not.    *)
LEMMA TurnEnds ==
  ASSUME ScrollingInvariant, scan.step = "check",
         NEW y \in Nat, page' = [height |-> page.height, y |-> y],
         y <= page.height - Viewport, y <= scan.y + StitchWheel,
         y >= Smaller(scan.opened - Viewport, Reach(scan.round)),
         scan' = [scan EXCEPT !.step = NextTurn], UNCHANGED <<tiles, pdf>>
  PROVE  ScrollingInvariant'
<1>0. LoopTyped
  BY ScanIs
<1> USE <1>0 DEF LoopTyped, Bounds
<1>1. PICK new : new = [scan EXCEPT !.step = NextTurn]
  OBVIOUS
<1>2. scan' = new /\ pdf = <<>> /\ page'.y = y /\ page'.height = page.height
  BY <1>1 DEF ScrollingInvariant, LoopIsSound
<1>3. /\ scan.round > 0 /\ scan.stable < StableRounds /\ scan.stitched
      /\ page.height \in Heights /\ scan.opened \in Heights
      /\ scan.opened <= page.height
  BY DEF ScrollingInvariant, LoopIsSound
<1>4. /\ new.step = NextTurn
      /\ new.stitched = scan.stitched /\ new.round = scan.round /\ new.opened = scan.opened
      /\ new.stable = scan.stable /\ new.covered = scan.covered /\ new \in Scan
  <2>1. scan \in Scan
    BY DEF ScrollingInvariant, ScrollingTypes
  <2>2. QED
    BY <1>1, <2>1, NextTurnIs DEF Scan
<1>5. ScrollingTypes'
  <2>1. page.height \in {0} \cup Heights
    BY <1>3
  <2>2. QED
    BY <1>2, <1>4, <2>1 DEF ScrollingInvariant, ScrollingTypes
<1>6. LoopIsSound'
  <2>1. new.step \in {"done", "measure"} /\ (new.step = "measure" => scan.round < MaxSteps)
    BY <1>4, NextTurnIs
  <2>2. QED
    BY <1>2, <1>3, <1>4, <2>1 DEF LoopIsSound
<1>7. PagesAdvance'
  BY <1>2, <1>4, NextTurnIs DEF PagesAdvance, PdfIsComplete
<1>8. /\ scan.y + Viewport <= scan.covered
      /\ scan.y >= Smaller(scan.opened - Viewport, Reach(scan.round - 1))
      /\ Seamless
  BY <1>3 DEF ScrollingInvariant, FeedAdvances
<1>9. Seamless'
  BY <1>2, <1>4, <1>8 DEF Seamless
<1>10. scan.round = MaxSteps =>
         scan.covered >= Smaller(scan.opened - Slack, Viewport + Reach(MaxSteps - 1))
  <2>1. PICK before \in Nat : before = Reach(scan.round - 1)
    BY <1>3, ReachGrows
  <2>2. scan.covered >= Smaller(scan.opened - Slack, Viewport + before)
    BY <1>3, <1>8, <2>1 DEF Smaller
  <2>3. QED
    BY <2>1, <2>2
<1>11. y <= scan.covered
  BY <1>8
<1>12. FeedAdvances'
  <2>1. CASE scan.round = MaxSteps
    <3>1. new.step = "done"
      BY <1>4, <2>1, NextTurnIs
    <3>2. QED
      BY <1>2, <1>4, <1>9, <1>10, <2>1, <3>1 DEF FeedAdvances
  <2>2. CASE scan.round # MaxSteps
    <3>1. new.step = "measure"
      BY <1>4, <2>2, NextTurnIs
    <3>2. QED
      BY <1>2, <1>3, <1>4, <1>9, <1>11, <3>1 DEF FeedAdvances
  <2>3. QED
    BY <2>1, <2>2
<1>13. QED
  BY <1>5, <1>6, <1>7, <1>12 DEF ScrollingInvariant

LEMMA CheckStep ==
  ASSUME ScrollingInvariant, ForceScroll \/ Unforced
  PROVE  ScrollingInvariant'
<1>0. LoopTyped
  BY ScanIs
<1> USE <1>0 DEF LoopTyped, Bounds
<1>1. /\ scan.step = "check" /\ scan' = [scan EXCEPT !.step = NextTurn]
      /\ UNCHANGED <<tiles, pdf>>
  <2>1. CASE ForceScroll
    <3>1. scan.step = "check"
      BY <2>1 DEF ForceScroll
    <3>2. scan' = [scan EXCEPT !.step = NextTurn] /\ tiles' = tiles /\ pdf' = pdf
      BY <2>1, Zenon DEF ForceScroll
    <3>3. QED
      BY <3>1, <3>2
  <2>2. CASE Unforced
    BY <2>2 DEF Unforced
  <2>3. QED
    BY <2>1, <2>2
<1>2. /\ scan.round > 0 /\ scan.stitched
      /\ scan.opened <= scan.seen /\ scan.seen <= page.height
      /\ page.height \in Heights /\ scan.opened \in Heights
      /\ scan.opened <= page.height /\ page.y <= page.height - Viewport
      /\ scan.opened >= Viewport
  BY <1>1, BoundsHold DEF ScrollingInvariant, LoopIsSound
<1>3. /\ scan.y >= Smaller(scan.opened - Viewport, Reach(scan.round - 1))
      /\ page.y <= scan.y + StitchWheel
      /\ \/ page.y = scan.y
         \/ /\ page.y > scan.y
            /\ page.y >= Smaller(scan.opened - Viewport, Reach(scan.round))
  BY <1>1, <1>2 DEF ScrollingInvariant, FeedAdvances
<1>4. PICK before \in Nat, after \in Nat :
        /\ before = Reach(scan.round - 1) /\ after = Reach(scan.round)
        /\ after = before + StitchWheel
  BY <1>2, ReachGrows
<1>5. CASE ForceScroll
  <2>1. PICK y : y = ScrollTo(Smaller(scan.y + StitchWheel, Larger(0, scan.seen - Viewport)))
    OBVIOUS
  <2>2. page' = [height |-> page.height, y |-> y]
    <3>1. PICK h0, y0 : page = [height |-> h0, y |-> y0]
      BY ScanIs
    <3>2. page' = [page EXCEPT !.y = y]
      <4>1. Distance = StitchWheel
        BY <1>2 DEF Distance
      <4>2. QED
        BY <1>5, <2>1, <4>1, Zenon DEF ForceScroll
    <3>3. QED
      BY <3>1, <3>2
  <2>3. /\ y \in Nat /\ y <= page.height - Viewport /\ y <= scan.y + StitchWheel
        /\ y >= Smaller(scan.opened - Viewport, scan.y + StitchWheel)
    BY <1>2, <2>1 DEF ScrollTo, Smaller, Larger
  <2>4. y >= Smaller(scan.opened - Viewport, after)
    BY <1>2, <1>3, <1>4, <2>3 DEF Smaller
  <2>5. QED
    BY <1>1, <1>4, <2>2, <2>3, <2>4, TurnEnds
<1>6. CASE Unforced
  <2>1. page' = [height |-> page.height, y |-> page.y]
    BY <1>6, ScanIs DEF Unforced
  <2>2. page.y >= Smaller(scan.opened - Viewport, after)
    <3>1. CASE page.y > scan.y
      BY <1>3, <1>4, <3>1
    <3>2. CASE ~(page.y > scan.y)
      <4>1. scan.y + Viewport >= scan.seen /\ page.y = scan.y
        BY <1>3, <1>6, <3>2 DEF Unforced
      <4>2. QED
        BY <1>2, <1>4, <4>1 DEF Smaller
    <3>3. QED
      BY <3>1, <3>2
  <2>3. QED
    BY <1>1, <1>2, <1>3, <1>4, <2>1, <2>2, TurnEnds
<1>7. QED
  BY <1>5, <1>6

-----------------------------------------------------------------------------
(* What the pages need of the loop: its end, and the height of the image.  *)
LEMMA ImageIs ==
  ASSUME ScrollingInvariant
  PROVE  /\ ImageHeight \in Nat
         /\ scan.step \in {"paginate", "merge", "printed"} =>
              /\ scan.sheet \in PageHeights /\ scan.sheet \in Nat /\ scan.sheet > Overlap
              /\ scan.sheet < ImageHeight
<1>0. LoopTyped
  BY ScanIs
<1>1. QED
  BY <1>0, BoundsHold DEF ScrollingInvariant, LoopIsSound, ImageHeight, LoopTyped

(* Steps after the loop: the page, the tiles and the image stay.           *)
LEMMA AfterLoop ==
  ASSUME ScrollingInvariant, UNCHANGED <<page, tiles>>,
         scan.step \in {"done", "paginate", "merge", "printed"},
         NEW step \in {"paginate", "merge", "printed"}, NEW sheet \in PageHeights,
         scan' = [scan EXCEPT !.step = step, !.sheet = sheet],
         sheet < ImageHeight, pdf' \in Seq(Nat \X Nat), PagesAdvance'
  PROVE  ScrollingInvariant'
<1>1. PICK new : new = [scan EXCEPT !.step = step, !.sheet = sheet]
  OBVIOUS
<1>2. scan \in Scan
  BY ScanIs
<1>3. /\ new \in Scan /\ new.step = step /\ new.sheet = sheet
      /\ new.stitched = scan.stitched /\ new.round = scan.round
      /\ new.opened = scan.opened /\ new.covered = scan.covered
  BY <1>1, <1>2 DEF Scan
<1>4. ScrollingTypes'
  BY <1>1, <1>3 DEF ScrollingInvariant, ScrollingTypes
<1>5. LoopIsSound'
  BY <1>1, <1>3 DEF ScrollingInvariant, LoopIsSound, ImageHeight
<1>6. FeedAdvances'
  BY <1>1, <1>3 DEF ScrollingInvariant, FeedAdvances, Seamless
<1>7. QED
  BY <1>4, <1>5, <1>6 DEF ScrollingInvariant

LEMMA PaginateStep ==
  ASSUME ScrollingInvariant, Paginate
  PROVE  ScrollingInvariant'
<1>1. PICK h \in PageHeights :
        /\ ImageHeight > h
        /\ scan' = [scan EXCEPT !.step = "paginate", !.sheet = h]
  BY DEF Paginate
<1>2. scan.step = "done" /\ pdf = <<>> /\ UNCHANGED <<page, tiles, pdf>>
  BY DEF Paginate, ScrollingInvariant, LoopIsSound
<1>3. scan'.step = "paginate"
  <2>1. scan \in Scan
    BY ScanIs
  <2>2. QED
    BY <1>1, <2>1 DEF Scan
<1>4. Len(pdf') = 0 /\ pdf' \in Seq(Nat \X Nat)
  BY <1>2
<1>5. PagesAdvance'
  BY <1>3, <1>4 DEF PagesAdvance, PdfIsComplete
<1>6. h \in Nat /\ ImageHeight \in Nat
  BY ImageIs, BoundsHold
<1>7. h < ImageHeight
  BY <1>1, <1>6
<1>8. QED
  BY <1>1, <1>2, <1>4, <1>5, <1>7, AfterLoop

(* The tops of the pages.                                                  *)
LEMMA TopsAre ==
  ASSUME NEW d \in Nat, NEW n \in Nat
  PROVE  n * d \in Nat /\ (n + 1) * d = n * d + d
OBVIOUS

LEMMA AddPageStep ==
  ASSUME ScrollingInvariant, AddPage
  PROVE  ScrollingInvariant'
<1>1. PICK bottom : bottom = Smaller(ImageHeight, Top + scan.sheet)
  OBVIOUS
<1>2. PICK step : step = IF bottom >= ImageHeight THEN "merge" ELSE "paginate"
  OBVIOUS
<1>3. /\ scan.step = "paginate" /\ UNCHANGED <<page, tiles>>
      /\ pdf' = Append(pdf, <<Top, bottom>>)
  BY <1>1 DEF AddPage
<1>4. scan' = [scan EXCEPT !.step = step]
  BY <1>1, <1>2, <1>3 DEF AddPage
<1>5. PICK S \in PageHeights, H \in Nat :
        /\ S = scan.sheet /\ H = ImageHeight /\ S \in Nat /\ S > Overlap /\ S < H
        /\ Overlap \in Nat
  BY <1>3, ImageIs, BoundsHold DEF Bounds
<1>6. PICK old \in Seq(Nat \X Nat) : old = pdf
  BY ScanIs
<1>7. PICK n \in Nat : n = Len(old)
  BY LenProperties
<1>8. PICK top \in Nat :
        /\ top = Top /\ top = n * (S - Overlap)
        /\ n = 0 => top = 0
  <2>1. S - Overlap \in Nat
    BY <1>5
  <2>2. n * (S - Overlap) \in Nat /\ (n = 0 => n * (S - Overlap) = 0)
    BY <2>1, TopsAre
  <2>3. QED
    BY <1>5, <1>6, <1>7, <2>2 DEF Top
<1>9. /\ bottom \in Nat /\ bottom <= H /\ bottom <= top + S
      /\ bottom = H \/ bottom = top + S
      /\ n = 0 => bottom < H
  <2>1. bottom = Smaller(H, top + S)
    BY <1>1, <1>5, <1>8
  <2>2. H \in Nat /\ top + S \in Nat /\ (n = 0 => top + S < H)
    BY <1>5, <1>8
  <2>3. QED
    BY <2>1, <2>2 DEF Smaller
<1>10. PICK sheet : sheet = <<top, bottom>>
  OBVIOUS
<1>10a. sheet \in Nat \X Nat /\ sheet[1] = top /\ sheet[2] = bottom
  BY <1>9, <1>10
<1>11. PICK rows : rows = Append(old, sheet)
  OBVIOUS
<1>12. pdf' = rows
  BY <1>3, <1>6, <1>8, <1>10, <1>10a, <1>11
<1>13. /\ rows \in Seq(Nat \X Nat) /\ Len(rows) = n + 1
       /\ \A i \in 1..n : rows[i] = old[i]
       /\ rows[n + 1] = sheet
  BY <1>7, <1>10a, <1>11, AppendProperties
<1>14. \A i \in 1..n : /\ old[i][1] = (i - 1) * (S - Overlap)
                       /\ old[i][2] = old[i][1] + S /\ old[i][2] < H
  BY <1>3, <1>5, <1>6, <1>7 DEF ScrollingInvariant, PagesAdvance, FullPage
<1>15. \A i \in 1..(n + 1) : rows[i][1] = (i - 1) * (S - Overlap)
  <2>1. SUFFICES ASSUME NEW i \in 1..(n + 1)
                 PROVE  rows[i][1] = (i - 1) * (S - Overlap)
    OBVIOUS
  <2>2. CASE i = n + 1
    <3>1. i - 1 = n
      BY <2>2
    <3>2. QED
      BY <1>8, <1>10, <1>10a, <1>13, <2>2, <3>1
  <2>3. CASE i # n + 1
    <3>1. i \in 1..n
      BY <2>3
    <3>2. QED
      BY <1>13, <1>14, <3>1
  <2>4. QED
    BY <2>2, <2>3
<1>16. \A i \in 1..n : rows[i][2] = rows[i][1] + S /\ rows[i][2] < H
  BY <1>13, <1>14
<1>17. /\ scan'.step = step /\ scan'.sheet = S /\ ImageHeight' = H
       /\ scan' = [scan EXCEPT !.step = step, !.sheet = S]
  <2>1. scan \in Scan
    BY ScanIs
  <2>2. PICK new : new = [scan EXCEPT !.step = step]
    OBVIOUS
  <2>3. /\ new.step = step /\ new.sheet = S /\ new.stitched = scan.stitched
        /\ new.covered = scan.covered /\ new = [scan EXCEPT !.step = step, !.sheet = S]
    BY <1>5, <2>1, <2>2 DEF Scan
  <2>4. QED
    BY <1>3, <1>4, <1>5, <2>2, <2>3 DEF ImageHeight
<1>18. PagesAdvance'
  <2>1. Len(pdf') = n + 1
    BY <1>12, <1>13
  <2>2. CASE bottom >= H
    <3>1. bottom = H /\ step = "merge" /\ n > 0
      BY <1>2, <1>5, <1>9, <2>2
    <3>2. /\ (n + 1) - 1 = n /\ n + 1 >= 2
          /\ rows[n + 1][2] = H /\ rows[n + 1][2] <= rows[n + 1][1] + S
      BY <1>9, <1>10, <1>10a, <1>13, <3>1
    <3>3. QED
      BY <1>12, <1>15, <1>16, <1>17, <2>1, <3>1, <3>2
      DEF PagesAdvance, FullPage, PdfIsComplete
  <2>3. CASE ~(bottom >= H)
    <3>1. bottom = top + S /\ bottom < H /\ step = "paginate"
      BY <1>2, <1>5, <1>9, <2>3
    <3>2. \A i \in 1..(n + 1) : rows[i][2] = rows[i][1] + S /\ rows[i][2] < H
      BY <1>10, <1>10a, <1>13, <1>16, <3>1
    <3>3. QED
      BY <1>12, <1>15, <1>17, <2>1, <3>1, <3>2
      DEF PagesAdvance, FullPage, PdfIsComplete
  <2>4. QED
    BY <2>2, <2>3
<1>19. step \in {"paginate", "merge"}
  BY <1>2
<1>20. QED
  BY <1>3, <1>5, <1>12, <1>13, <1>17, <1>18, <1>19, AfterLoop

(* The pages before the last one is joined, and after.                     *)
Cut(old, n, S, H) ==
  /\ \A i \in 1..n : old[i][1] = (i - 1) * (S - Overlap)
  /\ \A i \in 1..(n - 1) : old[i][2] = old[i][1] + S /\ old[i][2] < H
  /\ old[n][2] = H /\ H <= old[n][1] + S

LastJoined(old, n, S, rows, m) ==
  IF 3 * (old[n][2] - old[n][1]) < S
  THEN m = n - 1 /\ rows = [SubSeq(old, 1, n - 1) EXCEPT
                               ![n - 1] = <<old[n - 1][1], old[n][2]>>]
  ELSE m = n /\ rows = old

Complete(rows, m, S, H) ==
  /\ rows[1][1] = 0 /\ rows[m][2] = H
  /\ \A i \in 1..(m - 1) : rows[i + 1][1] = rows[i][2] - Overlap
  /\ \A i \in 1..m : 3 * (rows[i][2] - rows[i][1]) < 4 * S
  /\ m > 1 => 3 * (rows[m][2] - rows[m][1]) >= S

LEMMA ThinJoined ==
  ASSUME NEW S \in Nat, NEW H \in Nat, Overlap \in Nat, NEW top \in Nat, NEW last \in Nat,
         last = top + S - Overlap, 3 * (H - last) < S
  PROVE  3 * (H - top) < 4 * S
<1>1. H - top = (H - last) + S - Overlap
  OBVIOUS
<1>2. QED
  BY <1>1

LEMMA LastPageJoined ==
  ASSUME NEW S \in Nat, NEW H \in Nat, Overlap \in Nat, S > Overlap, S < H,
         NEW old \in Seq(Nat \X Nat), NEW n \in Nat, n = Len(old), n >= 2,
         Cut(old, n, S, H), NEW rows, NEW m, LastJoined(old, n, S, rows, m)
  PROVE  /\ rows \in Seq(Nat \X Nat) /\ Len(rows) = m /\ m \in Nat /\ m >= 1
         /\ Complete(rows, m, S, H)
<1>1. \A i \in 1..n : old[i] \in Nat \X Nat /\ old[i][1] \in Nat /\ old[i][2] \in Nat
  BY ElementOfSeq
<1>2. S - Overlap \in Nat
  OBVIOUS
<1>3. \A i \in 1..(n - 1) : old[i + 1][1] = old[i][2] - Overlap
  <2>1. SUFFICES ASSUME NEW i \in 1..(n - 1)
                 PROVE  old[i + 1][1] = old[i][2] - Overlap
    OBVIOUS
  <2>2. /\ i \in 1..n /\ i + 1 \in 1..n /\ i - 1 \in Nat /\ (i + 1) - 1 = (i - 1) + 1
    OBVIOUS
  <2>3. PICK d \in Nat : d = S - Overlap
    BY <1>2
  <2>4. PICK j \in Nat : j = i - 1
    BY <2>2
  <2>5. old[i][1] = j * d /\ old[i + 1][1] = (j + 1) * d
    BY <2>2, <2>3, <2>4 DEF Cut
  <2>6. old[i + 1][1] = old[i][1] + d
    BY <2>5, TopsAre
  <2>7. old[i][2] = old[i][1] + S
    BY DEF Cut
  <2>8. PICK t \in Nat : t = old[i][1]
    BY <1>1, <2>2
  <2>9. old[i + 1][1] = t + d /\ old[i][2] = t + S
    BY <2>6, <2>7, <2>8
  <2>10. t + d = (t + S) - Overlap
    BY <2>3
  <2>11. QED
    BY <2>9, <2>10
<1>4. old[1][1] = 0
  <2>1. 1 \in 1..n /\ 1 - 1 = 0
    OBVIOUS
  <2>2. old[1][1] = 0 * (S - Overlap)
    BY <2>1 DEF Cut
  <2>3. QED
    BY <1>2, <2>2
<1>5. /\ n \in 1..n /\ n - 1 \in 1..(n - 1) /\ n - 1 \in 1..n /\ (n - 1) + 1 = n
      /\ old[n][1] = old[n - 1][2] - Overlap
      /\ old[n - 1][2] = old[n - 1][1] + S /\ old[n - 1][2] < H
  <2>1. n \in 1..n /\ n - 1 \in 1..(n - 1) /\ n - 1 \in 1..n /\ (n - 1) + 1 = n
    OBVIOUS
  <2>2. old[n - 1][2] = old[n - 1][1] + S /\ old[n - 1][2] < H
    BY <2>1 DEF Cut
  <2>3. old[(n - 1) + 1][1] = old[n - 1][2] - Overlap
    BY <1>3, <2>1
  <2>4. QED
    BY <2>1, <2>2, <2>3
<1>5a. old[n][2] = H /\ H <= old[n][1] + S
  BY DEF Cut
<1>6. CASE ~(3 * (old[n][2] - old[n][1]) < S)
  <2>1. m = n /\ rows = old
    BY <1>6 DEF LastJoined
  <2>2. 3 * (old[n][2] - old[n][1]) >= S
    <3>1. old[n][2] \in Nat /\ old[n][1] \in Nat
      BY <1>1, <1>5
    <3>2. QED
      BY <1>6, <3>1
  <2>3. ASSUME NEW i \in 1..n
        PROVE  3 * (old[i][2] - old[i][1]) < 4 * S
    <3>1. old[i][2] <= old[i][1] + S
      <4>1. CASE i = n
        BY <1>5a, <4>1
      <4>2. CASE i # n
        <5>1. i \in 1..(n - 1)
          BY <4>2
        <5>2. old[i][2] = old[i][1] + S
          BY <5>1 DEF Cut
        <5>3. QED
          BY <1>1, <5>2
      <4>3. QED
        BY <4>1, <4>2
    <3>2. QED
      BY <1>1, <3>1
  <2>4. QED
    BY <1>3, <1>4, <1>5a, <2>1, <2>2, <2>3 DEF Complete
<1>7. CASE 3 * (old[n][2] - old[n][1]) < S
  <2>1. PICK k \in Nat : k = n - 1 /\ k >= 1 /\ n = k + 1 /\ k \in 1..n
    <3>1. n - 1 \in Nat /\ n - 1 >= 1 /\ n = (n - 1) + 1 /\ n - 1 \in 1..n
      OBVIOUS
    <3>2. QED
      BY <3>1
  <2>2. PICK last : last = <<old[k][1], old[n][2]>>
    OBVIOUS
  <2>3. last \in Nat \X Nat /\ last[1] = old[k][1] /\ last[2] = H
    BY <1>1, <1>5, <1>5a, <2>1, <2>2
  <2>4. PICK cut : cut = SubSeq(old, 1, k)
    OBVIOUS
  <2>5. /\ cut \in Seq(Nat \X Nat) /\ Len(cut) = k
        /\ \A i \in 1..k : cut[i] = old[i]
    BY <2>1, <2>4, SubSeqProperties
  <2>6. rows = [cut EXCEPT ![k] = last] /\ m = k
    BY <1>7, <2>1, <2>2, <2>4 DEF LastJoined
  <2>7. /\ rows \in Seq(Nat \X Nat) /\ Len(rows) = k /\ rows[k] = last
        /\ \A i \in 1..k : i # k => rows[i] = old[i]
    <3>1. k \in 1..Len(cut)
      BY <2>1, <2>5
    <3>2. /\ rows \in Seq(Nat \X Nat) /\ Len(rows) = Len(cut)
          /\ \A i \in 1..Len(cut) : rows[i] = IF i = k THEN last ELSE cut[i]
      BY <2>3, <2>5, <2>6, <3>1, ExceptSeq
    <3>3. QED
      BY <2>5, <3>1, <3>2
  <2>8. /\ \A i \in 1..k : rows[i][1] = old[i][1] /\ (i < k => rows[i][2] = old[i][2])
        /\ rows[k][2] = H
    <3>1. ASSUME NEW i \in 1..k
          PROVE  rows[i][1] = old[i][1] /\ (i < k => rows[i][2] = old[i][2])
      <4>1. CASE i = k
        BY <2>3, <2>7, <4>1
      <4>2. CASE i # k
        BY <2>7, <4>2
      <4>3. QED
        BY <4>1, <4>2
    <3>2. QED
      BY <2>3, <2>7, <3>1
  <2>9. ASSUME NEW i \in 1..k
        PROVE  3 * (rows[i][2] - rows[i][1]) < 4 * S
    <3>1. CASE i = k
      <4>1. /\ rows[i][2] = H /\ rows[i][1] = old[k][1]
            /\ old[n][1] = old[k][1] + S - Overlap /\ 3 * (H - old[n][1]) < S
        BY <1>1, <1>5, <1>5a, <1>7, <2>1, <2>8, <3>1
      <4>2. old[k][1] \in Nat /\ old[n][1] \in Nat
        BY <1>1, <1>5, <2>1
      <4>3. 3 * (H - old[k][1]) < 4 * S
        BY <4>1, <4>2, ThinJoined
      <4>4. QED
        BY <4>1, <4>3
    <3>2. CASE i # k
      <4>1. i \in 1..(n - 1) /\ i \in 1..n /\ i < k
        BY <2>1, <3>2
      <4>2. old[i][2] = old[i][1] + S
        BY <4>1 DEF Cut
      <4>2a. rows[i][2] = rows[i][1] + S /\ rows[i][1] \in Nat
        BY <1>1, <2>8, <4>1, <4>2
      <4>3. rows[i][2] - rows[i][1] = S /\ S > 0
        BY <4>2a
      <4>4. QED
        BY <4>3
    <3>3. QED
      BY <3>1, <3>2
  <2>10. 3 * (rows[k][2] - rows[k][1]) >= S
    <3>1. rows[k][2] = H /\ rows[k][1] = old[k][1] /\ old[k][1] + S < H /\ old[k][1] \in Nat
      BY <1>1, <1>5, <2>1, <2>8
    <3>2. QED
      BY <3>1
  <2>11. ASSUME NEW i \in 1..(k - 1)
         PROVE  rows[i + 1][1] = rows[i][2] - Overlap
    <3>1. i \in 1..k /\ i + 1 \in 1..k /\ i < k /\ i \in 1..(n - 1)
      BY <2>1
    <3>2. QED
      BY <1>3, <2>8, <3>1
  <2>12. rows[1][1] = 0
    BY <1>4, <2>1, <2>8
  <2>13. QED
    BY <2>1, <2>6, <2>7, <2>8, <2>9, <2>10, <2>11, <2>12 DEF Complete
<1>8. QED
  BY <1>6, <1>7

LEMMA MergeLastPageStep ==
  ASSUME ScrollingInvariant, MergeLastPage
  PROVE  ScrollingInvariant'
<1>1. scan.step = "merge" /\ scan' = [scan EXCEPT !.step = "printed"]
      /\ UNCHANGED <<page, tiles>>
  BY DEF MergeLastPage
<1>2. PICK S \in PageHeights, H \in Nat :
        /\ S = scan.sheet /\ H = ImageHeight /\ S \in Nat /\ S > Overlap /\ S < H
        /\ Overlap \in Nat
  BY <1>1, ImageIs, BoundsHold DEF Bounds
<1>3. PICK old \in Seq(Nat \X Nat) : old = pdf
  BY ScanIs
<1>4. PICK n \in Nat : n = Len(old)
  BY LenProperties
<1>5. n >= 2 /\ Cut(old, n, S, H)
  BY <1>1, <1>2, <1>3, <1>4 DEF ScrollingInvariant, PagesAdvance, FullPage, Cut
<1>7. PICK rows : rows = pdf'
  OBVIOUS
<1>8. PICK m : m = IF 3 * (old[n][2] - old[n][1]) < S THEN n - 1 ELSE n
  OBVIOUS
<1>9. LastJoined(old, n, S, rows, m)
  <2>1. rows = IF n >= 2 /\ 3 * (old[n][2] - old[n][1]) < S
               THEN [SubSeq(old, 1, n - 1) EXCEPT ![n - 1] = <<@[1], old[n][2]>>]
               ELSE old
    BY <1>2, <1>3, <1>4, <1>7 DEF MergeLastPage, Thin
  <2>2. /\ SubSeq(old, 1, n - 1) \in Seq(Nat \X Nat)
        /\ Len(SubSeq(old, 1, n - 1)) = n - 1
        /\ SubSeq(old, 1, n - 1)[n - 1] = old[n - 1]
    BY <1>4, <1>5, SubSeqProperties
  <2>3. QED
    BY <1>5, <1>8, <2>1, <2>2 DEF LastJoined
<1>10. /\ rows \in Seq(Nat \X Nat) /\ Len(rows) = m /\ m \in Nat /\ m >= 1
       /\ Complete(rows, m, S, H)
  BY <1>2, <1>4, <1>5, <1>9, LastPageJoined
<1>11. /\ scan'.step = "printed" /\ scan'.sheet = S /\ ImageHeight' = H
       /\ scan' = [scan EXCEPT !.step = "printed", !.sheet = S]
  <2>1. scan \in Scan
    BY ScanIs
  <2>2. PICK new : new = [scan EXCEPT !.step = "printed"]
    OBVIOUS
  <2>3. /\ new.step = "printed" /\ new.sheet = S /\ new.stitched = scan.stitched
        /\ new.covered = scan.covered /\ new = [scan EXCEPT !.step = "printed", !.sheet = S]
    BY <1>2, <2>1, <2>2 DEF Scan
  <2>4. QED
    BY <1>1, <1>2, <2>2, <2>3 DEF ImageHeight
<1>12. PagesAdvance'
  BY <1>7, <1>10, <1>11 DEF PagesAdvance, PdfIsComplete, Complete
<1>13. QED
  BY <1>1, <1>2, <1>7, <1>10, <1>11, <1>12, AfterLoop

-----------------------------------------------------------------------------
(* The loop and the pages keep the invariant above, for any page and any   *)
(* growth of it while the browser scrolls.                                 *)
THEOREM ScrollingInvariantHolds == ScrollingSpec => []ScrollingInvariant
<1>1. ScrollingInvariant /\ [ScrollingNext]_scrollVars => ScrollingInvariant'
  <2>1. ASSUME ScrollingInvariant, ScrollingNext
        PROVE  ScrollingInvariant'
    <3>1. CASE OpenPage
      BY <2>1, <3>1, OpenPageStep
    <3>2. CASE Measure
      BY <2>1, <3>2, MeasureStep
    <3>3. CASE Wheel
      BY <2>1, <3>3, WheelStep
    <3>4. CASE ForceScroll \/ Unforced
      BY <2>1, <3>4, CheckStep
    <3>5. CASE Paginate
      BY <2>1, <3>5, PaginateStep
    <3>6. CASE AddPage
      BY <2>1, <3>6, AddPageStep
    <3>7. CASE MergeLastPage
      BY <2>1, <3>7, MergeLastPageStep
    <3>8. QED
      BY <2>1, <3>1, <3>2, <3>3, <3>4, <3>5, <3>6, <3>7 DEF ScrollingNext
  <2>2. ASSUME ScrollingInvariant, UNCHANGED scrollVars
        PROVE  ScrollingInvariant'
    BY <2>2
    DEF ScrollingInvariant, ScrollingTypes, LoopIsSound, FeedAdvances, Seamless, PagesAdvance,
        FullPage, PdfIsComplete, ImageHeight, scrollVars
  <2>3. QED
    BY <2>1, <2>2
<1>2. QED
  BY <1>1, ScrollingInvariantInit, PTL DEF ScrollingSpec

(* Where the browser scrolls and what it has drawn stay inside the page.   *)
THEOREM ScrollingTypeCorrect == ScrollingSpec => []ScrollingTypes
<1>1. ScrollingInvariant => ScrollingTypes
  BY DEF ScrollingInvariant
<1>2. QED
  BY <1>1, ScrollingInvariantHolds, PTL

(* FeedIsCaptured: a feed of any length, that loads more and intercepts    *)
(* the wheel at will, is drawn row by row without a gap or a repetition,   *)
(* as far as the limit of turns allows.                                    *)
THEOREM FeedsAreCaptured == ScrollingSpec => []FeedIsCaptured
<1>1. ScrollingInvariant => FeedIsCaptured
  BY DEF ScrollingInvariant, FeedAdvances, FeedIsCaptured, Reach
<1>2. QED
  BY <1>1, ScrollingInvariantHolds, PTL

(* PdfIsComplete: the pages of the PDF cover an image of any height, two   *)
(* neighbours share the band, and the last one is never a thin strip.      *)
THEOREM PdfsAreComplete == ScrollingSpec => []PdfIsComplete
<1>1. ScrollingInvariant => PdfIsComplete
  BY DEF ScrollingInvariant, PagesAdvance
<1>2. QED
  BY <1>1, ScrollingInvariantHolds, PTL

-------------------------------------------------------------------------------
(* ProductSheets: for any tables, any launches and any failures.           *)
(*                                                                         *)
(* The links of a table are two folds: the function that computes a fold   *)
(* is shown to exist (Sums), then what it returns by a least               *)
(* counterexample.                                                         *)

LEMMA KeptAreAList ==
  ASSUME NEW raw, Len(raw) \in Nat, DOMAIN raw = 1..Len(raw)
  PROVE  FoldLeft(Keep, <<>>, raw) \in Seq({raw[i] : i \in 1..Len(raw)})
<1> DEFINE n == Len(raw)
           T == Seq({raw[i] : i \in 1..n})
           step == [a \in T \X (1..n) |-> Keep(a[1], raw[a[2]])]
           Keeps(it) == it = [s \in SUBSET DOMAIN raw |->
                                IF s = {} THEN <<>>
                                ELSE Keep(it[s \ {Max(s)}], raw[Max(s)])]
<1>0. ASSUME NEW list \in T, NEW i \in 1..n
      PROVE  Keep(list, raw[i]) \in T
  BY AppendProperties DEF Keep
<1>1. <<>> \in T /\ step \in [T \X (1..n) -> T]
  <2>1. <<>> \in T
    BY EmptySeq
  <2> HIDE DEF T
  <2>2. QED
    BY <1>0, <2>1
<1>2. PICK it : FoldsOn(it, <<>>, step, SUBSET (1..n))
  BY FoldExists
<1>3. \A s \in SUBSET (1..n) : it[s] \in T
  <2> HIDE DEF T, step
  <2>1. QED
    BY <1>1, <1>2, FoldTypes
<1>4. Keeps(it)
  <2>1. ASSUME NEW s \in SUBSET (1..n)
        PROVE  (IF s = {} THEN <<>> ELSE step[<<it[s \ {Max(s)}], Max(s)>>]) =
               (IF s = {} THEN <<>> ELSE Keep(it[s \ {Max(s)}], raw[Max(s)]))
    <3>1. SUFFICES ASSUME s # {}
                   PROVE  step[<<it[s \ {Max(s)}], Max(s)>>] = Keep(it[s \ {Max(s)}], raw[Max(s)])
      OBVIOUS
    <3>2. Max(s) \in 1..n /\ it[s \ {Max(s)}] \in T
      BY <1>3, <3>1, MaxIsLast
    <3>3. PICK last \in 1..n, before \in T : last = Max(s) /\ before = it[s \ {Max(s)}]
      BY <3>2
    <3>4. step[<<before, last>>] = Keep(before, raw[last])
      BY <3>3
    <3>5. QED
      BY <3>3, <3>4
  <2>2. it = [s \in SUBSET (1..n) |-> IF s = {} THEN <<>>
                                      ELSE Keep(it[s \ {Max(s)}], raw[Max(s)])]
    BY <1>2, <2>1, Zenon DEF FoldsOn
  <2>3. QED
    BY <2>2
<1> DEFINE iter == CHOOSE f : Keeps(f)
<1>5. Keeps(iter)
  BY <1>4, Zenon
<1>6. FoldLeft(Keep, <<>>, raw) = iter[DOMAIN raw]
  BY Zenon DEF FoldLeft, MapThenFoldSet
<1> DEFINE Bad == {s \in SUBSET (1..n) : iter[s] \notin T}
<1>7. ASSUME Bad # {}
      PROVE  FALSE
  <2>1. PICK s \in Bad : \A x \in s : s \ {x} \notin Bad
    <3>1. Bad \in SUBSET (SUBSET (1..n)) /\ IsFiniteSet(1..n)
      BY FS_Interval
    <3> HIDE DEF Bad
    <3>2. QED
      BY <1>7, <3>1, LeastSubset
  <2>2. iter[s] = IF s = {} THEN <<>> ELSE Keep(iter[s \ {Max(s)}], raw[Max(s)])
    <3> HIDE DEF iter
    <3>1. QED
      BY <1>5
  <2> HIDE DEF iter, T
  <2>3. s # {} /\ Max(s) \in s /\ Max(s) \in 1..n
    BY <1>1, <2>2, MaxIsLast
  <2>4. iter[s \ {Max(s)}] \in T
    BY <2>1, <2>3
  <2>5. QED
    BY <1>0, <2>2, <2>3, <2>4
<1>8. QED
  <2> HIDE DEF iter, T
  <2>1. iter[1..n] \in T
    BY <1>7
  <2>2. QED
    BY <1>6, <2>1 DEF T

LEMMA FollowedAreAList ==
  ASSUME NEW raw, Len(raw) \in Nat, DOMAIN raw = 1..Len(raw)
  PROVE  FoldLeft(Follow, <<>>, raw) \in Seq({raw[i] : i \in 1..Len(raw)})
<1> DEFINE n == Len(raw)
           T == Seq({raw[i] : i \in 1..n})
           step == [a \in T \X (1..n) |-> Follow(a[1], raw[a[2]])]
           Follows(it) == it = [s \in SUBSET DOMAIN raw |->
                                IF s = {} THEN <<>>
                                ELSE Follow(it[s \ {Max(s)}], raw[Max(s)])]
<1>0. ASSUME NEW list \in T, NEW i \in 1..n
      PROVE  Follow(list, raw[i]) \in T
  BY AppendProperties DEF Follow
<1>1. <<>> \in T /\ step \in [T \X (1..n) -> T]
  <2>1. <<>> \in T
    BY EmptySeq
  <2> HIDE DEF T
  <2>2. QED
    BY <1>0, <2>1
<1>2. PICK it : FoldsOn(it, <<>>, step, SUBSET (1..n))
  BY FoldExists
<1>3. \A s \in SUBSET (1..n) : it[s] \in T
  <2> HIDE DEF T, step
  <2>1. QED
    BY <1>1, <1>2, FoldTypes
<1>4. Follows(it)
  <2>1. ASSUME NEW s \in SUBSET (1..n)
        PROVE  (IF s = {} THEN <<>> ELSE step[<<it[s \ {Max(s)}], Max(s)>>]) =
               (IF s = {} THEN <<>> ELSE Follow(it[s \ {Max(s)}], raw[Max(s)]))
    <3>1. SUFFICES ASSUME s # {}
                   PROVE  step[<<it[s \ {Max(s)}], Max(s)>>] = Follow(it[s \ {Max(s)}], raw[Max(s)])
      OBVIOUS
    <3>2. Max(s) \in 1..n /\ it[s \ {Max(s)}] \in T
      BY <1>3, <3>1, MaxIsLast
    <3>3. PICK last \in 1..n, before \in T : last = Max(s) /\ before = it[s \ {Max(s)}]
      BY <3>2
    <3>4. step[<<before, last>>] = Follow(before, raw[last])
      BY <3>3
    <3>5. QED
      BY <3>3, <3>4
  <2>2. it = [s \in SUBSET (1..n) |-> IF s = {} THEN <<>>
                                      ELSE Follow(it[s \ {Max(s)}], raw[Max(s)])]
    BY <1>2, <2>1, Zenon DEF FoldsOn
  <2>3. QED
    BY <2>2
<1> DEFINE iter == CHOOSE f : Follows(f)
<1>5. Follows(iter)
  BY <1>4, Zenon
<1>6. FoldLeft(Follow, <<>>, raw) = iter[DOMAIN raw]
  BY Zenon DEF FoldLeft, MapThenFoldSet
<1> DEFINE Bad == {s \in SUBSET (1..n) : iter[s] \notin T}
<1>7. ASSUME Bad # {}
      PROVE  FALSE
  <2>1. PICK s \in Bad : \A x \in s : s \ {x} \notin Bad
    <3>1. Bad \in SUBSET (SUBSET (1..n)) /\ IsFiniteSet(1..n)
      BY FS_Interval
    <3> HIDE DEF Bad
    <3>2. QED
      BY <1>7, <3>1, LeastSubset
  <2>2. iter[s] = IF s = {} THEN <<>> ELSE Follow(iter[s \ {Max(s)}], raw[Max(s)])
    <3> HIDE DEF iter
    <3>1. QED
      BY <1>5
  <2> HIDE DEF iter, T
  <2>3. s # {} /\ Max(s) \in s /\ Max(s) \in 1..n
    BY <1>1, <2>2, MaxIsLast
  <2>4. iter[s \ {Max(s)}] \in T
    BY <2>1, <2>3
  <2>5. QED
    BY <1>0, <2>2, <2>3, <2>4
<1>8. QED
  <2> HIDE DEF iter, T
  <2>1. iter[1..n] \in T
    BY <1>7
  <2>2. QED
    BY <1>6, <2>1 DEF T

LEMMA LinksAreAList ==
  ASSUME NEW p \in Launches
  PROVE  Len(Links(p)) \in Nat
<1>1. Len(RawLinks[p]) \in Nat /\ DOMAIN RawLinks[p] = 1..Len(RawLinks[p])
  BY ProductSheetsAssumption
<1>2. PICK kept \in Seq({RawLinks[p][i] : i \in 1..Len(RawLinks[p])}) :
        kept = FoldLeft(Keep, <<>>, RawLinks[p])
  BY <1>1, KeptAreAList
<1>3. Len(kept) \in Nat /\ DOMAIN kept = 1..Len(kept)
  BY LenProperties
<1>4. FoldLeft(Follow, <<>>, kept) \in Seq({kept[i] : i \in 1..Len(kept)})
  BY <1>3, FollowedAreAList
<1>5. Links(p) = FoldLeft(Follow, <<>>, kept)
  BY <1>2 DEF Links, LinkLists
<1>6. QED
  BY <1>4, <1>5, LenProperties

(* What a process has done with its links, and what it holds on the disk.  *)
Settled(s, p, n, files) ==
  \/ n \in s.blocked \cup s.errors
  \/ n \in s.ok /\ \E file \in files : file.place = SheetPlace(s.day, Links(p)[n])

SheetRecords(p) ==
  [step : SheetSteps, day : Days \cup {"none"}, rows : SUBSET AllRows(p),
   unsent : BOOLEAN, rank : 1..(Len(Links(p)) + 1), ok : SUBSET Ranks(p),
   blocked : SUBSET Ranks(p), errors : SUBSET Ranks(p)]

(* A process that never was; one that has not come to its links.           *)
Absent == {"none", "failed"}
WithRows == {"start", "send table", "drop table", "rows", "send rows"}
Before == Absent \cup WithRows \cup {"links"}

SheetSound(s, p, files) ==
  /\ s \in SheetRecords(p)
  /\ s.step \notin Absent => s.day \in Days
  /\ s.step \in Before => s.rank = 1
  /\ s.step \in {"shoot", "send", "drop"} => s.rank \in Ranks(p)
  /\ s.step \in {"unlist", "done"} /\ s.rank > 1 => s.rank = Len(Links(p)) + 1
  /\ s.step = "send" => s.rank \in s.ok
  /\ \A n \in Ranks(p) :
       n < s.rank \/ (n = s.rank /\ s.step = "drop") => Settled(s, p, n, files)

SheetShapes ==
  /\ sheets = [p \in Launches |-> sheets[p]]
  /\ workFiles = [f \in WorkFiles |-> workFiles[f]]
  /\ tableFile = [d \in Days |-> tableFile[d]]
  /\ rowFiles = [p \in Launches |-> rowFiles[p]]
  /\ overlapped \subseteq Days
SheetsAreSound == \A p \in Launches : SheetSound(sheets[p], p, drive)
OverlapsAreKnown ==
  \A p, q \in Launches :
    /\ p # q /\ Day(p) = Day(q)
    /\ sheets[p].step \in Working /\ sheets[q].step \in Working
    => Day(p) \in overlapped
ShotsAreReady ==
  \A p \in Launches :
    sheets[p].step = "send" /\ Day(p) \notin overlapped =>
      workFiles[WorkFile(Day(p), sheets[p].rank)] = <<Link(p)>>
HoldsShot(p, d, n) ==
  /\ Day(p) = d
  /\ \/ sheets[p].step \in {"send", "drop"} /\ sheets[p].rank = n
     \/ sheets[p].step = "dead"
ShotsAreHeld ==
  \A d \in Days, n \in UNION {Ranks(p) : p \in Launches} :
    workFiles[WorkFile(d, n)] # Missing => \E p \in Launches : HoldsShot(p, d, n)
HoldsTable(p, d) ==
  Day(p) = d /\ sheets[p].step \in {"send table", "drop table", "dead"}
TablesAreHeld ==
  \A d \in Days :
    tableFile[d] # Missing => \E p \in Launches : HoldsTable(p, d)
SheetFilesAreTrue ==
  \A file \in drive :
    /\ file.place[1] = "sheets"
    /\ file.place[2] \in Days \ overlapped
    => SheetPlace(file.place[2], file.shows[1]) = file.place

(* The images of the rows of a process: those it has to send, unless it    *)
(* found no Drive.                                                         *)
RowsSound(s, p, files) ==
  /\ s.rows \subseteq files /\ files \subseteq AllRows(p)
  /\ s.step \in Absent => s.rows = {}
  /\ s.step \in WithRows => s.rows = files
  /\ s.step \notin Absent \cup WithRows \cup {"dead"} => files = {} \/ s.unsent
RowImagesAreKnown == \A p \in Launches : RowsSound(sheets[p], p, rowFiles[p])

SheetsInvariant ==
  /\ SheetShapes /\ SheetsAreSound /\ OverlapsAreKnown /\ ShotsAreReady
  /\ ShotsAreHeld /\ TablesAreHeld /\ SheetFilesAreTrue /\ RowImagesAreKnown

LEMMA UploadAdds ==
  ASSUME NEW place, NEW content, Upload(place, content)
  PROVE  /\ drive \subseteq drive'
         /\ \E file \in drive' : file.place = place
         /\ \A file \in drive' :
              file \in drive \/ (file.place = place /\ file.shows = content)
<1> DEFINE new == [place |-> place, shows |-> content]
<1>1. new.place = place /\ new.shows = content
  OBVIOUS
<1> HIDE DEF new
<1>2. drive' = IF \E file \in drive : file.place = place THEN drive
               ELSE drive \cup {new}
  BY DEF Upload, new
<1>3. QED
  BY <1>1, <1>2

(* The record of a process that makes a step, by the action.               *)
Moved(p, new) == sheets' = [sheets EXCEPT ![p] = new]

LEMMA MovedOne ==
  ASSUME NEW p \in Launches, NEW new, SheetShapes, Moved(p, new)
  PROVE  /\ sheets' = [q \in Launches |-> sheets'[q]]
         /\ sheets'[p] = new
         /\ \A q \in Launches \ {p} : sheets'[q] = sheets[q]
BY DEF SheetShapes, Moved

LEMMA SettledStays ==
  ASSUME NEW p, NEW s, NEW files, NEW more, files \subseteq more,
         SheetSound(s, p, files)
  PROVE  SheetSound(s, p, more)
<1>1. ASSUME NEW n, Settled(s, p, n, files)
      PROVE  Settled(s, p, n, more)
  BY <1>1 DEF Settled
<1>2. QED
  BY <1>1, Zenon DEF SheetSound
(* A process keeps its day and what it counted.                            *)
Grows(s, new) ==
  /\ new.day = s.day
  /\ s.ok \subseteq new.ok /\ s.blocked \subseteq new.blocked
  /\ s.errors \subseteq new.errors

LEMMA SettledGrows ==
  ASSUME NEW p, NEW s, NEW new, Grows(s, new), NEW n, NEW files, NEW more,
         files \subseteq more, Settled(s, p, n, files)
  PROVE  Settled(new, p, n, more)
BY DEF Settled, Grows

KeepsRows(s, new) == new.rows = s.rows /\ new.unsent = s.unsent

AtStep(s, step) == [s EXCEPT !.step = step]

LEMMA GotoIsSound ==
  ASSUME NEW p \in Launches, NEW s, NEW files, SheetSound(s, p, files),
         NEW step \in SheetSteps \ {"none", "send"}, NEW new,
         new = AtStep(s, step), s.step \notin Absent \/ step \in Absent,
         step \in Before => s.rank = 1,
         step \in {"shoot", "drop"} => s.rank \in Ranks(p),
         step \in {"unlist", "done"} /\ s.rank > 1 => s.rank = Len(Links(p)) + 1,
         NEW more, files \subseteq more,
         step = "drop" => Settled(s, p, s.rank, more)
  PROVE  SheetSound(new, p, more)
<1>1. s \in SheetRecords(p) /\ (s.step \notin Absent => s.day \in Days)
  BY DEF SheetSound
<1>2. /\ new \in SheetRecords(p) /\ Grows(s, new)
      /\ new.step = step /\ new.rank = s.rank /\ new.day = s.day
  <2>1. step \in SheetSteps
    OBVIOUS
  <2>2. /\ new \in SheetRecords(p) /\ Grows(s, new)
        /\ new.step = step /\ new.rank = s.rank
    <3>1. PICK r \in SheetRecords(p) : r = s
      BY <1>1
    <3>2. /\ AtStep(r, step) \in SheetRecords(p) /\ Grows(r, AtStep(r, step))
          /\ AtStep(r, step).step = step /\ AtStep(r, step).rank = r.rank
      BY <2>1 DEF SheetRecords, Grows, AtStep
    <3>3. QED
      BY <3>1, <3>2
  <2>3. QED
    BY <2>2 DEF Grows
<1>3. ASSUME NEW n \in Ranks(p), n < new.rank \/ (n = new.rank /\ new.step = "drop")
      PROVE  Settled(new, p, n, more)
  <2>1. CASE n < s.rank
    <3>1. Settled(s, p, n, files)
      BY <2>1 DEF SheetSound
    <3>2. QED
      BY <1>2, <3>1, SettledGrows
  <2>2. CASE n = s.rank /\ step = "drop"
    <3>1. Settled(s, p, n, more)
      BY <2>2
    <3>2. QED
      BY <1>2, <3>1, SettledGrows
  <2>3. QED
    BY <1>2, <1>3, <2>1, <2>2
<1>4. QED
  <2> HIDE DEF SheetRecords, Ranks
  <2>1. /\ new.step \notin Absent => new.day \in Days
        /\ new.step \in Before => new.rank = 1
        /\ new.step \in {"shoot", "send", "drop"} => new.rank \in Ranks(p)
        /\ new.step \in {"unlist", "done"} /\ new.rank > 1
             => new.rank = Len(Links(p)) + 1
        /\ new.step = "send" => new.rank \in new.ok
    BY <1>1, <1>2
  <2>2. QED
    BY <1>2, <1>3, <2>1, Zenon DEF SheetSound

(* What a process makes of its record, its day being the same.             *)
Continues(p, new) ==
  /\ Moved(p, new) /\ SheetSound(new, p, drive') /\ drive \subseteq drive'
  /\ sheets[p].step \in Working /\ new.day = sheets[p].day

LEMMA GotosContinue ==
  ASSUME SheetsAreSound, NEW p \in Launches,
         \/ DieInSheets(p)
         \/ WriteTable(p) \/ NoTable(p) \/ SendTable(p) \/ DropTable(p)
         \/ StartRows(p) \/ RowsAreSent(p)
         \/ StartLinks(p) \/ SendSheet(p) \/ FinishSheets(p)
  PROVE  \E step \in SheetSteps \ {"none", "send"} :
           Continues(p, AtStep(sheets[p], step))
<1>1. PICK s : s = sheets[p] /\ SheetSound(s, p, drive)
  BY DEF SheetsAreSound
<1>2. s \in SheetRecords(p)
  BY <1>1 DEF SheetSound
<1>3. ASSUME NEW step \in SheetSteps \ {"none", "send"}, Goto(p, step),
             s.step \in Working, drive \subseteq drive',
             step \in Before => s.rank = 1,
             step \in {"shoot", "drop"} => s.rank \in Ranks(p),
             step \in {"unlist", "done"} /\ s.rank > 1 => s.rank = Len(Links(p)) + 1,
             step = "drop" => Settled(s, p, s.rank, drive')
      PROVE  Continues(p, AtStep(sheets[p], step))
  <2> DEFINE new == AtStep(s, step)
  <2>1. s.step \notin Absent
    BY <1>3 DEF Working, Absent
  <2>2. new.day = s.day
    BY <1>2 DEF SheetRecords, AtStep
  <2>3. Moved(p, new)
    BY <1>1, <1>3 DEF Goto, Moved, AtStep
  <2>4. SheetSound(new, p, drive')
    <3> HIDE DEF new
    <3>1. new = AtStep(s, step)
      BY DEF new
    <3>2. QED
      BY <1>1, <1>3, <2>1, <3>1, GotoIsSound
  <2>5. QED
    BY <1>1, <1>3, <2>2, <2>3, <2>4 DEF Continues
<1>4. /\ s.step \in Before => s.rank = 1
      /\ s.step \in {"shoot", "send", "drop"} => s.rank \in Ranks(p)
      /\ s.step \in {"unlist", "done"} /\ s.rank > 1 => s.rank = Len(Links(p)) + 1
      /\ s.step = "send" => s.rank \in s.ok
  BY <1>1 DEF SheetSound
<1> HIDE DEF Ranks
<1> USE DEF Working, SheetSteps, Absent, WithRows, Before
<1>5. CASE NoTable(p) \/ StartRows(p) \/ RowsAreSent(p)
  <2>1. PICK step \in {"rows", "send rows", "links"} :
          Goto(p, step) /\ s.step \in {"start", "rows", "send rows"}
    BY <1>1, <1>5 DEF NoTable, StartRows, RowsAreSent
  <2>2. drive \subseteq drive'
    BY <1>5 DEF NoTable, StartRows, RowsAreSent
  <2>3. QED
    BY <1>3, <1>4, <2>1, <2>2
<1>6. CASE DieInSheets(p)
  <2>1. s.step \in Working /\ Goto(p, "dead") /\ drive \subseteq drive'
    BY <1>1, <1>6 DEF DieInSheets
  <2>2. QED
    BY <1>3, <2>1
<1>7. CASE WriteTable(p)
  BY <1>1, <1>3, <1>4, <1>7 DEF WriteTable
<1>8. CASE SendTable(p)
  <2>1. drive \subseteq drive'
    BY <1>8, UploadAdds DEF SendTable
  <2>2. s.step = "send table" /\ Goto(p, "drop table")
    BY <1>1, <1>8 DEF SendTable
  <2>3. QED
    BY <1>3, <1>4, <2>1, <2>2
<1>9. CASE DropTable(p)
  BY <1>1, <1>3, <1>4, <1>9 DEF DropTable
<1>10. CASE StartLinks(p)
  <2>1. s.step = "links" /\ drive \subseteq drive'
    BY <1>1, <1>10 DEF StartLinks
  <2>2. s.rank = 1 /\ ~(s.rank > 1)
    BY <1>4, <2>1
  <2>3. CASE Goto(p, "shoot") /\ s.rank \in Ranks(p)
    BY <1>3, <2>1, <2>3
  <2>4. CASE Goto(p, "unlist")
    BY <1>3, <2>1, <2>2, <2>4
  <2>5. QED
    BY <1>1, <1>10, <2>3, <2>4 DEF StartLinks
<1>11. CASE SendSheet(p)
  <2>1. /\ drive \subseteq drive'
        /\ \E file \in drive' : file.place = SheetPlace(s.day, Links(p)[s.rank])
    BY <1>1, <1>11, UploadAdds DEF SendSheet, Day, Link
  <2>2. Settled(s, p, s.rank, drive')
    BY <1>1, <1>4, <1>11, <2>1 DEF Settled, SendSheet
  <2>3. QED
    BY <1>1, <1>3, <1>4, <1>11, <2>1, <2>2 DEF SendSheet
<1>12. CASE FinishSheets(p)
  BY <1>1, <1>3, <1>4, <1>12 DEF FinishSheets
<1>13. QED
  BY <1>5, <1>6, <1>7, <1>8, <1>9, <1>10, <1>11, <1>12

RankFits(s, p) ==
  /\ s.step \in Before => s.rank = 1
  /\ s.step \in {"shoot", "send", "drop"} => s.rank \in Ranks(p)
  /\ s.step \in {"unlist", "done"} /\ s.rank > 1 => s.rank = Len(Links(p)) + 1
  /\ s.step = "send" => s.rank \in s.ok

LEMMA RecordsStaySound ==
  ASSUME NEW p \in Launches, NEW s, NEW files, SheetSound(s, p, files),
         s.step \notin Absent, NEW new \in SheetRecords(p), Grows(s, new),
         RankFits(new, p), NEW more, files \subseteq more,
         \A n \in Ranks(p) :
           n < new.rank \/ (n = new.rank /\ new.step = "drop") =>
             \/ n < s.rank \/ (n = s.rank /\ s.step = "drop")
             \/ n \in new.blocked \cup new.errors
  PROVE  SheetSound(new, p, more)
<1>1. ASSUME NEW n \in Ranks(p), n < new.rank \/ (n = new.rank /\ new.step = "drop")
      PROVE  Settled(new, p, n, more)
  <2>1. CASE n < s.rank \/ (n = s.rank /\ s.step = "drop")
    <3>1. Settled(s, p, n, files)
      BY <2>1 DEF SheetSound
    <3>2. QED
      BY <3>1, SettledGrows
  <2>2. CASE n \in new.blocked \cup new.errors
    BY <2>2 DEF Settled
  <2>3. QED
    BY <1>1, <2>1, <2>2
<1>2. new.step \notin Absent => new.day \in Days
  BY DEF SheetSound, Grows
<1>3. QED
  BY <1>1, <1>2, Zenon DEF SheetSound, RankFits

LEMMA ShotsContinue ==
  ASSUME SheetsAreSound, NEW p \in Launches,
         Shoot(p) \/ ShootFails(p) \/ SendFails(p)
  PROVE  \E new : /\ Continues(p, new) /\ new.rank = sheets[p].rank
                  /\ new.step \in {"send", "drop"} /\ KeepsRows(sheets[p], new)
                  /\ new.step = "send" => Shoot(p)
<1>1. PICK s : s = sheets[p] /\ SheetSound(s, p, drive)
  BY DEF SheetsAreSound
<1>2. /\ s \in SheetRecords(p) /\ s.step \in {"shoot", "send"}
      /\ s.rank \in Ranks(p) /\ drive' = drive
  BY <1>1 DEF SheetSound, Shoot, ShootFails, SendFails
<1> DEFINE good == [s EXCEPT !.step = "send", !.ok = @ \cup {s.rank}]
           blocked == [s EXCEPT !.step = "drop", !.blocked = @ \cup {s.rank}]
           wrong == [s EXCEPT !.step = "drop", !.errors = @ \cup {s.rank}]
<1>3. PICK new : /\ Moved(p, new) /\ new \in {good, blocked, wrong}
                 /\ new = good => Shoot(p)
  <2>1. CASE Shoot(p)
    <3>1. Moved(p, good) \/ Moved(p, blocked)
      BY <1>1, <2>1 DEF Shoot, Moved
    <3> HIDE DEF good, blocked, wrong
    <3>2. QED
      BY <2>1, <3>1
  <2>2. CASE ShootFails(p) \/ SendFails(p)
    <3>1. Moved(p, blocked) \/ Moved(p, wrong)
      BY <1>1, <2>2 DEF ShootFails, SendFails, CountFailure, Moved
    <3>2. good # blocked /\ good # wrong
      <4>1. good.step = "send" /\ blocked.step = "drop" /\ wrong.step = "drop"
        BY <1>2 DEF SheetRecords
      <4> HIDE DEF good, blocked, wrong
      <4>2. QED
        BY <4>1
    <3> HIDE DEF good, blocked, wrong
    <3>3. QED
      BY <3>1, <3>2
  <2>3. QED
    BY <2>1, <2>2
<1>4. /\ good \in SheetRecords(p) /\ Grows(s, good) /\ KeepsRows(s, good)
      /\ good.step = "send" /\ good.rank = s.rank /\ s.rank \in good.ok
  BY <1>2 DEF SheetRecords, Grows, KeepsRows, SheetSteps, Working
<1>5. /\ blocked \in SheetRecords(p) /\ Grows(s, blocked) /\ KeepsRows(s, blocked)
      /\ blocked.step = "drop" /\ blocked.rank = s.rank
      /\ s.rank \in blocked.blocked
  BY <1>2 DEF SheetRecords, Grows, KeepsRows, SheetSteps, Working
<1>6. /\ wrong \in SheetRecords(p) /\ Grows(s, wrong) /\ KeepsRows(s, wrong)
      /\ wrong.step = "drop" /\ wrong.rank = s.rank
      /\ s.rank \in wrong.errors
  BY <1>2 DEF SheetRecords, Grows, KeepsRows, SheetSteps, Working
<1> HIDE DEF good, blocked, wrong
<1>7. /\ new \in SheetRecords(p) /\ Grows(s, new) /\ new.rank = s.rank
      /\ new.step \in {"send", "drop"} /\ KeepsRows(s, new)
      /\ new.step = "send" => new = good /\ s.rank \in new.ok
      /\ new.step = "drop" => s.rank \in new.blocked \cup new.errors
  BY <1>3, <1>4, <1>5, <1>6
<1>8. SheetSound(new, p, drive')
  <2>1. RankFits(new, p)
    BY <1>2, <1>7 DEF RankFits, Before, Absent, WithRows
  <2>2. ASSUME NEW n \in Ranks(p),
               n < new.rank \/ (n = new.rank /\ new.step = "drop")
        PROVE  n < s.rank \/ n \in new.blocked \cup new.errors
    BY <1>7, <2>2
  <2> HIDE DEF SheetRecords, Ranks
  <2>3. s.step \notin Absent
    BY <1>2 DEF Absent
  <2>4. QED
    BY <1>1, <1>2, <1>7, <2>1, <2>2, <2>3, RecordsStaySound
<1>9. QED
  <2>1. sheets[p].step \in Working /\ new.day = s.day
    BY <1>1, <1>2, <1>7 DEF Working, SheetSteps, Grows
  <2>2. Continues(p, new)
    BY <1>1, <1>2, <1>3, <1>8, <2>1 DEF Continues
  <2>3. QED
    BY <1>1, <1>3, <1>7, <2>2

LEMMA RowsContinue ==
  ASSUME SheetsAreSound, NEW p \in Launches,
         LeaveRows(p) \/ \E row \in AllRows(p) : SendRow(p, row)
  PROVE  \E new : Continues(p, new) /\ new.step \in {"send rows", "links"}
<1>1. PICK s : s = sheets[p] /\ SheetSound(s, p, drive)
  BY DEF SheetsAreSound
<1>2. s \in SheetRecords(p) /\ s.step \in {"rows", "send rows"} /\ s.rank = 1
  BY <1>1 DEF SheetSound, SendRow, LeaveRows, Before, WithRows
<1>3. PICK new : /\ Moved(p, new) /\ new \in SheetRecords(p) /\ Grows(s, new)
                 /\ new.step \in {"send rows", "links"} /\ new.rank = 1
  <2>1. CASE LeaveRows(p)
    <3> DEFINE left == [s EXCEPT !.step = "links", !.rows = {},
                                 !.unsent = (s.rows # {})]
    <3>1. Moved(p, left)
      BY <1>1, <2>1 DEF LeaveRows, Moved
    <3>2. /\ left \in SheetRecords(p) /\ Grows(s, left)
          /\ left.step = "links" /\ left.rank = 1
      BY <1>2 DEF SheetRecords, SheetSteps, Working, Grows
    <3> HIDE DEF left
    <3>3. QED
      BY <3>1, <3>2
  <2>2. CASE \E row \in AllRows(p) : SendRow(p, row)
    <3>1. PICK row \in AllRows(p) : SendRow(p, row)
      BY <2>2
    <3> DEFINE less == [s EXCEPT !.rows = @ \ {row}]
    <3>2. Moved(p, less) /\ s.step = "send rows"
      BY <1>1, <3>1 DEF SendRow, Moved
    <3>3. /\ less \in SheetRecords(p) /\ Grows(s, less)
          /\ less.step = "send rows" /\ less.rank = 1
      BY <1>2, <3>2 DEF SheetRecords, Grows
    <3> HIDE DEF less
    <3>4. QED
      BY <3>2, <3>3
  <2>3. QED
    BY <2>1, <2>2
<1>4. drive \subseteq drive'
  BY UploadAdds DEF SendRow, LeaveRows
<1>5. SheetSound(new, p, drive')
  <2>1. RankFits(new, p)
    BY <1>3 DEF RankFits
  <2>2. ASSUME NEW n \in Ranks(p),
               n < new.rank \/ (n = new.rank /\ new.step = "drop")
        PROVE  n < s.rank
    BY <1>2, <1>3, <2>2
  <2> HIDE DEF SheetRecords, Ranks
  <2>3. s.step \notin Absent
    BY <1>2 DEF Absent
  <2>4. QED
    BY <1>1, <1>3, <1>4, <2>1, <2>2, <2>3, RecordsStaySound
<1>6. QED
  <2>1. sheets[p].step \in Working /\ new.day = sheets[p].day
    BY <1>1, <1>2, <1>3 DEF Working, Grows
  <2>2. Continues(p, new)
    BY <1>3, <1>4, <1>5, <2>1 DEF Continues
  <2>3. QED
    BY <1>3, <2>2

LEMMA DropsContinue ==
  ASSUME SheetsAreSound, NEW p \in Launches, DropSheet(p)
  PROVE  \E new : /\ Continues(p, new) /\ new.step \in {"shoot", "unlist"}
                  /\ KeepsRows(sheets[p], new)
<1>1. PICK s : s = sheets[p] /\ SheetSound(s, p, drive)
  BY DEF SheetsAreSound
<1>2. /\ s \in SheetRecords(p) /\ s.step = "drop" /\ s.rank \in Ranks(p)
      /\ drive' = drive
  BY <1>1 DEF SheetSound, DropSheet
<1>3. PICK step \in {"shoot", "unlist"} :
        /\ step = IF s.rank + 1 \in Ranks(p) THEN "shoot" ELSE "unlist"
  OBVIOUS
<1> DEFINE new == [s EXCEPT !.rank = @ + 1, !.step = step]
<1>4. Moved(p, new)
  BY <1>1, <1>3 DEF DropSheet, Moved
<1>5. PICK k \in Nat : k = Len(Links(p))
  BY LinksAreAList
<1>6. /\ s.rank \in 1..k /\ s.rank + 1 \in 1..(k + 1)
      /\ s.rank + 1 \in Ranks(p) <=> s.rank + 1 <= k
  BY <1>2, <1>5 DEF Ranks
<1>7. /\ new \in SheetRecords(p) /\ Grows(s, new) /\ KeepsRows(s, new)
      /\ new.step = step /\ new.rank = s.rank + 1
  BY <1>2, <1>5, <1>6 DEF SheetRecords, Grows, KeepsRows, SheetSteps, Working
<1> HIDE DEF new
<1>8. SheetSound(new, p, drive')
  <2>1. RankFits(new, p)
    BY <1>3, <1>5, <1>6, <1>7 DEF RankFits, Before, Absent, WithRows
  <2>2. ASSUME NEW n \in Ranks(p),
               n < new.rank \/ (n = new.rank /\ new.step = "drop")
        PROVE  n < s.rank \/ (n = s.rank /\ s.step = "drop")
    <3>1. n \in 1..k
      BY <1>5 DEF Ranks
    <3>2. QED
      BY <1>2, <1>3, <1>6, <1>7, <2>2, <3>1
  <2> HIDE DEF SheetRecords, Ranks
  <2>3. s.step \notin Absent /\ drive \subseteq drive'
    BY <1>2 DEF Absent
  <2>4. QED
    BY <1>1, <1>7, <2>1, <2>2, <2>3, RecordsStaySound
<1>9. QED
  <2>1. sheets[p].step \in Working /\ new.day = sheets[p].day
    BY <1>1, <1>2, <1>7 DEF Working, SheetSteps, Grows
  <2>2. Continues(p, new)
    BY <1>2, <1>4, <1>8, <2>1 DEF Continues
  <2>3. QED
    BY <1>1, <1>7, <2>2

LEMMA RowsReadAreRows ==
  ASSUME NEW p \in Launches, NEW n \in 0..Len(RawRows[p])
  PROVE  FirstRows(p, n) \subseteq AllRows(p)
<1>1. Len(RawRows[p]) \in Nat
  BY ProductSheetsAssumption
<1>2. QED
  BY <1>1 DEF FirstRows, AllRows

LEMMA LaunchesAreSound ==
  ASSUME SheetsAreSound, NEW p \in Launches, NEW day \in Days, LaunchSheets(p, day)
  PROVE  \E new : /\ Moved(p, new) /\ SheetSound(new, p, drive')
                  /\ new.step = "start" /\ new.day = day
                  /\ \E files \in SUBSET AllRows(p) :
                       /\ rowFiles' = [rowFiles EXCEPT ![p] = files]
                       /\ RowsSound(new, p, files)
<1>1. PICK n \in 0..Len(RawRows[p]) :
        /\ rowFiles' = [rowFiles EXCEPT ![p] = FirstRows(p, n)]
        /\ sheets' = [sheets EXCEPT ![p] = [NoSheets EXCEPT
          !.step = "start", !.day = day, !.rows = FirstRows(p, n)]]
  BY DEF LaunchSheets
<1> DEFINE new == [NoSheets EXCEPT !.step = "start", !.day = day,
                                   !.rows = FirstRows(p, n)]
<1>2. FirstRows(p, n) \subseteq AllRows(p)
  BY RowsReadAreRows
<1>3. Len(Links(p)) \in Nat
  BY LinksAreAList
<1>4. /\ new \in SheetRecords(p) /\ new.step = "start" /\ new.day = day
      /\ new.rank = 1 /\ new.rows = FirstRows(p, n)
  <2>1. 1 \in 1..(Len(Links(p)) + 1)
    BY <1>3
  <2>2. NoSheets \in SheetRecords(p) /\ NoSheets.rank = 1
    BY <2>1 DEF NoSheets, SheetRecords, SheetSteps, Working
  <2>3. PICK none \in SheetRecords(p) : none = NoSheets /\ none.rank = 1
    BY <2>2
  <2>4. QED
    BY <1>2, <2>3 DEF SheetRecords, SheetSteps, Working
<1>5. Moved(p, new)
  BY <1>1 DEF Moved
<1> HIDE DEF new
<1>6. \A n1 \in Ranks(p) : ~(n1 < 1)
  BY <1>3 DEF Ranks
<1>7. SheetSound(new, p, drive')
  BY <1>4, <1>6 DEF SheetSound, Absent
<1>8. RowsSound(new, p, FirstRows(p, n))
  BY <1>2, <1>4 DEF RowsSound, Absent, WithRows
<1>9. QED
  BY <1>1, <1>2, <1>4, <1>5, <1>7, <1>8

-------------------------------------------------------------------------------
(* One conjunct of the invariant after the step of a process.              *)
OthersWait(p) == \A q \in Launches \ {p} : sheets'[q] = sheets[q]
KeepsShot(p) ==
  /\ sheets[p].step # "dead"
  /\ sheets[p].step \in {"send", "drop"} =>
       /\ sheets'[p].day = sheets[p].day
       /\ \/ sheets'[p].step = "dead"
          \/ /\ sheets'[p].step \in {"send", "drop"}
             /\ sheets'[p].rank = sheets[p].rank
KeepsTable(p) ==
  /\ sheets[p].step # "dead"
  /\ sheets[p].step \in {"send table", "drop table"} =>
       /\ sheets'[p].day = sheets[p].day
       /\ sheets'[p].step \in {"send table", "drop table", "dead"}

LEMMA SheetsStaySound ==
  ASSUME SheetsAreSound, NEW p \in Launches, OthersWait(p),
         SheetSound(sheets'[p], p, drive'), drive \subseteq drive'
  PROVE  SheetsAreSound'
<1>1. SUFFICES ASSUME NEW q \in Launches
               PROVE  SheetSound(sheets'[q], q, drive')
  BY Zenon DEF SheetsAreSound, SheetSound, SheetRecords, Settled, SheetPlace
<1>2. CASE q = p
  BY <1>2, Zenon
<1>3. CASE q # p
  <2>1. PICK s : s = sheets[q] /\ s = sheets'[q]
    BY <1>3, Zenon DEF OthersWait
  <2>2. SheetSound(s, q, drive)
    BY <2>1, Zenon DEF SheetsAreSound
  <2>3. SheetSound(s, q, drive')
    BY <2>2, SettledStays, Zenon
  <2>4. QED
    BY <2>1, <2>3, Zenon
<1>4. QED
  BY <1>2, <1>3

LEMMA OverlapsStayKnown ==
  ASSUME OverlapsAreKnown, NEW p \in Launches, OthersWait(p),
         sheets'[p].step \in Working =>
           sheets[p].step \in Working /\ sheets'[p].day = sheets[p].day,
         overlapped \subseteq overlapped'
  PROVE  OverlapsAreKnown'
BY DEF OverlapsAreKnown, OthersWait, Day

LEMMA LaunchedOverlapsAreKnown ==
  ASSUME OverlapsAreKnown, NEW p \in Launches, OthersWait(p),
         NEW day \in Days, LaunchSheets(p, day), sheets'[p].day = day
  PROVE  OverlapsAreKnown'
<1>1. overlapped \subseteq overlapped'
  BY DEF LaunchSheets
<1>2. ASSUME NEW q \in Launches, q # p, sheets[q].step \in Working, sheets[q].day = day
      PROVE  day \in overlapped'
  BY <1>2 DEF LaunchSheets, Day
<1>3. QED
  BY <1>1, <1>2 DEF OverlapsAreKnown, OthersWait, Day

LEMMA ShotsStayReady ==
  ASSUME ShotsAreReady, NEW p \in Launches, OthersWait(p),
         sheets'[p].step # "send",
         \/ workFiles' = workFiles
         \/ /\ SheetShapes /\ SheetsAreSound /\ OverlapsAreKnown
            /\ \E content : workFiles' = [workFiles EXCEPT
                 ![WorkFile(Day(p), sheets[p].rank)] = content]
            /\ sheets[p].step \in Working,
         overlapped \subseteq overlapped'
  PROVE  ShotsAreReady'
<1>1. SUFFICES ASSUME NEW q \in Launches, sheets'[q].step = "send",
                      sheets'[q].day \notin overlapped'
               PROVE  workFiles'[WorkFile(sheets'[q].day, sheets'[q].rank)] =
                        <<Links(q)[sheets'[q].rank]>>
  BY DEF ShotsAreReady, Day, Link, WorkFile
<1>2. PICK s : s = sheets[q] /\ s = sheets'[q] /\ q # p
  BY <1>1 DEF OthersWait
<1>3. s.step = "send" /\ s.day \notin overlapped
  BY <1>1, <1>2
<1>4. workFiles[WorkFile(s.day, s.rank)] = <<Links(q)[s.rank]>>
  BY <1>2, <1>3 DEF ShotsAreReady, Day, Link
<1>5. CASE workFiles' = workFiles
  BY <1>2, <1>4, <1>5
<1>6. CASE workFiles' # workFiles
  <2>1. s.day # Day(p)
    BY <1>2, <1>3, <1>6 DEF OverlapsAreKnown, Day, Working, SheetSteps
  <2>2. PICK content : workFiles' = [workFiles EXCEPT
          ![WorkFile(Day(p), sheets[p].rank)] = content]
    BY <1>6
  <2>3. WorkFile(s.day, s.rank) # WorkFile(Day(p), sheets[p].rank)
    BY <2>1 DEF WorkFile
  <2>4. WorkFile(s.day, s.rank) \in WorkFiles
    <3>1. SheetSound(s, q, drive)
      BY <1>2, <1>6 DEF SheetsAreSound
    <3>2. s.day \in Days /\ s.rank \in Ranks(q)
      BY <1>3, <3>1 DEF SheetSound, Absent
    <3>3. QED
      BY <3>2 DEF WorkFiles
  <2>5. workFiles'[WorkFile(s.day, s.rank)] = workFiles[WorkFile(s.day, s.rank)]
    <3> DEFINE f == WorkFile(s.day, s.rank)
               g == WorkFile(Day(p), sheets[p].rank)
    <3>1. f \in WorkFiles /\ f # g /\ DOMAIN workFiles = WorkFiles
      BY <1>6, <2>3, <2>4 DEF SheetShapes
    <3>2. workFiles' = [workFiles EXCEPT ![g] = content]
      BY <2>2
    <3> HIDE DEF f, g
    <3>3. workFiles'[f] = workFiles[f]
      BY <3>1, <3>2
    <3>4. QED
      BY <3>3 DEF f
  <2>6. QED
    BY <1>2, <1>4, <2>5
<1>7. QED
  BY <1>5, <1>6

LEMMA ShotIsReady ==
  ASSUME SheetShapes, SheetsAreSound, OverlapsAreKnown, ShotsAreReady,
         NEW p \in Launches, OthersWait(p), Shoot(p),
         sheets'[p].rank = sheets[p].rank, sheets'[p].day = sheets[p].day
  PROVE  ShotsAreReady'
<1> DEFINE g == WorkFile(Day(p), sheets[p].rank)
<1>0. sheets[p].step = "shoot" /\ g \in WorkFiles
  <2>1. PICK s : s = sheets[p] /\ SheetSound(s, p, drive)
    BY DEF SheetsAreSound
  <2>2. s.step = "shoot"
    BY <2>1 DEF Shoot
  <2>3. s.day \in Days /\ s.rank \in Ranks(p)
    BY <2>1, <2>2 DEF SheetSound, Absent
  <2>4. QED
    BY <2>1, <2>2, <2>3 DEF WorkFiles, Day
<1>1. SUFFICES ASSUME NEW q \in Launches, sheets'[q].step = "send",
                      sheets'[q].day \notin overlapped'
               PROVE  workFiles'[WorkFile(sheets'[q].day, sheets'[q].rank)] =
                        <<Links(q)[sheets'[q].rank]>>
  BY DEF ShotsAreReady, Day, Link, WorkFile
<1>2. workFiles' = [workFiles EXCEPT ![g] = <<Link(p)>>] /\ overlapped' = overlapped
  BY DEF Shoot
<1>3. CASE q = p
  <2>1. WorkFile(sheets'[q].day, sheets'[q].rank) = g
    BY <1>3 DEF Day
  <2>2. Link(p) = Links(q)[sheets'[q].rank]
    BY <1>3 DEF Link
  <2>3. DOMAIN workFiles = WorkFiles
    BY DEF SheetShapes
  <2> HIDE DEF g
  <2>4. QED
    BY <1>0, <1>2, <2>1, <2>2, <2>3
<1>4. CASE q # p
  <2>1. PICK s : s = sheets[q] /\ s = sheets'[q]
    BY <1>4 DEF OthersWait
  <2>2. s.step = "send" /\ s.day \notin overlapped
    BY <1>1, <1>2, <2>1
  <2>3. workFiles[WorkFile(s.day, s.rank)] = <<Links(q)[s.rank]>>
    BY <2>1, <2>2 DEF ShotsAreReady, Day, Link
  <2>4. s.day # Day(p)
    BY <1>0, <1>4, <2>1, <2>2 DEF OverlapsAreKnown, Day, Working, SheetSteps
  <2>5. WorkFile(s.day, s.rank) # g
    BY <2>4 DEF WorkFile
  <2>6. WorkFile(s.day, s.rank) \in WorkFiles
    <3>1. SheetSound(s, q, drive)
      BY <2>1 DEF SheetsAreSound
    <3>2. s.day \in Days /\ s.rank \in Ranks(q)
      BY <2>2, <3>1 DEF SheetSound, Absent
    <3>3. QED
      BY <3>2 DEF WorkFiles
  <2>7. DOMAIN workFiles = WorkFiles
    BY DEF SheetShapes
  <2> DEFINE f == WorkFile(s.day, s.rank)
  <2>8. workFiles'[f] = workFiles[f]
    <3> HIDE DEF f, g
    <3>1. f \in WorkFiles /\ f # g
      BY <2>5, <2>6 DEF f
    <3>2. QED
      BY <1>2, <2>7, <3>1
  <2>9. QED
    BY <2>1, <2>3, <2>8
<1>5. QED
  BY <1>3, <1>4

LEMMA ShotsStayHeld ==
  ASSUME ShotsAreHeld, NEW p \in Launches, OthersWait(p), KeepsShot(p),
         workFiles' = workFiles
  PROVE  ShotsAreHeld'
<1>1. SUFFICES ASSUME NEW d \in Days, NEW n \in UNION {Ranks(q) : q \in Launches},
                      workFiles'[WorkFile(d, n)] # Missing
               PROVE  \E q \in Launches : HoldsShot(q, d, n)'
  BY Zenon DEF ShotsAreHeld, WorkFile, Missing, Ranks, HoldsShot, Day
<1>2. PICK q \in Launches : HoldsShot(q, d, n)
  BY <1>1 DEF ShotsAreHeld
<1>3. CASE q # p
  BY <1>2, <1>3 DEF HoldsShot, OthersWait, Day
<1>4. CASE q = p
  BY <1>2, <1>4 DEF HoldsShot, KeepsShot, Day
<1>5. QED
  BY <1>3, <1>4

LEMMA ShotIsHeld ==
  ASSUME SheetShapes, SheetsAreSound, ShotsAreHeld, NEW p \in Launches,
         OthersWait(p), Shoot(p), sheets'[p].step \in {"send", "drop"},
         sheets'[p].rank = sheets[p].rank, sheets'[p].day = sheets[p].day
  PROVE  ShotsAreHeld'
<1> DEFINE g == WorkFile(Day(p), sheets[p].rank)
<1>1. SUFFICES ASSUME NEW d \in Days, NEW n \in UNION {Ranks(q) : q \in Launches},
                      workFiles'[WorkFile(d, n)] # Missing
               PROVE  \E q \in Launches : HoldsShot(q, d, n)'
  BY Zenon DEF ShotsAreHeld, WorkFile, Missing, Ranks, HoldsShot, Day
<1>2. workFiles' = [workFiles EXCEPT ![g] = <<Link(p)>>] /\ sheets[p].step = "shoot"
  BY DEF Shoot
<1>3. WorkFile(d, n) \in WorkFiles /\ DOMAIN workFiles = WorkFiles
  BY DEF WorkFiles, SheetShapes
<1>4. CASE WorkFile(d, n) = g
  <2>1. d = Day(p) /\ n = sheets[p].rank
    BY <1>4 DEF WorkFile
  <2>2. HoldsShot(p, d, n)'
    BY <2>1 DEF HoldsShot, Day
  <2>3. QED
    BY <2>2
<1>5. CASE WorkFile(d, n) # g
  <2> DEFINE f == WorkFile(d, n)
  <2>1. workFiles'[f] = workFiles[f]
    <3> HIDE DEF f, g
    <3>1. f \in WorkFiles /\ f # g
      BY <1>3, <1>5 DEF f
    <3>2. QED
      BY <1>2, <1>3, <3>1
  <2>2. PICK q \in Launches : HoldsShot(q, d, n)
    BY <1>1, <2>1 DEF ShotsAreHeld
  <2>3. q # p
    BY <1>2, <2>2 DEF HoldsShot
  <2>4. QED
    BY <2>2, <2>3 DEF HoldsShot, OthersWait, Day
<1>6. QED
  BY <1>4, <1>5

LEMMA DroppedShotIsGone ==
  ASSUME SheetShapes, SheetsAreSound, ShotsAreHeld, NEW p \in Launches,
         OthersWait(p), DropSheet(p)
  PROVE  ShotsAreHeld'
<1> DEFINE g == WorkFile(Day(p), sheets[p].rank)
<1>1. SUFFICES ASSUME NEW d \in Days, NEW n \in UNION {Ranks(q) : q \in Launches},
                      workFiles'[WorkFile(d, n)] # Missing
               PROVE  \E q \in Launches : HoldsShot(q, d, n)'
  BY Zenon DEF ShotsAreHeld, WorkFile, Missing, Ranks, HoldsShot, Day
<1>2. workFiles' = [workFiles EXCEPT ![g] = Missing] /\ sheets[p].step = "drop"
  BY DEF DropSheet
<1>3. WorkFile(d, n) \in WorkFiles /\ DOMAIN workFiles = WorkFiles
  BY DEF WorkFiles, SheetShapes
<1>4. WorkFile(d, n) # g
  <2> DEFINE f == WorkFile(d, n)
  <2>1. SUFFICES ASSUME f = g
                 PROVE  FALSE
    OBVIOUS
  <2> HIDE DEF f, g
  <2>2. f \in WorkFiles /\ workFiles'[f] # Missing
    BY <1>1, <1>3 DEF f
  <2>3. QED
    BY <1>2, <1>3, <2>1, <2>2
<1>5. PICK q \in Launches : HoldsShot(q, d, n)
  <2> DEFINE f == WorkFile(d, n)
  <2>1. workFiles'[f] = workFiles[f]
    <3> HIDE DEF f, g
    <3>1. f \in WorkFiles /\ f # g
      BY <1>3, <1>4 DEF f
    <3>2. QED
      BY <1>2, <1>3, <3>1
  <2>2. QED
    BY <1>1, <2>1 DEF ShotsAreHeld
<1>6. q # p
  BY <1>2, <1>4, <1>5 DEF HoldsShot
<1>7. QED
  BY <1>5, <1>6 DEF HoldsShot, OthersWait, Day

LEMMA TablesStayHeld ==
  ASSUME TablesAreHeld, NEW p \in Launches, OthersWait(p), KeepsTable(p),
         tableFile' = tableFile
  PROVE  TablesAreHeld'
<1>1. SUFFICES ASSUME NEW d \in Days, tableFile'[d] # Missing
               PROVE  \E q \in Launches : HoldsTable(q, d)'
  BY Zenon DEF TablesAreHeld, Missing, HoldsTable, Day
<1>2. PICK q \in Launches : HoldsTable(q, d)
  BY <1>1 DEF TablesAreHeld
<1>3. CASE q # p
  BY <1>2, <1>3 DEF HoldsTable, OthersWait, Day
<1>4. CASE q = p
  BY <1>2, <1>4 DEF HoldsTable, KeepsTable, Day
<1>5. QED
  BY <1>3, <1>4

LEMMA TableIsHeld ==
  ASSUME SheetShapes, TablesAreHeld, NEW p \in Launches, OthersWait(p),
         \/ /\ WriteTable(p)
            /\ sheets'[p].step = "send table" /\ sheets'[p].day = sheets[p].day
         \/ DropTable(p)
  PROVE  TablesAreHeld'
<1>1. SUFFICES ASSUME NEW d \in Days, tableFile'[d] # Missing
               PROVE  \E q \in Launches : HoldsTable(q, d)'
  BY Zenon DEF TablesAreHeld, Missing, HoldsTable, Day
<1>2. /\ \/ tableFile' = [tableFile EXCEPT ![Day(p)] = <<p>>]
         \/ tableFile' = [tableFile EXCEPT ![Day(p)] = Missing]
      /\ DOMAIN tableFile = Days
  BY DEF WriteTable, DropTable, SheetShapes
<1>3. CASE d = Day(p)
  <2>1. WriteTable(p)
    BY <1>1, <1>2, <1>3 DEF DropTable
  <2>2. sheets'[p].step = "send table" /\ sheets'[p].day = d
    BY <1>3, <2>1 DEF Day, WriteTable, DropTable
  <2>3. QED
    BY <2>2 DEF HoldsTable, Day
<1>4. CASE d # Day(p)
  <2>1. tableFile'[d] = tableFile[d]
    BY <1>2, <1>4
  <2>2. PICK q \in Launches : HoldsTable(q, d)
    BY <1>1, <2>1 DEF TablesAreHeld
  <2>3. q # p
    BY <1>4, <2>2 DEF HoldsTable
  <2>4. QED
    BY <2>2, <2>3 DEF HoldsTable, OthersWait, Day
<1>5. QED
  BY <1>3, <1>4

LEMMA FilesStayTrue ==
  ASSUME SheetFilesAreTrue, NEW p, overlapped \subseteq overlapped',
         \A file \in drive' :
           \/ file \in drive
           \/ file.place[1] # "sheets"
           \/ SheetPlace(file.place[2], file.shows[1]) = file.place
           \/ file.place[2] \in overlapped
  PROVE  SheetFilesAreTrue'
BY DEF SheetFilesAreTrue, SheetPlace

LEMMA RowsStayKnown ==
  ASSUME RowImagesAreKnown, NEW p \in Launches, OthersWait(p),
         \A q \in Launches \ {p} : rowFiles'[q] = rowFiles[q],
         RowsSound(sheets'[p], p, rowFiles'[p])
  PROVE  RowImagesAreKnown'
<1>1. SUFFICES ASSUME NEW q \in Launches
               PROVE  RowsSound(sheets'[q], q, rowFiles'[q])
  BY Zenon DEF RowImagesAreKnown, RowsSound, AllRows, FirstRows
<1>2. CASE q # p
  <2>1. RowsSound(sheets[q], q, rowFiles[q])
    BY DEF RowImagesAreKnown
  <2>2. sheets'[q] = sheets[q] /\ rowFiles'[q] = rowFiles[q]
    BY <1>2 DEF OthersWait
  <2>3. QED
    BY <2>1, <2>2, Zenon
<1>3. QED
  BY <1>2

LEMMA RowFilesAreSet ==
  ASSUME SheetShapes, NEW p \in Launches, NEW new,
         \E files : /\ rowFiles' = [rowFiles EXCEPT ![p] = files]
                    /\ RowsSound(new, p, files)
  PROVE  /\ rowFiles' = [q \in Launches |-> rowFiles'[q]]
         /\ \A q \in Launches \ {p} : rowFiles'[q] = rowFiles[q]
         /\ RowsSound(new, p, rowFiles'[p])
<1>1. PICK files : /\ rowFiles' = [rowFiles EXCEPT ![p] = files]
                   /\ RowsSound(new, p, files)
  OBVIOUS
<1>2. /\ rowFiles' = [q \in Launches |-> rowFiles'[q]] /\ rowFiles'[p] = files
      /\ \A q \in Launches \ {p} : rowFiles'[q] = rowFiles[q]
  BY <1>1 DEF SheetShapes
<1>3. QED
  BY <1>1, <1>2, Zenon

(* The images of the rows that a process sends, or leaves.                 *)
LEMMA RowImagesGo ==
  ASSUME SheetShapes, SheetsAreSound, RowImagesAreKnown, NEW p \in Launches,
         LeaveRows(p) \/ \E row \in AllRows(p) : SendRow(p, row)
  PROVE  /\ rowFiles' = [q \in Launches |-> rowFiles'[q]]
         /\ \A q \in Launches \ {p} : rowFiles'[q] = rowFiles[q]
         /\ RowsSound(sheets'[p], p, rowFiles'[p])
<1>1. PICK s : s = sheets[p] /\ s \in SheetRecords(p) /\ RowsSound(s, p, rowFiles[p])
  BY DEF SheetsAreSound, SheetSound, RowImagesAreKnown
<1>2. CASE LeaveRows(p)
  <2> DEFINE new == [s EXCEPT !.step = "links", !.rows = {}, !.unsent = (s.rows # {})]
  <2>1. Moved(p, new) /\ s.step = "rows" /\ rowFiles' = rowFiles
    BY <1>1, <1>2 DEF LeaveRows, Moved
  <2>2. new.step = "links" /\ new.rows = {} /\ (new.unsent <=> s.rows # {})
    BY <1>1 DEF SheetRecords
  <2> HIDE DEF new
  <2>3. RowsSound(new, p, rowFiles[p])
    BY <1>1, <2>1, <2>2 DEF RowsSound, Absent, WithRows
  <2>4. sheets'[p] = new
    BY <2>1, MovedOne
  <2>5. QED
    BY <2>1, <2>3, <2>4 DEF SheetShapes
<1>3. CASE \E row \in AllRows(p) : SendRow(p, row)
  <2>1. PICK row \in AllRows(p) : SendRow(p, row)
    BY <1>3
  <2> DEFINE new == [s EXCEPT !.rows = @ \ {row}]
             files == rowFiles[p] \ {row}
  <2>2. /\ Moved(p, new) /\ s.step = "send rows"
        /\ rowFiles' = [rowFiles EXCEPT ![p] = files]
    BY <1>1, <2>1 DEF SendRow, Moved
  <2>3. new.step = "send rows" /\ new.rows = s.rows \ {row}
    BY <1>1, <2>2 DEF SheetRecords
  <2>4. RowsSound(new, p, files)
    <3> HIDE DEF new
    <3>1. QED
      BY <1>1, <2>2, <2>3 DEF RowsSound, Absent, WithRows
  <2> HIDE DEF new, files
  <2>5. sheets'[p] = new
    BY <2>2, MovedOne
  <2>6. QED
    BY <2>2, <2>4, <2>5, RowFilesAreSet
<1>4. QED
  BY <1>2, <1>3

(* Past its rows, or dead, a process keeps what it has of them.            *)
LEMMA RowsStaySound ==
  ASSUME NEW p, NEW files, NEW s, RowsSound(s, p, files),
         NEW new, KeepsRows(s, new),
         new.step \in Absent => s.step \in Absent,
         new.step \in WithRows => s.step \in WithRows,
         \/ new.step \in Absent \cup WithRows \cup {"dead"}
         \/ s.step \notin Absent \cup WithRows \cup {"dead"}
         \/ s.step = "send rows" /\ s.rows = {}
  PROVE  RowsSound(new, p, files)
BY DEF RowsSound, KeepsRows, WithRows

-------------------------------------------------------------------------------
LEMMA GotoMakes ==
  ASSUME SheetShapes, SheetsAreSound, NEW p \in Launches, NEW step, Goto(p, step)
  PROVE  /\ sheets'[p].step = step /\ sheets'[p].rank = sheets[p].rank
         /\ sheets'[p].day = sheets[p].day /\ KeepsRows(sheets[p], sheets'[p])
<1>1. PICK s : s = sheets[p] /\ s \in SheetRecords(p)
  BY DEF SheetsAreSound, SheetSound
<1>2. Moved(p, AtStep(s, step))
  BY <1>1 DEF Goto, Moved, AtStep
<1>3. sheets'[p] = AtStep(s, step)
  BY <1>2, MovedOne
<1>4. /\ AtStep(s, step).step = step /\ AtStep(s, step).rank = s.rank
      /\ AtStep(s, step).day = s.day /\ KeepsRows(s, AtStep(s, step))
  BY <1>1 DEF SheetRecords, AtStep, KeepsRows
<1>5. QED
  BY <1>1, <1>3, <1>4

(* The conjuncts a step keeps when the files it holds stay with it.        *)
LEMMA ContinuedIsSound ==
  ASSUME SheetsInvariant, NEW p \in Launches, NEW new, Continues(p, new),
         overlapped' = overlapped
  PROVE  /\ OthersWait(p) /\ sheets'[p] = new
         /\ sheets' = [q \in Launches |-> sheets'[q]]
         /\ SheetsAreSound' /\ OverlapsAreKnown'
<1>1. SheetShapes /\ SheetsAreSound /\ OverlapsAreKnown
  BY DEF SheetsInvariant
<1>2. /\ Moved(p, new) /\ SheetSound(new, p, drive') /\ drive \subseteq drive'
      /\ sheets[p].step \in Working /\ new.day = sheets[p].day
  BY DEF Continues
<1>3. /\ OthersWait(p) /\ sheets'[p] = new
      /\ sheets' = [q \in Launches |-> sheets'[q]]
  BY <1>1, <1>2, MovedOne DEF OthersWait
<1>4. SheetsAreSound'
  BY <1>1, <1>2, <1>3, SheetsStaySound
<1>5. OverlapsAreKnown'
  BY <1>1, <1>2, <1>3, OverlapsStayKnown
<1>6. QED
  BY <1>3, <1>4, <1>5

LEMMA GotosKeepInvariant ==
  ASSUME SheetsInvariant, NEW p \in Launches,
         \/ DieInSheets(p)
         \/ WriteTable(p) \/ NoTable(p) \/ SendTable(p) \/ DropTable(p)
         \/ StartRows(p) \/ RowsAreSent(p)
         \/ StartLinks(p) \/ SendSheet(p) \/ FinishSheets(p)
  PROVE  SheetsInvariant'
<1>0. /\ SheetShapes /\ SheetsAreSound /\ OverlapsAreKnown /\ ShotsAreReady
      /\ ShotsAreHeld /\ TablesAreHeld /\ SheetFilesAreTrue
      /\ RowImagesAreKnown
  BY DEF SheetsInvariant
<1>1. workFiles' = workFiles /\ overlapped' = overlapped
  BY DEF DieInSheets, WriteTable, NoTable, SendTable, DropTable, StartRows,
         RowsAreSent, StartLinks, SendSheet, FinishSheets
<1>2. PICK step : Continues(p, AtStep(sheets[p], step))
  BY <1>0, GotosContinue
<1>3. /\ OthersWait(p) /\ sheets' = [q \in Launches |-> sheets'[q]]
      /\ SheetsAreSound' /\ OverlapsAreKnown'
  BY <1>1, <1>2, ContinuedIsSound
<1>4. tableFile' = [d \in Days |-> tableFile'[d]] /\ rowFiles' = rowFiles
  BY <1>0 DEF SheetShapes, DieInSheets, WriteTable, NoTable, SendTable, DropTable,
              StartRows, RowsAreSent, StartLinks, SendSheet, FinishSheets
<1>5. SheetShapes'
  BY <1>0, <1>1, <1>3, <1>4 DEF SheetShapes, WorkFiles, Ranks, WorkFile
<1>6. PICK to : /\ Goto(p, to) /\ to # "send"
                /\ sheets[p].step # "dead"
                /\ sheets[p].step \in {"send", "drop"} => to \in {"drop", "dead"}
                /\ sheets[p].step \in {"send table", "drop table"} /\ ~DropTable(p)
                      => to \in {"drop table", "dead"}
                /\ WriteTable(p) => to = "send table"
                /\ to \notin Absent /\ (to \in WithRows => sheets[p].step \in WithRows)
                /\ \/ to \in WithRows \cup {"dead"}
                   \/ sheets[p].step \notin Absent \cup WithRows \cup {"dead"}
                   \/ sheets[p].step = "send rows" /\ sheets[p].rows = {}
  BY DEF DieInSheets, WriteTable, NoTable, SendTable, DropTable, StartRows,
         RowsAreSent, StartLinks, SendSheet, FinishSheets, Working, Absent, WithRows
<1>7. /\ sheets'[p].step = to /\ sheets'[p].rank = sheets[p].rank
      /\ sheets'[p].day = sheets[p].day /\ KeepsRows(sheets[p], sheets'[p])
  BY <1>0, <1>6, GotoMakes
<1>8. ShotsAreReady'
  BY <1>0, <1>1, <1>3, <1>6, <1>7, ShotsStayReady
<1>9. ShotsAreHeld'
  <2>1. KeepsShot(p)
    BY <1>6, <1>7 DEF KeepsShot
  <2>2. QED
    BY <1>0, <1>1, <1>3, <2>1, ShotsStayHeld
<1>10. TablesAreHeld'
  <2>1. CASE WriteTable(p) \/ DropTable(p)
    BY <1>0, <1>3, <1>6, <1>7, <2>1, TableIsHeld
  <2>2. CASE ~(WriteTable(p) \/ DropTable(p))
    <3>1. KeepsTable(p)
      BY <1>6, <1>7, <2>2 DEF KeepsTable
    <3>2. tableFile' = tableFile
      BY <2>2 DEF DieInSheets, NoTable, SendTable, StartRows, RowsAreSent,
                  StartLinks, SendSheet, FinishSheets
    <3>3. QED
      BY <1>0, <1>3, <3>1, <3>2, TablesStayHeld
  <2>3. QED
    BY <2>1, <2>2
<1>11. SheetFilesAreTrue'
  <2>1. ASSUME NEW file \in drive'
        PROVE  \/ file \in drive
               \/ file.place[1] # "sheets"
               \/ SheetPlace(file.place[2], file.shows[1]) = file.place
               \/ file.place[2] \in overlapped
    <3>1. CASE SendTable(p)
      <4>1. file \in drive \/ file.place = <<"prices", Day(p)>>
        BY <3>1, UploadAdds DEF SendTable
      <4>2. QED
        BY <4>1
    <3>2. CASE SendSheet(p)
      <4> DEFINE g == WorkFile(Day(p), sheets[p].rank)
      <4>1. \/ file \in drive
            \/ /\ file.place = SheetPlace(Day(p), Link(p))
               /\ file.shows = workFiles[g]
        BY <3>2, UploadAdds DEF SendSheet
      <4>2. Day(p) \notin overlapped => workFiles[g] = <<Link(p)>>
        BY <1>0, <3>2 DEF ShotsAreReady, SendSheet
      <4> HIDE DEF g
      <4>3. SheetPlace(Day(p), Link(p))[2] = Day(p)
        BY DEF SheetPlace
      <4>4. CASE file \in drive
        BY <4>4
      <4>5. CASE /\ file.place = SheetPlace(Day(p), Link(p))
                 /\ file.shows = workFiles[g] /\ Day(p) \notin overlapped
        <5>1. file.shows[1] = Link(p)
          BY <4>2, <4>5
        <5>2. QED
          BY <4>3, <4>5, <5>1
      <4>6. QED
        BY <4>1, <4>3, <4>4, <4>5
    <3>3. CASE ~SendTable(p) /\ ~SendSheet(p)
      BY <3>3 DEF DieInSheets, WriteTable, NoTable, DropTable, StartRows,
                  RowsAreSent, StartLinks, FinishSheets
    <3>4. QED
      BY <3>1, <3>2, <3>3
  <2>2. QED
    BY <1>0, <1>1, <2>1, FilesStayTrue
<1>12. RowImagesAreKnown'
  <2>1. RowsSound(sheets[p], p, rowFiles[p])
    BY <1>0 DEF RowImagesAreKnown
  <2>2. RowsSound(sheets'[p], p, rowFiles[p])
    BY <1>6, <1>7, <2>1, RowsStaySound
  <2>3. QED
    BY <1>0, <1>3, <1>4, <2>2, RowsStayKnown, Zenon
<1>13. QED
  BY <1>3, <1>5, <1>8, <1>9, <1>10, <1>11, <1>12 DEF SheetsInvariant

LEMMA ShotsKeepInvariant ==
  ASSUME SheetsInvariant, NEW p \in Launches,
         Shoot(p) \/ ShootFails(p) \/ SendFails(p)
  PROVE  SheetsInvariant'
<1>0. /\ SheetShapes /\ SheetsAreSound /\ OverlapsAreKnown /\ ShotsAreReady
      /\ ShotsAreHeld /\ TablesAreHeld /\ SheetFilesAreTrue
      /\ RowImagesAreKnown
  BY DEF SheetsInvariant
<1>1. /\ tableFile' = tableFile /\ drive' = drive /\ overlapped' = overlapped
      /\ rowFiles' = rowFiles
      /\ Shoot(p) \/ workFiles' = workFiles
      /\ sheets[p].step \in {"shoot", "send"}
  BY DEF Shoot, ShootFails, SendFails
<1>2. PICK new : /\ Continues(p, new) /\ new.rank = sheets[p].rank
                 /\ new.step \in {"send", "drop"} /\ KeepsRows(sheets[p], new)
                 /\ new.step = "send" => Shoot(p)
  BY <1>0, ShotsContinue
<1>3. /\ OthersWait(p) /\ sheets' = [q \in Launches |-> sheets'[q]]
      /\ sheets'[p] = new /\ SheetsAreSound' /\ OverlapsAreKnown'
  BY <1>1, <1>2, ContinuedIsSound
<1>4. /\ sheets'[p].rank = sheets[p].rank /\ sheets'[p].day = sheets[p].day
      /\ sheets'[p].step \in {"send", "drop"}
      /\ sheets'[p].step = "send" => Shoot(p)
  BY <1>2, <1>3 DEF Continues
<1>5. SheetShapes'
  <2>1. workFiles' = [f \in WorkFiles |-> workFiles'[f]]
    BY <1>0, <1>1 DEF SheetShapes, Shoot
  <2>2. QED
    BY <1>0, <1>1, <1>3, <2>1 DEF SheetShapes, WorkFiles, Ranks, WorkFile
<1>6. ShotsAreReady' /\ ShotsAreHeld'
  <2>1. CASE Shoot(p)
    <3>1. ShotsAreReady'
      BY <1>0, <1>3, <1>4, <2>1, ShotIsReady
    <3>2. ShotsAreHeld'
      BY <1>0, <1>3, <1>4, <2>1, ShotIsHeld
    <3>3. QED
      BY <3>1, <3>2
  <2>2. CASE ~Shoot(p)
    <3>1. workFiles' = workFiles /\ sheets'[p].step # "send"
      BY <1>1, <1>4, <2>2
    <3>2. ShotsAreReady'
      BY <1>0, <1>1, <1>3, <3>1, ShotsStayReady
    <3>3. KeepsShot(p)
      BY <1>1, <1>4 DEF KeepsShot
    <3>4. ShotsAreHeld'
      BY <1>0, <1>3, <3>1, <3>3, ShotsStayHeld
    <3>5. QED
      BY <3>2, <3>4
  <2>3. QED
    BY <2>1, <2>2
<1>7. TablesAreHeld'
  <2>1. KeepsTable(p)
    BY <1>1 DEF KeepsTable
  <2>2. QED
    BY <1>0, <1>1, <1>3, <2>1, TablesStayHeld
<1>8. SheetFilesAreTrue'
  BY <1>0, <1>1, FilesStayTrue
<1>9. RowImagesAreKnown'
  <2>1. RowsSound(sheets[p], p, rowFiles[p])
    BY <1>0 DEF RowImagesAreKnown
  <2>2. RowsSound(sheets'[p], p, rowFiles[p])
    BY <1>1, <1>2, <1>3, <2>1, RowsStaySound DEF Absent, WithRows
  <2>3. QED
    BY <1>0, <1>1, <1>3, <2>2, RowsStayKnown, Zenon
<1>10. QED
  BY <1>3, <1>5, <1>6, <1>7, <1>8, <1>9 DEF SheetsInvariant

LEMMA OtherSheetsKeepInvariant ==
  ASSUME SheetsInvariant, NEW p \in Launches,
         \/ \E day \in Days : LaunchSheets(p, day)
         \/ CaptureFails(p)
         \/ LeaveRows(p) \/ \E row \in AllRows(p) : SendRow(p, row)
         \/ DropSheet(p)
  PROVE  SheetsInvariant'
<1>0. /\ SheetShapes /\ SheetsAreSound /\ OverlapsAreKnown /\ ShotsAreReady
      /\ ShotsAreHeld /\ TablesAreHeld /\ SheetFilesAreTrue
      /\ RowImagesAreKnown
  BY DEF SheetsInvariant
<1>1. /\ tableFile' = tableFile /\ overlapped \subseteq overlapped'
      /\ overlapped' \subseteq Days
  BY <1>0 DEF LaunchSheets, CaptureFails, LeaveRows, SendRow, DropSheet, SheetShapes
<1>2. CASE \E day \in Days : LaunchSheets(p, day)
  <2>1. PICK day \in Days : LaunchSheets(p, day)
    BY <1>2
  <2>2. workFiles' = workFiles /\ drive' = drive /\ sheets[p].step = "none"
    BY <2>1 DEF LaunchSheets
  <2>3. PICK new : /\ Moved(p, new) /\ SheetSound(new, p, drive')
                   /\ new.step = "start" /\ new.day = day
                   /\ \E files \in SUBSET AllRows(p) :
                        /\ rowFiles' = [rowFiles EXCEPT ![p] = files]
                        /\ RowsSound(new, p, files)
    BY <1>0, <2>1, LaunchesAreSound
  <2>4. /\ OthersWait(p) /\ sheets'[p] = new
        /\ sheets' = [q \in Launches |-> sheets'[q]]
    BY <1>0, <2>3, MovedOne DEF OthersWait
  <2>5. SheetsAreSound'
    BY <1>0, <2>2, <2>3, <2>4, SheetsStaySound
  <2>6. OverlapsAreKnown'
    BY <1>0, <2>1, <2>3, <2>4, LaunchedOverlapsAreKnown
  <2>7. ShotsAreReady'
    BY <1>0, <1>1, <2>2, <2>3, <2>4, ShotsStayReady
  <2>8. KeepsShot(p) /\ KeepsTable(p)
    BY <2>2 DEF KeepsShot, KeepsTable
  <2>9. ShotsAreHeld'
    BY <1>0, <2>2, <2>4, <2>8, ShotsStayHeld
  <2>10. TablesAreHeld'
    BY <1>0, <1>1, <2>4, <2>8, TablesStayHeld
  <2>11. SheetFilesAreTrue'
    BY <1>0, <1>1, <2>2, FilesStayTrue
  <2>12. /\ rowFiles' = [q \in Launches |-> rowFiles'[q]]
         /\ \A q \in Launches \ {p} : rowFiles'[q] = rowFiles[q]
         /\ RowsSound(sheets'[p], p, rowFiles'[p])
    BY <1>0, <2>3, <2>4, RowFilesAreSet
  <2>13. SheetShapes'
    BY <1>0, <1>1, <2>2, <2>4, <2>12 DEF SheetShapes, WorkFiles, Ranks, WorkFile
  <2>14. RowImagesAreKnown'
    BY <1>0, <2>4, <2>12, RowsStayKnown
  <2>15. QED
    BY <2>5, <2>6, <2>7, <2>9, <2>10, <2>11, <2>13, <2>14 DEF SheetsInvariant
<1>3. CASE LeaveRows(p) \/ \E row \in AllRows(p) : SendRow(p, row)
  <2>1. /\ workFiles' = workFiles /\ overlapped' = overlapped
        /\ sheets[p].step \in {"rows", "send rows"}
    BY <1>3 DEF SendRow, LeaveRows
  <2>2. PICK new : Continues(p, new) /\ new.step \in {"send rows", "links"}
    BY <1>0, <1>3, RowsContinue
  <2>3. /\ OthersWait(p) /\ sheets' = [q \in Launches |-> sheets'[q]]
        /\ sheets'[p] = new /\ SheetsAreSound' /\ OverlapsAreKnown'
    BY <2>1, <2>2, ContinuedIsSound
  <2>4. ShotsAreReady'
    BY <1>0, <1>1, <2>1, <2>2, <2>3, ShotsStayReady
  <2>5. KeepsShot(p) /\ KeepsTable(p)
    BY <2>1 DEF KeepsShot, KeepsTable
  <2>6. ShotsAreHeld'
    BY <1>0, <2>1, <2>3, <2>5, ShotsStayHeld
  <2>7. TablesAreHeld'
    BY <1>0, <1>1, <2>3, <2>5, TablesStayHeld
  <2>8. ASSUME NEW file \in drive'
        PROVE  file \in drive \/ file.place[1] # "sheets"
    <3>1. CASE LeaveRows(p)
      BY <3>1 DEF LeaveRows
    <3>2. CASE \E row \in AllRows(p) : SendRow(p, row)
      <4>1. PICK row \in AllRows(p) : SendRow(p, row)
        BY <3>2
      <4>2. file \in drive \/ file.place = <<"rows", Day(p), row>>
        BY <4>1, UploadAdds DEF SendRow
      <4>3. QED
        BY <4>2
    <3>3. QED
      BY <1>3, <3>1, <3>2
  <2>9. SheetFilesAreTrue'
    BY <1>0, <1>1, <2>8, FilesStayTrue
  <2>10. /\ rowFiles' = [q \in Launches |-> rowFiles'[q]]
         /\ \A q \in Launches \ {p} : rowFiles'[q] = rowFiles[q]
         /\ RowsSound(sheets'[p], p, rowFiles'[p])
    BY <1>0, <1>3, RowImagesGo
  <2>11. SheetShapes'
    <3>1. /\ sheets' = [q \in Launches |-> sheets'[q]]
          /\ rowFiles' = [q \in Launches |-> rowFiles'[q]]
          /\ workFiles' = workFiles /\ tableFile' = tableFile
      BY <1>1, <2>1, <2>3, <2>10
    <3>2. QED
      BY <1>0, <1>1, <3>1 DEF SheetShapes, WorkFiles, Ranks, WorkFile
  <2>12. RowImagesAreKnown'
    BY <1>0, <2>3, <2>10, RowsStayKnown
  <2>13. QED
    BY <2>3, <2>4, <2>6, <2>7, <2>9, <2>11, <2>12 DEF SheetsInvariant
<1>4. CASE DropSheet(p)
  <2>1. /\ workFiles' = [workFiles EXCEPT
             ![WorkFile(Day(p), sheets[p].rank)] = Missing]
        /\ overlapped' = overlapped /\ drive' = drive /\ rowFiles' = rowFiles
        /\ sheets[p].step = "drop"
    BY <1>4 DEF DropSheet
  <2>2. PICK new : /\ Continues(p, new) /\ new.step \in {"shoot", "unlist"}
                   /\ KeepsRows(sheets[p], new)
    BY <1>0, <1>4, DropsContinue
  <2>3. /\ OthersWait(p) /\ sheets' = [q \in Launches |-> sheets'[q]]
        /\ sheets'[p] = new /\ SheetsAreSound' /\ OverlapsAreKnown'
    BY <2>1, <2>2, ContinuedIsSound
  <2>4. ShotsAreReady'
    <3>1. sheets[p].step \in Working /\ sheets'[p].step # "send"
      BY <2>1, <2>2, <2>3 DEF Working, SheetSteps
    <3>2. \E content : workFiles' = [workFiles EXCEPT
             ![WorkFile(Day(p), sheets[p].rank)] = content]
      BY <2>1
    <3>3. QED
      BY <1>0, <1>1, <2>3, <3>1, <3>2, ShotsStayReady
  <2>5. ShotsAreHeld'
    BY <1>0, <1>4, <2>3, DroppedShotIsGone
  <2>6. TablesAreHeld'
    <3>1. KeepsTable(p)
      BY <2>1 DEF KeepsTable
    <3>2. QED
      BY <1>0, <1>1, <2>3, <3>1, TablesStayHeld
  <2>7. SheetFilesAreTrue'
    BY <1>0, <1>1, <2>1, FilesStayTrue
  <2>8. workFiles' = [f \in WorkFiles |-> workFiles'[f]]
    BY <1>0, <2>1 DEF SheetShapes
  <2>9. SheetShapes'
    BY <1>0, <1>1, <2>1, <2>3, <2>8 DEF SheetShapes, WorkFiles, Ranks, WorkFile
  <2>10. RowImagesAreKnown'
    <3>1. RowsSound(sheets[p], p, rowFiles[p])
      BY <1>0 DEF RowImagesAreKnown
    <3>2. RowsSound(sheets'[p], p, rowFiles[p])
      BY <2>1, <2>2, <2>3, <3>1, RowsStaySound DEF Absent, WithRows
    <3>3. QED
      BY <1>0, <2>1, <2>3, <3>2, RowsStayKnown, Zenon
  <2>11. QED
    BY <2>3, <2>4, <2>5, <2>6, <2>7, <2>9, <2>10 DEF SheetsInvariant
<1>5. CASE CaptureFails(p)
  <2>1. PICK s : s = sheets[p] /\ SheetSound(s, p, drive) /\ RowsSound(s, p, rowFiles[p])
    BY <1>0 DEF SheetsAreSound, RowImagesAreKnown
  <2>2. /\ workFiles' = workFiles /\ drive' = drive /\ s.step = "none"
        /\ Goto(p, "failed")
    BY <1>5, <2>1 DEF CaptureFails
  <2>3. PICK new : /\ Moved(p, new) /\ new = AtStep(s, "failed")
                   /\ new.step = "failed" /\ new.rows = s.rows
    <3>1. AtStep(s, "failed").step = "failed" /\ AtStep(s, "failed").rows = s.rows
      BY <2>1 DEF SheetSound, SheetRecords, AtStep
    <3>2. Moved(p, AtStep(s, "failed"))
      BY <2>1, <2>2 DEF Goto, Moved, AtStep
    <3>3. QED
      BY <3>1, <3>2
  <2>4. /\ OthersWait(p) /\ sheets'[p] = new
        /\ sheets' = [q \in Launches |-> sheets'[q]]
    BY <1>0, <2>3, MovedOne DEF OthersWait
  <2>5. SheetSound(new, p, drive')
    <3>1. s.rank = 1
      BY <2>1, <2>2 DEF SheetSound, Before, Absent
    <3>2. "failed" \in SheetSteps /\ "failed" \in Absent
      BY DEF SheetSteps, Absent
    <3>3. QED
      BY <2>1, <2>2, <2>3, <3>1, <3>2, GotoIsSound
  <2>6. SheetsAreSound'
    BY <1>0, <2>2, <2>4, <2>5, SheetsStaySound
  <2>7. OverlapsAreKnown'
    BY <1>0, <1>1, <2>3, <2>4, OverlapsStayKnown DEF Working
  <2>8. ShotsAreReady'
    BY <1>0, <1>1, <2>2, <2>3, <2>4, ShotsStayReady
  <2>9. KeepsShot(p) /\ KeepsTable(p)
    BY <2>1, <2>2 DEF KeepsShot, KeepsTable
  <2>10. ShotsAreHeld'
    BY <1>0, <2>2, <2>4, <2>9, ShotsStayHeld
  <2>11. TablesAreHeld'
    BY <1>0, <1>1, <2>4, <2>9, TablesStayHeld
  <2>12. SheetFilesAreTrue'
    BY <1>0, <1>1, <2>2, FilesStayTrue
  <2>13. PICK files \in SUBSET AllRows(p) : rowFiles' = [rowFiles EXCEPT ![p] = files]
    BY <1>5, RowsReadAreRows DEF CaptureFails
  <2>14. /\ rowFiles' = [q \in Launches |-> rowFiles'[q]]
         /\ \A q \in Launches \ {p} : rowFiles'[q] = rowFiles[q]
         /\ RowsSound(new, p, rowFiles'[p])
    <3>1. RowsSound(new, p, files)
      BY <2>1, <2>2, <2>3 DEF RowsSound, Absent, WithRows
    <3>2. QED
      BY <1>0, <2>13, <3>1, RowFilesAreSet
  <2>15. SheetShapes'
    BY <1>0, <1>1, <2>2, <2>4, <2>14 DEF SheetShapes, WorkFiles, Ranks, WorkFile
  <2>16. RowImagesAreKnown'
    BY <1>0, <2>4, <2>14, RowsStayKnown
  <2>17. QED
    BY <2>6, <2>7, <2>8, <2>10, <2>11, <2>12, <2>15, <2>16 DEF SheetsInvariant
<1>6. QED
  BY <1>2, <1>3, <1>4, <1>5

LEMMA SheetsInvariantInit ==
  ASSUME ProductSheetsInit
  PROVE  SheetsInvariant
<1>1. /\ SheetShapes /\ overlapped = {} /\ drive = {}
      /\ \A p \in Launches : sheets[p] = NoSheets
  BY DEF ProductSheetsInit, SheetShapes
<1>2. \A p \in Launches : sheets[p].step = "none"
  BY <1>1 DEF NoSheets
<1>3. ASSUME NEW p \in Launches
      PROVE  SheetSound(sheets[p], p, drive)
  <2>1. PICK k \in Nat : k = Len(Links(p))
    BY LinksAreAList
  <2>2. /\ NoSheets \in SheetRecords(p) /\ NoSheets.rank = 1
        /\ NoSheets.step = "none"
    BY <2>1 DEF NoSheets, SheetRecords, SheetSteps, Working
  <2>3. \A n \in Ranks(p) : ~(n < 1)
    BY <2>1 DEF Ranks
  <2>4. QED
    BY <1>1, <2>2, <2>3 DEF SheetSound, Absent
<1>4. /\ SheetsAreSound /\ OverlapsAreKnown /\ ShotsAreReady /\ SheetFilesAreTrue
  BY <1>1, <1>2, <1>3 DEF SheetsAreSound, OverlapsAreKnown, ShotsAreReady,
                          SheetFilesAreTrue, Working, SheetSteps
<1>5. ShotsAreHeld
  BY DEF ShotsAreHeld, ProductSheetsInit, WorkFiles
<1>6. TablesAreHeld
  BY DEF TablesAreHeld, ProductSheetsInit
<1>7. RowImagesAreKnown
  BY <1>1 DEF RowImagesAreKnown, RowsSound, ProductSheetsInit, NoSheets, Absent, WithRows
<1>8. QED
  BY <1>1, <1>4, <1>5, <1>6, <1>7 DEF SheetsInvariant

LEMMA SheetsInvariantStep ==
  ASSUME SheetsInvariant, [ProductSheetsNext]_sheetVars
  PROVE  SheetsInvariant'
<1>1. CASE ProductSheetsNext
  <2>1. PICK p \in Launches :
          \/ \E day \in Days : LaunchSheets(p, day)
          \/ CaptureFails(p) \/ DieInSheets(p)
          \/ WriteTable(p) \/ NoTable(p) \/ SendTable(p) \/ DropTable(p)
          \/ StartRows(p) \/ LeaveRows(p) \/ \E row \in AllRows(p) : SendRow(p, row)
          \/ RowsAreSent(p) \/ StartLinks(p) \/ Shoot(p) \/ ShootFails(p) \/ SendSheet(p)
          \/ SendFails(p) \/ DropSheet(p) \/ FinishSheets(p)
    BY <1>1, Zenon DEF ProductSheetsNext
  <2>2. QED
    BY <2>1, GotosKeepInvariant, ShotsKeepInvariant, OtherSheetsKeepInvariant, Zenon
<1>2. CASE UNCHANGED sheetVars
  <2>1. /\ sheets' = sheets /\ workFiles' = workFiles /\ tableFile' = tableFile
        /\ drive' = drive /\ overlapped' = overlapped /\ rowFiles' = rowFiles
    BY <1>2 DEF sheetVars
  <2>2. SheetShapes' /\ OverlapsAreKnown' /\ TablesAreHeld'
    <3>1. SheetShapes'
      BY <2>1 DEF SheetsInvariant, SheetShapes, WorkFiles, WorkFile, Ranks
    <3>2. OverlapsAreKnown'
      BY <2>1 DEF SheetsInvariant, OverlapsAreKnown, Day
    <3>3. TablesAreHeld'
      BY <2>1 DEF SheetsInvariant, TablesAreHeld, HoldsTable, Day, Missing
    <3>4. QED
      BY <3>1, <3>2, <3>3
  <2>3. SheetsAreSound'
    BY <2>1 DEF SheetsInvariant, SheetsAreSound, SheetSound, SheetRecords,
                Settled, SheetPlace
  <2>4. ShotsAreReady' /\ ShotsAreHeld'
    BY <2>1 DEF SheetsInvariant, ShotsAreReady, ShotsAreHeld, HoldsShot, Link,
                Day, WorkFile, Ranks, Missing
  <2>5. SheetFilesAreTrue'
    BY <2>1 DEF SheetsInvariant, SheetFilesAreTrue, SheetPlace
  <2>6. RowImagesAreKnown'
    BY <2>1 DEF SheetsInvariant, RowImagesAreKnown, RowsSound, AllRows, FirstRows
  <2>7. QED
    BY <2>2, <2>3, <2>4, <2>5, <2>6 DEF SheetsInvariant
<1>3. QED
  BY <1>1, <1>2

(* The invariant of the sheets holds, whatever the tables, the launches of *)
(* the runs and the failures of Drive.                                     *)
THEOREM SheetsInvariantHolds == ProductSheetsSpec => []SheetsInvariant
<1>1. ProductSheetsInit => SheetsInvariant
  BY SheetsInvariantInit
<1>2. SheetsInvariant /\ [ProductSheetsNext]_sheetVars => SheetsInvariant'
  BY SheetsInvariantStep
<1>3. QED
  BY <1>1, <1>2, PTL DEF ProductSheetsSpec

LEMMA SheetsInvariantGivesTypes ==
  ASSUME SheetsInvariant
  PROVE  ProductSheetTypes
<1>1. ASSUME NEW p \in Launches
      PROVE  /\ sheets[p].step \in SheetSteps
             /\ sheets[p].day \in Days \cup {"none"}
             /\ sheets[p].rank \in 1..(Len(Links(p)) + 1)
             /\ UNION {sheets[p].ok, sheets[p].blocked, sheets[p].errors}
                  \subseteq Ranks(p)
             /\ sheets[p].rows \subseteq rowFiles[p] /\ rowFiles[p] \subseteq AllRows(p)
             /\ sheets[p].unsent \in BOOLEAN
  <2>1. PICK s : s = sheets[p] /\ s \in SheetRecords(p)
    BY DEF SheetsInvariant, SheetsAreSound, SheetSound
  <2> HIDE DEF Ranks
  <2>2. /\ s.step \in SheetSteps /\ s.day \in Days \cup {"none"}
        /\ s.rank \in 1..(Len(Links(p)) + 1) /\ s.unsent \in BOOLEAN
        /\ s.ok \subseteq Ranks(p) /\ s.blocked \subseteq Ranks(p)
        /\ s.errors \subseteq Ranks(p)
    BY <2>1 DEF SheetRecords
  <2>3. s.rows \subseteq rowFiles[p] /\ rowFiles[p] \subseteq AllRows(p)
    BY <2>1 DEF SheetsInvariant, RowImagesAreKnown, RowsSound
  <2>4. QED
    BY <2>1, <2>2, <2>3
<1>2. DOMAIN workFiles = WorkFiles /\ DOMAIN tableFile = Days /\ overlapped \subseteq Days
  BY DEF SheetsInvariant, SheetShapes
<1>3. QED
  BY <1>1, <1>2, Zenon DEF ProductSheetTypes

(* The types of the processes and of their files (ProductSheetTypes).      *)
THEOREM SheetsTypeCorrect == ProductSheetsSpec => []ProductSheetTypes
BY SheetsInvariantHolds, SheetsInvariantGivesTypes, PTL

LEMMA SheetsInvariantGivesTruth ==
  ASSUME SheetsInvariant
  PROVE  SheetsAreTrue
<1>0. /\ SheetsAreSound /\ ShotsAreHeld /\ TablesAreHeld /\ SheetFilesAreTrue
      /\ \A p \in Launches :
           sheets[p].step = "done" /\ rowFiles[p] # {} => sheets[p].unsent
  BY DEF SheetsInvariant, RowImagesAreKnown, RowsSound, Absent, WithRows
<1>1. SUFFICES ASSUME NEW d \in Days \ overlapped
      PROVE
        /\ \A file \in drive :
             file.place[1] = "sheets" /\ file.place[2] = d =>
               SheetPlace(d, file.shows[1]) = file.place
        /\ \A p \in Launches :
             sheets[p].step = "done" /\ Day(p) = d /\ sheets[p].rank > 1 =>
               \A n \in Ranks(p) \ (sheets[p].blocked \cup sheets[p].errors) :
                 /\ n \in sheets[p].ok
                 /\ \E file \in drive : file.place = SheetPlace(d, Links(p)[n])
        /\ \/ \E p \in Launches : Day(p) = d /\ sheets[p].step \in Working \cup {"dead"}
           \/ /\ tableFile[d] = Missing
              /\ \A n \in UNION {Ranks(p) : p \in Launches} :
                   workFiles[WorkFile(d, n)] = Missing
  BY <1>0, Zenon DEF SheetsAreTrue
<1>2. \A file \in drive :
        file.place[1] = "sheets" /\ file.place[2] = d =>
          SheetPlace(d, file.shows[1]) = file.place
  BY <1>0 DEF SheetFilesAreTrue
<1>3. ASSUME NEW p \in Launches,
             sheets[p].step = "done", Day(p) = d, sheets[p].rank > 1,
             NEW n \in Ranks(p), n \notin sheets[p].blocked \cup sheets[p].errors
      PROVE  /\ n \in sheets[p].ok
             /\ \E file \in drive : file.place = SheetPlace(d, Links(p)[n])
  <2>1. PICK s : s = sheets[p] /\ SheetSound(s, p, drive)
    BY <1>0 DEF SheetsAreSound
  <2>2. PICK k \in Nat : k = Len(Links(p))
    BY LinksAreAList
  <2>3. s.rank = k + 1
    BY <1>3, <2>1, <2>2 DEF SheetSound
  <2>4. n \in 1..k
    BY <2>2 DEF Ranks
  <2>5. n < s.rank
    BY <2>3, <2>4
  <2>6. Settled(s, p, n, drive)
    BY <2>1, <2>5 DEF SheetSound
  <2>7. QED
    BY <1>3, <2>1, <2>6 DEF Settled, Day
<1>4. \/ \E p \in Launches : Day(p) = d /\ sheets[p].step \in Working \cup {"dead"}
      \/ /\ tableFile[d] = Missing
         /\ \A n \in UNION {Ranks(p) : p \in Launches} :
              workFiles[WorkFile(d, n)] = Missing
  BY <1>0 DEF ShotsAreHeld, TablesAreHeld, HoldsShot, HoldsTable, Working, SheetSteps
<1>5. QED
  BY <1>2, <1>3, <1>4

(* What a day leaves (SheetsAreTrue), whatever the tables and the failures *)
THEOREM DaysLeaveTrueSheets == ProductSheetsSpec => []SheetsAreTrue
BY SheetsInvariantHolds, SheetsInvariantGivesTruth, PTL

-------------------------------------------------------------------------------
(* ContentExtraction: for any pages, any answers of the model and any      *)
(* order of the runs.                                                      *)

(* The rows kept of an answer are those of its usable lines, every one.    *)
RowsOf(r, text, raw) == {Row(r, text, raw[i]) : i \in {j \in 1..Len(raw) : Usable(r, text, raw[j])}}
HasRows(r, text, raw, s, rows) ==
  /\ rows \in Seq(RowsOf(r, text, raw))
  /\ \A i \in s : Usable(r, text, raw[i]) =>
       \E j \in 1..Len(rows) : rows[j] = Row(r, text, raw[i])
KeepRows(r, text, raw) ==
  FoldLeft(LAMBDA lines, line : KeepLine(r, text, lines, line), <<>>, raw)

LEMMA OneMoreRow ==
  ASSUME NEW r, NEW text, NEW raw, NEW s, NEW last \in 1..Len(raw),
         NEW rows, HasRows(r, text, raw, s \ {last}, rows)
  PROVE  HasRows(r, text, raw, s, KeepLine(r, text, rows, raw[last]))
<1> DEFINE new == KeepLine(r, text, rows, raw[last])
           R == RowsOf(r, text, raw)
<1>0. rows \in Seq(R) /\ Len(rows) \in Nat
  BY LenProperties DEF HasRows
<1>1. CASE Usable(r, text, raw[last])
  <2>1. Row(r, text, raw[last]) \in R
    BY <1>1 DEF RowsOf
  <2>2. new = Append(rows, Row(r, text, raw[last]))
    BY <1>1 DEF KeepLine
  <2> HIDE DEF R, new
  <2>3. /\ new \in Seq(R) /\ Len(new) = Len(rows) + 1
        /\ new[Len(new)] = Row(r, text, raw[last])
        /\ \A j \in 1..Len(rows) : new[j] = rows[j]
    BY <1>0, <2>1, <2>2, AppendProperties
  <2>4. ASSUME NEW i \in s, Usable(r, text, raw[i])
        PROVE  \E j \in 1..Len(new) : new[j] = Row(r, text, raw[i])
    <3>1. CASE i = last
      BY <1>0, <2>3, <3>1
    <3>2. CASE i # last
      <4>1. PICK j \in 1..Len(rows) : rows[j] = Row(r, text, raw[i])
        BY <2>4, <3>2 DEF HasRows
      <4>2. QED
        BY <1>0, <2>3, <4>1
    <3>3. QED
      BY <3>1, <3>2
  <2>5. QED
    BY <2>3, <2>4 DEF HasRows, new, R
<1>2. CASE ~ Usable(r, text, raw[last])
  <2>1. new = rows
    BY <1>2 DEF KeepLine
  <2>2. QED
    BY <1>2, <2>1 DEF HasRows
<1>3. QED
  BY <1>1, <1>2

LEMMA RowsAreKept ==
  ASSUME NEW r, NEW text, NEW raw, Len(raw) \in Nat, DOMAIN raw = 1..Len(raw)
  PROVE  HasRows(r, text, raw, 1..Len(raw), KeepRows(r, text, raw))
<1> DEFINE n == Len(raw)
           T == Seq(RowsOf(r, text, raw))
           step == [a \in T \X (1..n) |-> KeepLine(r, text, a[1], raw[a[2]])]
           Keeps(it) == it = [s \in SUBSET DOMAIN raw |->
                                IF s = {} THEN <<>>
                                ELSE KeepLine(r, text, it[s \ {Max(s)}], raw[Max(s)])]
<1>0. ASSUME NEW list \in T, NEW i \in 1..n
      PROVE  KeepLine(r, text, list, raw[i]) \in T
  <2>1. Usable(r, text, raw[i]) => Row(r, text, raw[i]) \in RowsOf(r, text, raw)
    BY DEF RowsOf
  <2>2. QED
    BY <2>1, AppendProperties DEF KeepLine
<1>1. <<>> \in T /\ step \in [T \X (1..n) -> T]
  <2>1. <<>> \in T
    BY EmptySeq
  <2> HIDE DEF T
  <2>2. QED
    BY <1>0, <2>1
<1>2. PICK it : FoldsOn(it, <<>>, step, SUBSET (1..n))
  BY FoldExists
<1>3. \A s \in SUBSET (1..n) : it[s] \in T
  <2> HIDE DEF T, step
  <2>1. QED
    BY <1>1, <1>2, FoldTypes
<1>4. Keeps(it)
  <2>1. ASSUME NEW s \in SUBSET (1..n)
        PROVE  (IF s = {} THEN <<>> ELSE step[<<it[s \ {Max(s)}], Max(s)>>]) =
               (IF s = {} THEN <<>>
                ELSE KeepLine(r, text, it[s \ {Max(s)}], raw[Max(s)]))
    <3>1. SUFFICES ASSUME s # {}
                   PROVE  step[<<it[s \ {Max(s)}], Max(s)>>] =
                            KeepLine(r, text, it[s \ {Max(s)}], raw[Max(s)])
      OBVIOUS
    <3>2. Max(s) \in 1..n /\ it[s \ {Max(s)}] \in T
      BY <1>3, <3>1, MaxIsLast
    <3>3. PICK last \in 1..n, before \in T : last = Max(s) /\ before = it[s \ {Max(s)}]
      BY <3>2
    <3>4. step[<<before, last>>] = KeepLine(r, text, before, raw[last])
      BY <3>3
    <3>5. QED
      BY <3>3, <3>4
  <2>2. it = [s \in SUBSET (1..n) |->
                IF s = {} THEN <<>>
                ELSE KeepLine(r, text, it[s \ {Max(s)}], raw[Max(s)])]
    BY <1>2, <2>1, Zenon DEF FoldsOn
  <2>3. QED
    BY <2>2
<1> DEFINE iter == CHOOSE f : Keeps(f)
<1>5. Keeps(iter)
  BY <1>4, Zenon
<1>6. KeepRows(r, text, raw) = iter[DOMAIN raw]
  BY Zenon DEF KeepRows, FoldLeft, MapThenFoldSet
<1> DEFINE Bad == {s \in SUBSET (1..n) : ~ HasRows(r, text, raw, s, iter[s])}
<1>7. ASSUME Bad # {}
      PROVE  FALSE
  <2>1. PICK s \in Bad : \A x \in s : s \ {x} \notin Bad
    <3>1. Bad \in SUBSET (SUBSET (1..n)) /\ IsFiniteSet(1..n)
      BY FS_Interval
    <3> HIDE DEF Bad
    <3>2. QED
      BY <1>7, <3>1, LeastSubset
  <2>2. iter[s] = IF s = {} THEN <<>>
                  ELSE KeepLine(r, text, iter[s \ {Max(s)}], raw[Max(s)])
    <3> HIDE DEF iter
    <3>1. QED
      BY <1>5
  <2> HIDE DEF iter
  <2>3. s # {}
    BY <1>1, <2>2 DEF HasRows
  <2>4. Max(s) \in s /\ Max(s) \in 1..n
    BY <2>3, MaxIsLast
  <2>5. HasRows(r, text, raw, s \ {Max(s)}, iter[s \ {Max(s)}])
    BY <2>1, <2>4
  <2>6. HasRows(r, text, raw, s, iter[s])
    <3>1. PICK last \in 1..n : last = Max(s)
      BY <2>4
    <3>2. PICK rows : rows = iter[s \ {Max(s)}]
      OBVIOUS
    <3>3. HasRows(r, text, raw, s \ {last}, rows)
      BY <2>5, <3>1, <3>2
    <3>4. HasRows(r, text, raw, s, KeepLine(r, text, rows, raw[last]))
      BY <3>3, OneMoreRow, Zenon
    <3>5. iter[s] = KeepLine(r, text, rows, raw[last])
      BY <2>2, <2>3, <3>1, <3>2
    <3>6. QED
      BY <3>4, <3>5
  <2>7. QED
    BY <2>6
<1>8. QED
  <2> HIDE DEF iter
  <2>1. HasRows(r, text, raw, 1..n, iter[1..n])
    BY <1>7
  <2>2. QED
    BY <1>6, <2>1

LEMMA ReadIs ==
  ASSUME NEW answer \in Answers
  PROVE  /\ Len(Read(answer)) \in Nat /\ DOMAIN Read(answer) = 1..Len(Read(answer))
         /\ \A n \in 1..Len(Read(answer)) : Read(answer)[n] = answer[n]
<1>1. CASE answer = Unreadable
  <2>1. Read(answer) = <<>>
    BY <1>1 DEF Read
  <2> HIDE DEF Read
  <2>2. QED
    BY <2>1
<1>2. CASE answer # Unreadable
  <2> DEFINE S == {answer[i] : i \in DOMAIN answer}
  <2>1. answer \in Seq(S)
    BY ExtractionAssumption
  <2> HIDE DEF S
  <2>2. Len(answer) \in Nat
    BY <2>1, LenProperties
  <2>3. PICK k \in Nat : k = IF Len(answer) < MaxRows THEN Len(answer) ELSE MaxRows
    BY <2>2, ExtractionAssumption
  <2>4. k <= Len(answer)
    BY <2>2, <2>3, ExtractionAssumption
  <2>5. Read(answer) = SubSeq(answer, 1, k)
    BY <1>2, <2>3 DEF Read
  <2>6. /\ SubSeq(answer, 1, k) \in Seq(S) /\ Len(SubSeq(answer, 1, k)) = k
        /\ \A n \in 1..k : SubSeq(answer, 1, k)[n] = answer[n]
    <3>1. CASE k = 0
      <4>1. SubSeq(answer, 1, k) = <<>>
        BY <2>1, <3>1, SubSeqProperties
      <4>2. QED
        BY <3>1, <4>1
    <3>2. CASE k # 0
      BY <2>1, <2>2, <2>4, <3>2, SubSeqProperties
    <3>3. QED
      BY <3>1, <3>2
  <2>7. QED
    BY <2>3, <2>5, <2>6, LenProperties
<1>3. QED
  BY <1>1, <1>2

(* What is kept of a field: what the answer converts to, or nothing.       *)
LEMMA KeptIs ==
  ASSUME NEW r \in Rules, NEW f \in DOMAIN Fields[r], NEW text, NEW line
  PROVE  /\ Kept(r, text, line, f) \in
              {Null, Convert(Fields[r][f].type, Get(line, f))}
         /\ Get(line, f) = Null =>
              Convert(Fields[r][f].type, Get(line, f)) = Null
         /\ Fields[r][f].verifiable /\ Kept(r, text, line, f) # Null =>
              Kept(r, text, line, f) \in Words[text]
         /\ Fields[r][f].type = "boolean" =>
              Kept(r, text, line, f) \in {"yes", "no", Null}
<1> DEFINE value == Convert(Fields[r][f].type, Get(line, f))
<1>1. Fields[r][f].type \in {"text", "number", "boolean", "date"}
  BY DEF Rules, Fields, Field
<1>2. Get(line, f) = Null => value = Null
  BY <1>1, ExtractionAssumption DEF Convert
<1>3. Fields[r][f].type = "boolean" => value \in {"yes", "no", Null}
  BY ExtractionAssumption DEF Convert
<1> HIDE DEF value
<1>4. /\ Kept(r, text, line, f) \in {Null, value}
      /\ Fields[r][f].verifiable /\ Kept(r, text, line, f) # Null =>
           Kept(r, text, line, f) \in Words[text]
  BY DEF Kept, value
<1>5. QED
  BY <1>2, <1>3, <1>4 DEF value

(* A row with every field of its rule, the required ones read and the      *)
(* verifiable ones in the text.                                            *)
IsRow(r, text, row) ==
  /\ row = [f \in DOMAIN Fields[r] |-> row[f]]
  /\ \A f \in DOMAIN Fields[r] :
       /\ Fields[r][f].required => row[f] # Null
       /\ Fields[r][f].verifiable /\ row[f] # Null => row[f] \in Words[text]
       /\ Fields[r][f].type = "boolean" => row[f] \in {"yes", "no", Null}

LEMMA LinesAre ==
  ASSUME NEW r \in Rules, NEW text, NEW answer \in Answers
  PROVE  /\ Len(Lines(r, text, answer)) \in Nat
         /\ \A i \in 1..Len(Lines(r, text, answer)) :
              IsRow(r, text, Lines(r, text, answer)[i])
         /\ \A n \in 1..Len(Read(answer)) :
              Usable(r, text, Read(answer)[n]) =>
                \E i \in 1..Len(Lines(r, text, answer)) :
                  Lines(r, text, answer)[i] = Row(r, text, Read(answer)[n])
<1> DEFINE raw == Read(answer)
           lines == Lines(r, text, answer)
<1>1. Len(raw) \in Nat /\ DOMAIN raw = 1..Len(raw)
  BY ReadIs
<1>2. lines = KeepRows(r, text, raw)
  BY Zenon DEF Lines, KeepRows
<1>3. HasRows(r, text, raw, 1..Len(raw), lines)
  <2> HIDE DEF raw, lines
  <2>1. QED
    BY <1>1, <1>2, RowsAreKept
<1> HIDE DEF raw, lines
<1>4. lines \in Seq(RowsOf(r, text, raw)) /\ Len(lines) \in Nat
  BY <1>3, LenProperties DEF HasRows
<1>5. ASSUME NEW i \in 1..Len(lines)
      PROVE  IsRow(r, text, lines[i])
  <2>1. lines[i] \in RowsOf(r, text, raw)
    BY <1>4, ElementOfSeq
  <2>2. PICK j \in 1..Len(raw) : Usable(r, text, raw[j]) /\ lines[i] = Row(r, text, raw[j])
    BY <2>1 DEF RowsOf
  <2>3. PICK line : line = raw[j]
    OBVIOUS
  <2>4. PICK row : row = Row(r, text, line)
    OBVIOUS
  <2>5. row = [f \in DOMAIN Fields[r] |-> Kept(r, text, line, f)]
    BY <2>4 DEF Row
  <2>6. ASSUME NEW f \in DOMAIN Fields[r]
        PROVE  /\ Fields[r][f].required => row[f] # Null
               /\ Fields[r][f].verifiable /\ row[f] # Null => row[f] \in Words[text]
               /\ Fields[r][f].type = "boolean" => row[f] \in {"yes", "no", Null}
    <3>1. row[f] = Kept(r, text, line, f)
      BY <2>5
    <3>2. Fields[r][f].required => row[f] # Null
      BY <2>2, <2>3, <2>4 DEF Usable
    <3>3. QED
      BY <3>1, <3>2, KeptIs
  <2>7. row = [f \in DOMAIN Fields[r] |-> row[f]]
    BY <2>5
  <2>8. IsRow(r, text, row)
    BY <2>6, <2>7 DEF IsRow
  <2>9. QED
    BY <2>2, <2>3, <2>4, <2>8
<1>6. QED
  BY <1>3, <1>4, <1>5 DEF HasRows, raw, lines

(* An extraction that the program stored, for the text it names.           *)
IsExtraction(e) ==
  /\ e.rule \in Rules /\ e.text \in Texts /\ e.answer \in Answers
  /\ e.lines = Lines(e.rule, e.text, e.answer)
  /\ e.truncated = (e.text \in LongTexts)
  /\ e.reused \in BOOLEAN
  /\ ~ e.reused => e.anomalies = Anomalies(e.rule, e.text, e.answer)

StoredShape(e) ==
  e \in [rule : {e.rule}, text : {e.text}, lines : {e.lines},
         anomalies : {e.anomalies}, truncated : {e.truncated},
         reused : {e.reused}, answer : {e.answer}]

LEMMA ExtractionIs ==
  ASSUME NEW r \in Rules, NEW text \in Texts, NEW answer \in Answers
  PROVE  /\ IsExtraction(Extraction(r, text, answer))
         /\ StoredShape(Extraction(r, text, answer))
         /\ Extraction(r, text, answer).text = text
<1> DEFINE e == Extraction(r, text, answer)
<1>1. /\ e.rule = r /\ e.text = text /\ e.lines = Lines(r, text, answer)
      /\ e.anomalies = Anomalies(r, text, answer) /\ e.truncated = (text \in LongTexts)
      /\ e.reused = FALSE /\ e.answer = answer
  BY DEF Extraction
<1>2. StoredShape(e)
  BY DEF Extraction, StoredShape
<1> HIDE DEF e
<1>3. QED
  BY <1>1, <1>2 DEF IsExtraction, e

LEMMA ReusedIs ==
  ASSUME NEW e, IsExtraction(e), StoredShape(e)
  PROVE  IsExtraction(Reused(e)) /\ Reused(e).text = e.text /\ StoredShape(Reused(e))
<1> DEFINE n == Reused(e)
<1>1. /\ n.rule = e.rule /\ n.text = e.text /\ n.lines = e.lines
      /\ n.truncated = e.truncated /\ n.reused = TRUE /\ n.answer = e.answer
  BY DEF Reused, StoredShape
<1>2. StoredShape(n)
  BY DEF Reused, StoredShape
<1> HIDE DEF n
<1>3. QED
  BY <1>1, <1>2 DEF IsExtraction, n

(* What the workers read and what the table holds.                         *)
ReadingRecords ==
  [step : {"idle", "prepare", "call"}, run : Runs \cup {0},
   rule : Rules \cup {"none"}, text : Texts \cup {NoText},
   calls : 0..(Delays + 1)]

ExtractionShapes ==
  /\ texts \in [Runs -> Texts \cup {NoText, Purged}] /\ retaken \subseteq Runs
  /\ rule \in Rules \cup {"none"}
  /\ extractions = [r \in Runs |-> extractions[r]]
  /\ reading \in [Readers -> ReadingRecords]
  /\ readings \in 0..MaxReadings /\ tagged \in 0..MaxTags

(* The text of a run among all, when t is what a worker or a row has of    *)
(* it: "all" is texts and "again" is retaken.                              *)
TextOf(all, again, run, t) ==
  /\ t \in Texts /\ all[run] \in Texts
  /\ t = all[run] \/ run \in again
ReaderIsSound(rd, all, again) ==
  rd.step # "idle" =>
    /\ rd.run \in Runs /\ TextOf(all, again, rd.run, rd.text)
    /\ rd.step = "call" => rd.rule \in Rules
ReadersAreSound ==
  \A w \in Readers : ReaderIsSound(reading[w], texts, retaken)
ExtractionIsSound(e, all, again, r) ==
  IsExtraction(e) /\ StoredShape(e) /\ TextOf(all, again, r, e.text)
ExtractionsAreSound ==
  \A r \in Runs : extractions[r] # NoExtraction =>
    ExtractionIsSound(extractions[r], texts, retaken, r)

ExtractionInvariant ==
  ExtractionShapes /\ ReadersAreSound /\ ExtractionsAreSound

LEMMA PreviousRunIs ==
  ASSUME NEW run \in Runs, HasPrevious(run)
  PROVE  /\ PreviousRun(run) \in Extracted /\ PreviousRun(run) < run
         /\ \A s \in Extracted : s < run => s <= PreviousRun(run)
<1> DEFINE Gaps == {d \in Nat : \E s \in Extracted : s < run /\ d = run - s}
<1>0. run \in Nat /\ Extracted \subseteq Nat
  BY ExtractionAssumption DEF Extracted
<1> HIDE DEF Extracted
<1>1. PICK d \in Gaps : \A e \in Gaps : d <= e
  <2>1. PICK s \in Extracted : s < run
    BY DEF HasPrevious
  <2>2. run - s \in Gaps
    BY <1>0, <2>1
  <2>3. Gaps \in SUBSET Nat /\ run - s \in Gaps
    BY <2>2
  <2> HIDE DEF Gaps
  <2>4. QED
    BY <2>3, LeastNatural
<1>2. PICK r \in Extracted : r < run /\ d = run - r
  OBVIOUS
<1>3. ASSUME NEW s \in Extracted, s < run
      PROVE  s <= r
  <2>1. run - s \in Gaps
    BY <1>0, <1>3
  <2>2. d <= run - s
    BY <1>1, <2>1
  <2>3. QED
    BY <1>0, <1>2, <2>2
<1>4. \E q \in Extracted : q < run /\ \A s \in Extracted : s < run => s <= q
  BY <1>2, <1>3
<1>5. QED
  BY <1>4 DEF PreviousRun

(* The readings of the other workers, and what one worker now reads.       *)
LEMMA ReadersStay ==
  ASSUME ExtractionShapes, ReadersAreSound, NEW w \in Readers, NEW new,
         reading' = [reading EXCEPT ![w] = new],
         ReaderIsSound(new, texts, retaken), texts' = texts, retaken' = retaken
  PROVE  ReadersAreSound'
BY DEF ReadersAreSound, ExtractionShapes

LEMMA ExtractionsStay ==
  ASSUME ExtractionsAreSound, extractions' = extractions, texts' = texts,
         retaken' = retaken
  PROVE  ExtractionsAreSound'
BY DEF ExtractionsAreSound

LEMMA NotReadingIs ==
  /\ NotReading \in ReadingRecords
  /\ \A all, again : ReaderIsSound(NotReading, all, again)
BY ExtractionAssumption DEF NotReading, ReadingRecords, ReaderIsSound

LEMMA FinishedIs ==
  ASSUME ExtractionShapes, ReadersAreSound, NEW w \in Readers, Finish(w),
         texts' = texts, retaken' = retaken
  PROVE  ReadersAreSound' /\ reading' \in [Readers -> ReadingRecords]
<1>1. reading' = [reading EXCEPT ![w] = NotReading]
  BY DEF Finish
<1>2. ReadersAreSound'
  BY <1>1, NotReadingIs, ReadersStay
<1>3. reading' \in [Readers -> ReadingRecords]
  BY <1>1, NotReadingIs DEF ExtractionShapes
<1>4. QED
  BY <1>2, <1>3

LEMMA TakeCaptureStep ==
  ASSUME ExtractionInvariant, NEW w \in Readers, NEW run \in Runs,
         NEW text \in Texts, TakeCapture(w, run, text)
  PROVE  ExtractionInvariant'
<1>0. ExtractionShapes /\ ReadersAreSound /\ ExtractionsAreSound
  BY DEF ExtractionInvariant
<1> DEFINE new == [step |-> "prepare", run |-> run, rule |-> rule, text |-> text,
                   calls |-> 0]
<1>1. /\ texts' = [texts EXCEPT ![run] = text]
      /\ retaken' = IF texts[run] = NoText THEN retaken ELSE retaken \cup {run}
      /\ reading' = [reading EXCEPT ![w] = new]
      /\ extractions' = extractions
  BY DEF TakeCapture
<1>2. \A r \in Runs : \A t : TextOf(texts, retaken, r, t) => TextOf(texts', retaken', r, t)
  BY <1>0, <1>1, ExtractionAssumption DEF TextOf, ExtractionShapes
<1>3. TextOf(texts', retaken', run, text)
  BY <1>0, <1>1 DEF TextOf, ExtractionShapes
<1>4. new \in ReadingRecords /\ ReaderIsSound(new, texts', retaken')
  BY <1>0, <1>3, ExtractionAssumption DEF ReadingRecords, ExtractionShapes, ReaderIsSound
<1> HIDE DEF new
<1>5. ReadersAreSound'
  <2>1. SUFFICES ASSUME NEW v \in Readers
                 PROVE  ReaderIsSound(reading'[v], texts', retaken')
    BY DEF ReadersAreSound
  <2>2. CASE v = w
    BY <1>0, <1>1, <1>4, <2>2 DEF ExtractionShapes
  <2>3. CASE v # w
    <3>1. PICK rd : rd = reading[v] /\ rd = reading'[v]
      BY <1>0, <1>1, <2>3 DEF ExtractionShapes
    <3>2. ReaderIsSound(rd, texts, retaken)
      BY <1>0, <3>1 DEF ReadersAreSound
    <3>3. QED
      BY <1>2, <3>1, <3>2 DEF ReaderIsSound
  <2>4. QED
    BY <2>2, <2>3
<1>6. ExtractionsAreSound'
  BY <1>0, <1>1, <1>2 DEF ExtractionsAreSound, ExtractionIsSound
<1>7. ExtractionShapes'
  <2>1. reading' \in [Readers -> ReadingRecords]
    BY <1>0, <1>1, <1>4 DEF ExtractionShapes
  <2>2. texts' \in [Runs -> Texts \cup {NoText, Purged}] /\ retaken' \subseteq Runs
    BY <1>0, <1>1 DEF ExtractionShapes
  <2>3. /\ rule' = rule /\ tagged' = tagged /\ readings' \in 0..MaxReadings
    BY <1>0, ExtractionAssumption DEF ExtractionShapes, TakeCapture
  <2>4. QED
    BY <1>0, <1>1, <2>1, <2>2, <2>3 DEF ExtractionShapes
<1>8. QED
  BY <1>5, <1>6, <1>7 DEF ExtractionInvariant

(* What a worker that goes on leaves: its own record, if it changes.       *)
LEMMA WorkerGoesOn ==
  ASSUME ExtractionInvariant, NEW w \in Readers,
         ReadersAreSound', reading' \in [Readers -> ReadingRecords],
         ExtractionsAreSound', extractions' = [r \in Runs |-> extractions'[r]],
         UNCHANGED <<texts, retaken, rule, readings, tagged>>
  PROVE  ExtractionInvariant'
BY DEF ExtractionInvariant, ExtractionShapes, ReadingRecords, Rules

LEMMA IdleStep ==
  ASSUME ExtractionInvariant, NEW w \in Readers,
         NothingToExtract(w) \/ GiveUp(w)
  PROVE  ExtractionInvariant'
<1>0. /\ ExtractionShapes /\ ReadersAreSound /\ ExtractionsAreSound
      /\ extractions = [r \in Runs |-> extractions[r]]
  BY DEF ExtractionInvariant, ExtractionShapes
<1>1. Finish(w) /\ UNCHANGED <<texts, retaken, rule, extractions, readings, tagged>>
  BY DEF NothingToExtract, GiveUp
<1>2. ReadersAreSound' /\ reading' \in [Readers -> ReadingRecords]
  BY <1>0, <1>1, FinishedIs
<1>3. ExtractionsAreSound'
  BY <1>0, <1>1, ExtractionsStay
<1>4. QED
  BY <1>0, <1>1, <1>2, <1>3, WorkerGoesOn

LEMMA AskStep ==
  ASSUME ExtractionInvariant, NEW w \in Readers, Ask(w) \/ AskAgain(w)
  PROVE  ExtractionInvariant'
<1>0. /\ ExtractionShapes /\ ReadersAreSound /\ ExtractionsAreSound
      /\ extractions = [r \in Runs |-> extractions[r]]
  BY DEF ExtractionInvariant, ExtractionShapes
<1>1. PICK rd \in ReadingRecords : rd = reading[w] /\ ReaderIsSound(rd, texts, retaken)
  BY <1>0 DEF ExtractionShapes, ReadersAreSound
<1>2. UNCHANGED <<texts, retaken, rule, extractions, readings, tagged>>
  BY DEF Ask, AskAgain
<1>3. PICK new \in ReadingRecords :
        reading' = [reading EXCEPT ![w] = new] /\ ReaderIsSound(new, texts, retaken)
  <2>1. CASE Ask(w)
    <3> DEFINE n == [rd EXCEPT !.step = "call", !.calls = 1]
    <3>1. reading' = [reading EXCEPT ![w] = n]
      BY <1>0, <1>1, <2>1 DEF Ask, ExtractionShapes
    <3>2. rd.step = "prepare" /\ rd.rule \in Rules
      BY <1>1, <2>1 DEF Ask, ReadingRecords
    <3>3. /\ n \in ReadingRecords /\ n.step = "call" /\ n.run = rd.run
          /\ n.rule = rd.rule /\ n.text = rd.text
      <4>1. 1 \in 0..(Delays + 1)
        BY ExtractionAssumption
      <4>2. QED
        BY <3>2, <4>1 DEF ReadingRecords
    <3> HIDE DEF n
    <3>4. ReaderIsSound(n, texts, retaken)
      BY <1>1, <3>2, <3>3 DEF ReaderIsSound
    <3>5. QED
      BY <3>1, <3>3, <3>4
  <2>2. CASE AskAgain(w)
    <3> DEFINE n == [rd EXCEPT !.calls = @ + 1]
    <3>1. reading' = [reading EXCEPT ![w] = n]
      BY <1>0, <1>1, <2>2 DEF AskAgain, ExtractionShapes
    <3>2. rd.step = "call" /\ rd.calls <= Delays
      BY <1>1, <2>2 DEF AskAgain
    <3>3. /\ n \in ReadingRecords /\ n.step = "call" /\ n.run = rd.run
          /\ n.rule = rd.rule /\ n.text = rd.text
      BY <3>2, ExtractionAssumption DEF ReadingRecords
    <3> HIDE DEF n
    <3>4. ReaderIsSound(n, texts, retaken)
      BY <1>1, <3>2, <3>3 DEF ReaderIsSound
    <3>5. QED
      BY <3>1, <3>3, <3>4
  <2>3. QED
    BY <2>1, <2>2
<1>4. ReadersAreSound'
  BY <1>0, <1>2, <1>3, ReadersStay
<1>5. reading' \in [Readers -> ReadingRecords]
  BY <1>0, <1>3 DEF ExtractionShapes
<1>6. ExtractionsAreSound'
  BY <1>0, <1>2, ExtractionsStay
<1>7. QED
  BY <1>0, <1>2, <1>4, <1>5, <1>6, WorkerGoesOn

(* A row of the table is written for the text that its worker has read.    *)
LEMMA ExtractionAdded ==
  ASSUME ExtractionsAreSound, NEW run \in Runs, NEW new,
         extractions = [r \in Runs |-> extractions[r]],
         extractions' = [extractions EXCEPT ![run] = new],
         ExtractionIsSound(new, texts, retaken, run),
         texts' = texts, retaken' = retaken
  PROVE  /\ ExtractionsAreSound'
         /\ extractions' = [r \in Runs |-> extractions'[r]]
<1>1. ASSUME NEW r \in Runs, extractions'[r] # NoExtraction
      PROVE  ExtractionIsSound(extractions'[r], texts, retaken, r)
  <2>1. CASE r = run
    BY <2>1
  <2>2. CASE r # run
    BY <1>1, <2>2 DEF ExtractionsAreSound
  <2>3. QED
    BY <2>1, <2>2
<1>2. QED
  BY <1>1 DEF ExtractionsAreSound

LEMMA ReuseStep ==
  ASSUME ExtractionInvariant, NEW w \in Readers, Reuse(w)
  PROVE  ExtractionInvariant'
<1>0. /\ ExtractionShapes /\ ReadersAreSound /\ ExtractionsAreSound
      /\ extractions = [r \in Runs |-> extractions[r]]
  BY DEF ExtractionInvariant, ExtractionShapes
<1>1. PICK rd : rd = reading[w] /\ ReaderIsSound(rd, texts, retaken)
  BY <1>0 DEF ReadersAreSound
<1>2. /\ Finish(w) /\ UNCHANGED <<texts, retaken, rule, readings, tagged>>
      /\ rd.step = "prepare" /\ HasPrevious(rd.run)
      /\ Previous(rd.run).text = rd.text
      /\ extractions' = [extractions EXCEPT ![rd.run] = Reused(Previous(rd.run))]
  BY <1>1 DEF Reuse, SamePage
<1>3. rd.run \in Runs /\ TextOf(texts, retaken, rd.run, rd.text)
  BY <1>1, <1>2 DEF ReaderIsSound
<1>4. PICK last : last \in Extracted /\ last = PreviousRun(rd.run)
  BY <1>2, <1>3, PreviousRunIs
<1>5. PICK e : e = extractions[last] /\ e = Previous(rd.run)
  BY <1>2, <1>4 DEF Previous
<1>6. ExtractionIsSound(e, texts, retaken, last)
  BY <1>0, <1>4, <1>5 DEF ExtractionsAreSound, Extracted
<1>7. IsExtraction(Reused(e)) /\ Reused(e).text = e.text /\ StoredShape(Reused(e))
  BY <1>6, ReusedIs DEF ExtractionIsSound
<1>8. ExtractionIsSound(Reused(e), texts, retaken, rd.run)
  BY <1>2, <1>3, <1>5, <1>7 DEF ExtractionIsSound
<1>9. PICK new : new = Reused(e)
  OBVIOUS
<1>10. extractions' = [extractions EXCEPT ![rd.run] = new]
  BY <1>2, <1>5, <1>9
<1>11. /\ ExtractionsAreSound'
       /\ extractions' = [r \in Runs |-> extractions'[r]]
  BY <1>0, <1>2, <1>3, <1>8, <1>9, <1>10, ExtractionAdded
<1>12. ReadersAreSound' /\ reading' \in [Readers -> ReadingRecords]
  BY <1>0, <1>2, FinishedIs
<1>13. QED
  BY <1>2, <1>11, <1>12, WorkerGoesOn

LEMMA StoreStep ==
  ASSUME ExtractionInvariant, NEW w \in Readers, NEW answer \in Answers,
         Store(w, answer)
  PROVE  ExtractionInvariant'
<1>0. /\ ExtractionShapes /\ ReadersAreSound /\ ExtractionsAreSound
      /\ extractions = [r \in Runs |-> extractions[r]]
  BY DEF ExtractionInvariant, ExtractionShapes
<1>1. PICK rd : rd = reading[w] /\ ReaderIsSound(rd, texts, retaken)
  BY <1>0 DEF ReadersAreSound
<1>2. PICK new : new = Extraction(rd.rule, rd.text, answer)
  OBVIOUS
<1>3. /\ Finish(w) /\ UNCHANGED <<texts, retaken, rule, readings, tagged>>
      /\ rd.step = "call"
      /\ \/ extractions' = extractions
         \/ extractions' = [extractions EXCEPT ![rd.run] = new]
  BY <1>1, <1>2 DEF Store
<1>4. /\ rd.run \in Runs /\ TextOf(texts, retaken, rd.run, rd.text)
      /\ rd.rule \in Rules /\ rd.text \in Texts
  BY <1>1, <1>3 DEF ReaderIsSound, TextOf
<1>5. ExtractionIsSound(new, texts, retaken, rd.run)
  BY <1>2, <1>4, ExtractionIs DEF ExtractionIsSound
<1>6. /\ ExtractionsAreSound'
      /\ extractions' = [r \in Runs |-> extractions'[r]]
  <2>1. CASE extractions' = extractions
    BY <1>0, <1>3, <2>1, ExtractionsStay
  <2>2. CASE extractions' = [extractions EXCEPT ![rd.run] = new]
    BY <1>0, <1>3, <1>4, <1>5, <2>2, ExtractionAdded
  <2>3. QED
    BY <1>3, <2>1, <2>2
<1>7. ReadersAreSound' /\ reading' \in [Readers -> ReadingRecords]
  BY <1>0, <1>3, FinishedIs
<1>8. QED
  BY <1>3, <1>6, <1>7, WorkerGoesOn

LEMMA PurgeRunStep ==
  ASSUME ExtractionInvariant, NEW run \in Runs, PurgeRun(run)
  PROVE  ExtractionInvariant'
<1>0. ExtractionShapes /\ ReadersAreSound /\ ExtractionsAreSound
  BY DEF ExtractionInvariant
<1>1. /\ extractions' = [extractions EXCEPT ![run] = NoExtraction]
      /\ texts' = [texts EXCEPT ![run] = Purged]
      /\ retaken' = retaken \ {run} /\ reading' = reading
      /\ rule' = rule /\ readings' = readings /\ tagged' = tagged
      /\ \A w \in Readers : reading[w].run # run
  BY DEF PurgeRun
<1>2. \A r \in Runs \ {run} : \A t :
        TextOf(texts, retaken, r, t) => TextOf(texts', retaken', r, t)
  BY <1>0, <1>1 DEF TextOf, ExtractionShapes
<1>3. ReadersAreSound'
  BY <1>0, <1>1, <1>2 DEF ReadersAreSound, ReaderIsSound
<1>4. ExtractionsAreSound'
  <2>1. ASSUME NEW r \in Runs, extractions'[r] # NoExtraction
        PROVE  ExtractionIsSound(extractions'[r], texts', retaken', r)
    <3>1. r # run /\ extractions'[r] = extractions[r]
      BY <1>0, <1>1, <2>1 DEF ExtractionShapes
    <3>2. QED
      BY <1>0, <1>2, <2>1, <3>1 DEF ExtractionsAreSound, ExtractionIsSound
  <2>2. QED
    BY <2>1 DEF ExtractionsAreSound
<1>5. ExtractionShapes'
  BY <1>0, <1>1 DEF ExtractionShapes, ReadingRecords, Rules
<1>6. QED
  BY <1>3, <1>4, <1>5 DEF ExtractionInvariant

LEMMA ChangeTagsStep ==
  ASSUME ExtractionInvariant, NEW r \in Rules \cup {"none"}, ChangeTags(r)
  PROVE  ExtractionInvariant'
<1>0. ExtractionShapes /\ ReadersAreSound /\ ExtractionsAreSound
  BY DEF ExtractionInvariant
<1>1. /\ rule' = r /\ tagged' \in 0..MaxTags
      /\ UNCHANGED <<texts, retaken, extractions, reading, readings>>
  BY <1>0, ExtractionAssumption DEF ChangeTags, ExtractionShapes
<1>2. ReadersAreSound' /\ ExtractionsAreSound'
  BY <1>0, <1>1 DEF ReadersAreSound, ExtractionsAreSound
<1>3. ExtractionShapes'
  BY <1>0, <1>1 DEF ExtractionShapes, ReadingRecords, Rules
<1>4. QED
  BY <1>2, <1>3 DEF ExtractionInvariant

LEMMA ExtractionInvariantInit == ExtractionInit => ExtractionInvariant
<1> SUFFICES ASSUME ExtractionInit
             PROVE  ExtractionInvariant
  OBVIOUS
<1>1. ExtractionShapes
  BY ExtractionAssumption, NotReadingIs DEF ExtractionInit, ExtractionShapes, Rules, Fields
<1>2. ReadersAreSound
  BY NotReadingIs DEF ExtractionInit, ReadersAreSound
<1>3. ExtractionsAreSound
  BY DEF ExtractionInit, ExtractionsAreSound
<1>4. QED
  BY <1>1, <1>2, <1>3 DEF ExtractionInvariant

LEMMA ExtractionInvariantStep ==
  ExtractionInvariant /\ [ExtractionNext]_extractionVars => ExtractionInvariant'
<1> SUFFICES ASSUME ExtractionInvariant, [ExtractionNext]_extractionVars
             PROVE  ExtractionInvariant'
  OBVIOUS
<1>1. CASE ExtractionNext
  BY <1>1, TakeCaptureStep, IdleStep, ReuseStep, AskStep, StoreStep, ChangeTagsStep,
     PurgeRunStep, Zenon DEF ExtractionNext
<1>2. CASE UNCHANGED extractionVars
  <2>1. /\ texts' = texts /\ retaken' = retaken /\ rule' = rule
        /\ extractions' = extractions /\ reading' = reading
        /\ readings' = readings /\ tagged' = tagged
    BY <1>2 DEF extractionVars
  <2>2. ExtractionShapes'
    BY <2>1 DEF ExtractionInvariant, ExtractionShapes, ReadingRecords, Rules
  <2>3. ReadersAreSound' /\ ExtractionsAreSound'
    BY <2>1 DEF ExtractionInvariant, ReadersAreSound, ExtractionsAreSound
  <2>4. QED
    BY <2>2, <2>3 DEF ExtractionInvariant
<1>3. QED
  BY <1>1, <1>2

(* The invariant of the extractions holds, whatever the model answers.     *)
THEOREM ExtractionInvariantHolds == ExtractionSpec => []ExtractionInvariant
BY ExtractionInvariantInit, ExtractionInvariantStep, PTL DEF ExtractionSpec

LEMMA ExtractionInvariantGivesTypes ==
  ASSUME ExtractionInvariant
  PROVE  ExtractionTypes
<1>1. ExtractionShapes /\ ExtractionsAreSound
  BY DEF ExtractionInvariant
<1>2. ASSUME NEW r \in Extracted
      PROVE  /\ extractions[r].rule \in Rules /\ extractions[r].text \in Texts
             /\ extractions[r].reused \in BOOLEAN
  BY <1>1 DEF Extracted, ExtractionsAreSound, ExtractionIsSound, IsExtraction
<1>3. QED
  BY <1>1, <1>2, Zenon DEF ExtractionTypes, ExtractionShapes, ReadingRecords

(* The types of the extractions and of the readings (ExtractionTypes).     *)
THEOREM ExtractionTypeCorrect == ExtractionSpec => []ExtractionTypes
BY ExtractionInvariantHolds, ExtractionInvariantGivesTypes, PTL

(* A line that raises no anomaly is a row that loses nothing of it.        *)
AsAnswered(row, line, fields) ==
  \A f \in DOMAIN fields :
    LET answered == Get(line, f)
        type == fields[f].type
    IN \/ type = "boolean"
       \/ row[f] = Convert(type, answered) /\ (answered # Null => row[f] # Null)

LEMMA LineIsThere ==
  ASSUME NEW r \in Rules, NEW text, NEW answer \in Answers,
         NEW n \in 1..Len(Read(answer)), n \notin Anomalies(r, text, answer)
  PROVE  \E i \in 1..Len(Lines(r, text, answer)) :
           AsAnswered(Lines(r, text, answer)[i], answer[n], Fields[r])
<1>1. PICK line : line = Read(answer)[n] /\ line = answer[n]
  BY ReadIs
<1>2. ~ Doubtful(r, text, line)
  BY <1>1 DEF Anomalies
<1>3. Usable(r, text, line) /\ \A f \in DOMAIN Fields[r] : ~ Discarded(r, text, line, f)
  BY <1>2 DEF Doubtful
<1>4. PICK i \in 1..Len(Lines(r, text, answer)) :
        Lines(r, text, answer)[i] = Row(r, text, line)
  BY <1>1, <1>3, LinesAre
<1>5. ASSUME NEW f \in DOMAIN Fields[r], Fields[r][f].type # "boolean"
      PROVE  /\ Row(r, text, line)[f] = Convert(Fields[r][f].type, Get(line, f))
             /\ Get(line, f) # Null => Row(r, text, line)[f] # Null
  <2>1. Row(r, text, line)[f] = Kept(r, text, line, f)
    BY DEF Row
  <2>2. ~ Discarded(r, text, line, f)
    BY <1>3
  <2>3. Get(line, f) # Null => Kept(r, text, line, f) # Null
    BY <1>5, <2>2 DEF Discarded
  <2>4. QED
    BY <2>1, <2>3, KeptIs
<1>6. AsAnswered(Row(r, text, line), line, Fields[r])
  BY <1>5 DEF AsAnswered
<1>7. QED
  BY <1>1, <1>4, <1>6

FaithfulIn(r, e, fields) ==
  /\ \A i \in 1..Len(e.lines), f \in DOMAIN fields :
       /\ fields[f].required => e.lines[i][f] # Null
       /\ fields[f].verifiable /\ e.lines[i][f] # Null =>
            e.lines[i][f] \in Words[texts[r]] \/ r \in retaken
  /\ e.text = texts[r] \/ r \in retaken
  /\ e.truncated = (e.text \in LongTexts)
  /\ ~ e.reused =>
       \A n \in 1..Len(Read(e.answer)) :
         \/ n \in e.anomalies
         \/ \E i \in 1..Len(e.lines) : AsAnswered(e.lines[i], e.answer[n], fields)

LEMMA ExtractionInvariantGivesFaith ==
  ASSUME ExtractionInvariant
  PROVE  ExtractionsAreFaithful
<1>1. ASSUME NEW r \in Extracted, NEW e, e = extractions[r],
             NEW fields, fields = Fields[e.rule]
      PROVE  FaithfulIn(r, e, fields)
  <2>1. IsExtraction(e) /\ (e.text = texts[r] \/ r \in retaken)
    BY <1>1 DEF ExtractionInvariant, ExtractionsAreSound, ExtractionIsSound,
                Extracted, TextOf
  <2>2. PICK x \in Rules, text \in Texts, answer \in Answers :
          /\ x = e.rule /\ text = e.text /\ answer = e.answer
          /\ e.lines = Lines(x, text, answer)
          /\ e.truncated = (text \in LongTexts)
          /\ ~ e.reused => e.anomalies = Anomalies(x, text, answer)
    BY <2>1 DEF IsExtraction
  <2>3. ASSUME NEW i \in 1..Len(e.lines), NEW f \in DOMAIN fields
        PROVE  /\ fields[f].required => e.lines[i][f] # Null
               /\ fields[f].verifiable /\ e.lines[i][f] # Null =>
                    e.lines[i][f] \in Words[texts[r]] \/ r \in retaken
    <3>1. PICK row : row = e.lines[i] /\ IsRow(x, text, row)
      BY <2>2, <2>3, LinesAre
    <3>2. /\ fields[f].required => row[f] # Null
          /\ fields[f].verifiable /\ row[f] # Null => row[f] \in Words[text]
      BY <1>1, <2>2, <2>3, <3>1 DEF IsRow
    <3>3. QED
      BY <2>1, <2>2, <3>1, <3>2
  <2>4. ASSUME ~ e.reused, NEW n \in 1..Len(Read(answer)), n \notin e.anomalies
        PROVE  \E i \in 1..Len(e.lines) : AsAnswered(e.lines[i], answer[n], fields)
    <3>1. n \notin Anomalies(x, text, answer)
      BY <2>2, <2>4
    <3>2. \E i \in 1..Len(Lines(x, text, answer)) :
            AsAnswered(Lines(x, text, answer)[i], answer[n], Fields[x])
      BY <3>1, LineIsThere
    <3>3. QED
      BY <1>1, <2>2, <3>2
  <2>5. QED
    BY <2>1, <2>2, <2>3, <2>4 DEF FaithfulIn
<1>2. \A r \in Extracted : FaithfulIn(r, extractions[r], Fields[extractions[r].rule])
  BY <1>1
<1>3. QED
  BY <1>2, Zenon DEF ExtractionsAreFaithful, FaithfulIn, AsAnswered

(* What the database says of a page comes from it (ExtractionsAreFaithful) *)
THEOREM RowsComeFromTheirPage == ExtractionSpec => []ExtractionsAreFaithful
BY ExtractionInvariantHolds, ExtractionInvariantGivesFaith, PTL

(* The index of the rows by key, and what two rows of a key give.          *)
LEMMA IndexIs ==
  ASSUME NEW r, NEW text, NEW lines, Len(lines) \in Nat,
         \A i \in 1..Len(lines) : IsRow(r, text, lines[i])
  PROVE  /\ DOMAIN Index(r, lines) = KeysOf(r, lines)
         /\ IsFiniteSet(KeysOf(r, lines))
         /\ \A k \in KeysOf(r, lines) : IsRow(r, text, Index(r, lines)[k])
<1>1. IsFiniteSet(KeysOf(r, lines))
  <2> DEFINE Keys0 == {KeyField(r, lines[i]) : i \in 1..Len(lines)}
  <2>1. IsFiniteSet(1..Len(lines))
    BY FS_Interval
  <2>2. IsFiniteSet(Keys0)
    <3> DEFINE key == [i \in 1..Len(lines) |-> KeyField(r, lines[i])]
    <3>1. key \in Surjection(1..Len(lines), Keys0)
      BY DEF Surjection
    <3> HIDE DEF Keys0, key
    <3>2. QED
      BY <2>1, <3>1, FS_Surjection
  <2>3. KeysOf(r, lines) \subseteq Keys0
    BY DEF KeysOf
  <2> HIDE DEF Keys0
  <2>4. QED
    BY <2>2, <2>3, FS_Subset
<1>2. ASSUME NEW k \in KeysOf(r, lines)
      PROVE  FirstOf(r, lines, k) \in 1..Len(lines)
  <2> DEFINE At0 == {i \in 1..Len(lines) : KeyField(r, lines[i]) = k}
  <2>1. PICK i0 \in 1..Len(lines) : KeyField(r, lines[i0]) = k
    BY DEF KeysOf
  <2>10. At0 # {} /\ At0 \in SUBSET Nat
    <3>1. i0 \in At0
      BY <2>1
    <3>2. \A i \in At0 : i \in 1..Len(lines)
      OBVIOUS
    <3> HIDE DEF At0
    <3>3. QED
      BY <3>1, <3>2
  <2>2. PICK i \in At0 : \A j \in At0 : i <= j
    <3> HIDE DEF At0
    <3>1. QED
      BY <2>10, LeastNatural
  <2>3. \E i1 \in 1..Len(lines) :
          /\ KeyField(r, lines[i1]) = k
          /\ \A j \in 1..Len(lines) : KeyField(r, lines[j]) = k => i1 <= j
    BY <2>2
  <2>4. QED
    BY <2>3, Zenon DEF FirstOf
<1>3. ASSUME NEW k \in KeysOf(r, lines)
      PROVE  IsRow(r, text, Index(r, lines)[k])
  <2>1. Index(r, lines)[k] = lines[FirstOf(r, lines, k)]
    BY DEF Index
  <2>2. QED
    BY <1>2, <2>1
<1>4. DOMAIN Index(r, lines) = KeysOf(r, lines)
  BY DEF Index
<1>5. QED
  BY <1>1, <1>3, <1>4

LEMMA RowEventsAre ==
  ASSUME NEW r \in {"catalogue", "tarifs"}, NEW key, NEW a, NEW b,
         NEW old, NEW new, IsRow(r, old, a), IsRow(r, new, b)
  PROVE  /\ \A e \in RowEvents(r, key, a, b) :
              /\ e.key = key /\ e.type \notin {"ajout", "retrait", "lecture_suspecte"}
              /\ e.type = "prix_change" =>
                   \E f \in {"prix", "prix_mensuel", "prix_annuel"} \cap DOMAIN a :
                     Differ(a, b, f)
         /\ \A f \in DOMAIN a : Differ(a, b, f) =>
              f = CLES[r] \/ \E e \in RowEvents(r, key, a, b) : e.key = key
<1>0. \A type : Event(type, key).type = type /\ Event(type, key).key = key
  BY DEF Event
<1>1. DOMAIN a = DOMAIN Fields[r]
  BY DEF IsRow
<1>2. CASE r = "catalogue"
  <2> DEFINE E == {t \in CatalogueEvents : Happens(t, a, b)}
  <2>0. RowEvents(r, key, a, b) = {Event(type, key) : type \in E}
    BY <1>2 DEF RowEvents
  <2>1. DOMAIN a = {"modele", "prix", "prix_barre", "en_stock"} /\ CLES[r] = "modele"
    BY <1>1, <1>2 DEF Fields, CLES
  <2>2. /\ Happens("prix_change", a, b) = Differ(a, b, "prix")
        /\ Happens("prix_barre_change", a, b) = Differ(a, b, "prix_barre")
        /\ Happens("rupture", a, b) = (a.en_stock = "yes" /\ b.en_stock = "no")
        /\ Happens("retour_stock", a, b) = (a.en_stock = "no" /\ b.en_stock = "yes")
    BY DEF Happens
  <2>3. a.en_stock \in {"yes", "no", Null} /\ b.en_stock \in {"yes", "no", Null}
    <3>1. "en_stock" \in DOMAIN Fields[r] /\ Fields[r]["en_stock"].type = "boolean"
      BY <1>2 DEF Fields, Field
    <3>2. QED
      BY <3>1 DEF IsRow
  <2>4. ASSUME NEW e \in RowEvents(r, key, a, b)
        PROVE  /\ e.key = key /\ e.type \notin {"ajout", "retrait", "lecture_suspecte"}
               /\ e.type = "prix_change" => Differ(a, b, "prix")
    <3>1. PICK type \in CatalogueEvents : Happens(type, a, b) /\ e = Event(type, key)
      BY <2>0
    <3>2. e.type = type /\ e.key = key
      BY <1>0, <3>1
    <3>3. type \notin {"ajout", "retrait", "lecture_suspecte"}
      BY <3>1 DEF CatalogueEvents
    <3>4. QED
      BY <2>2, <3>1, <3>2, <3>3
  <2>5. ASSUME NEW type \in CatalogueEvents, Happens(type, a, b)
        PROVE  \E e \in RowEvents(r, key, a, b) : e.key = key
    BY <1>0, <2>0, <2>5
  <2>6. ASSUME NEW f \in DOMAIN a, Differ(a, b, f), f # CLES[r]
        PROVE  \E type \in CatalogueEvents : Happens(type, a, b)
    <3>1. CASE f = "prix"
      BY <2>2, <2>6, <3>1 DEF CatalogueEvents
    <3>2. CASE f = "prix_barre"
      BY <2>2, <2>6, <3>2 DEF CatalogueEvents
    <3>3. CASE f = "en_stock"
      <4>1. a.en_stock # Null /\ b.en_stock # Null /\ a.en_stock # b.en_stock
        BY <2>6, <3>3 DEF Differ
      <4>2. Happens("rupture", a, b) \/ Happens("retour_stock", a, b)
        BY <2>2, <2>3, <4>1
      <4>3. QED
        BY <4>2 DEF CatalogueEvents
    <3>4. QED
      BY <2>1, <2>6, <3>1, <3>2, <3>3
  <2> HIDE DEF E
  <2>7. QED
    BY <2>1, <2>4, <2>5, <2>6
<1>3. CASE r = "tarifs"
  <2> DEFINE E == {g \in {"prix_mensuel", "prix_annuel"} : Differ(a, b, g)}
  <2>0. RowEvents(r, key, a, b) = {Event("prix_change", key) : f \in E}
    BY <1>3 DEF RowEvents
  <2>1. DOMAIN a = {"forfait", "prix_mensuel", "prix_annuel"} /\ CLES[r] = "forfait"
    BY <1>1, <1>3 DEF Fields, CLES
  <2>2. ASSUME NEW e \in RowEvents(r, key, a, b)
        PROVE  /\ e.key = key /\ e.type \notin {"ajout", "retrait", "lecture_suspecte"}
               /\ \E f \in {"prix", "prix_mensuel", "prix_annuel"} \cap DOMAIN a :
                    Differ(a, b, f)
    <3>1. PICK f \in E : e = Event("prix_change", key)
      BY <2>0
    <3>2. e.type = "prix_change" /\ e.key = key
      BY <1>0, <3>1
    <3>3. QED
      BY <2>1, <3>1, <3>2
  <2>3. ASSUME NEW f \in DOMAIN a, Differ(a, b, f), f # CLES[r]
        PROVE  \E e \in RowEvents(r, key, a, b) : e.key = key
    <3>1. f \in E
      BY <2>1, <2>3
    <3>2. Event("prix_change", key) \in RowEvents(r, key, a, b)
      BY <2>0, <3>1
    <3>3. QED
      BY <1>0, <3>2
  <2> HIDE DEF E
  <2>4. QED
    BY <2>2, <2>3
<1>4. QED
  BY <1>2, <1>3

(* Few products in common: the reading is suspected, not the page.         *)
LEMMA SuspicionIs ==
  ASSUME NEW before, NEW after, IsFiniteSet(before), IsFiniteSet(after),
         Suspicious(before, after)
  PROVE  5 * Cardinality(before \cap after) <= Cardinality(before)
<1> DEFINE gone == before \ after
           both == before \cap after
<1>1. IsFiniteSet(gone) /\ IsFiniteSet(both)
  BY FS_Subset
<1>2. Cardinality(gone \cup both) =
        Cardinality(gone) + Cardinality(both) - Cardinality(gone \cap both)
  <2> HIDE DEF gone, both
  <2>1. QED
    BY <1>1, FS_Union
<1>3. gone \cup both = before /\ gone \cap both = {}
  OBVIOUS
<1>4. /\ Cardinality(gone) \in Nat /\ Cardinality(both) \in Nat
      /\ Cardinality(before) \in Nat
      /\ Cardinality(gone \cap both) = 0
  <2>1. Cardinality(gone \cap both) = 0
    BY <1>3, FS_EmptySet
  <2> HIDE DEF gone, both
  <2>2. QED
    BY <1>1, <2>1, FS_CardinalityType
<1>5. CASE after = {}
  <2>1. both = {}
    BY <1>5
  <2>2. Cardinality(both) = 0
    BY <2>1, FS_EmptySet
  <2> HIDE DEF both
  <2>3. QED
    BY <1>4, <2>2 DEF both
<1>6. CASE 5 * Cardinality(gone) >= 4 * Cardinality(before)
  <2> HIDE DEF gone, both
  <2>0. PICK g \in Nat, b \in Nat, n \in Nat :
          g = Cardinality(gone) /\ b = Cardinality(both) /\ n = Cardinality(before)
    BY <1>4
  <2>1. 5 * Cardinality(both) <= Cardinality(before)
    <3>1. n = g + b
      <4>1. Cardinality(before) = Cardinality(gone \cup both)
        BY <1>3
      <4>2. Cardinality(gone \cup both) = g + b - 0
        BY <1>2, <1>4, <2>0
      <4>3. QED
        BY <2>0, <4>1, <4>2
    <3>2. 5 * g >= 4 * n
      BY <1>6, <2>0
    <3>3. QED
      BY <2>0, <3>1, <3>2
  <2>2. QED
    BY <2>1 DEF both
<1>7. QED
  BY <1>5, <1>6 DEF Suspicious

KeysOfType(events, type) == {e.key : e \in {d \in events : d.type = type}}

Tells(r, before, after, events) ==
  IF Event("lecture_suspecte", "Page") \in events
  THEN /\ events = {Event("lecture_suspecte", "Page")}
       /\ 5 * Cardinality(DOMAIN before \cap DOMAIN after)
            <= Cardinality(DOMAIN before)
  ELSE IF r = "editorial"
  THEN KeysOfType(events, "annonce") = DOMAIN after \ DOMAIN before
  ELSE /\ DOMAIN after =
            (DOMAIN before \ KeysOfType(events, "retrait")) \cup KeysOfType(events, "ajout")
       /\ KeysOfType(events, "ajout") \cap DOMAIN before = {}
       /\ \A k \in DOMAIN before \cap DOMAIN after :
            /\ \A f \in DOMAIN before[k] :
                 Differ(before[k], after[k], f) =>
                   f = CLES[r] \/ \E e \in events : e.key = k
            /\ k \in KeysOfType(events, "prix_change") =>
                 \E f \in {"prix", "prix_mensuel", "prix_annuel"}
                         \cap DOMAIN before[k] :
                   Differ(before[k], after[k], f)

LEMMA ComparerIs ==
  ASSUME NEW r \in Rules, NEW old, NEW new, NEW lines, NEW more,
         Len(lines) \in Nat, \A i \in 1..Len(lines) : IsRow(r, old, lines[i]),
         Len(more) \in Nat, \A i \in 1..Len(more) : IsRow(r, new, more[i]),
         NEW before, before = Index(r, lines), NEW after, after = Index(r, more),
         NEW events, events = Comparer(r, lines, more)
  PROVE  Tells(r, before, after, events)
<1>0. \A type, key : Event(type, key).type = type /\ Event(type, key).key = key
  BY DEF Event
<1>1. /\ IsFiniteSet(DOMAIN before) /\ IsFiniteSet(DOMAIN after)
      /\ \A k \in DOMAIN before : IsRow(r, old, before[k])
      /\ \A k \in DOMAIN after : IsRow(r, new, after[k])
  BY IndexIs
<1> DEFINE ka == DOMAIN before
           kb == DOMAIN after
           rows == UNION {RowEvents(r, k, before[k], after[k]) : k \in ka \cap kb}
<1>2. events =
        IF r = "editorial" THEN {Event("annonce", k) : k \in kb \ ka}
        ELSE IF Suspicious(ka, kb) THEN {Event("lecture_suspecte", "Page")}
        ELSE {Event("ajout", k) : k \in kb \ ka}
               \cup {Event("retrait", k) : k \in ka \ kb} \cup rows
  BY Zenon DEF Comparer
<1> HIDE DEF Event
<1>3. CASE r = "editorial"
  <2>1. events = {Event("annonce", k) : k \in kb \ ka}
    BY <1>2, <1>3
  <2>2. Event("lecture_suspecte", "Page") \notin events
    BY <1>0, <2>1
  <2>3. KeysOfType(events, "annonce") = kb \ ka
    BY <1>0, <2>1 DEF KeysOfType
  <2>4. QED
    BY <1>3, <2>2, <2>3 DEF Tells
<1>4. CASE r # "editorial" /\ Suspicious(ka, kb)
  <2>1. events = {Event("lecture_suspecte", "Page")}
    BY <1>2, <1>4
  <2>2. 5 * Cardinality(ka \cap kb) <= Cardinality(ka)
    BY <1>1, <1>4, SuspicionIs
  <2>3. QED
    BY <2>1, <2>2 DEF Tells
<1>5. CASE r # "editorial" /\ ~ Suspicious(ka, kb)
  <2>0. r \in {"catalogue", "tarifs"}
    BY <1>5 DEF Rules, Fields
  <2>1. events = {Event("ajout", k) : k \in kb \ ka}
                   \cup {Event("retrait", k) : k \in ka \ kb} \cup rows
    BY <1>2, <1>5
  <2>2. ASSUME NEW k \in ka \cap kb
        PROVE
          /\ \A e \in RowEvents(r, k, before[k], after[k]) :
               /\ e.key = k /\ e.type \notin {"ajout", "retrait", "lecture_suspecte"}
               /\ e.type = "prix_change" =>
                    \E f \in {"prix", "prix_mensuel", "prix_annuel"}
                            \cap DOMAIN before[k] : Differ(before[k], after[k], f)
          /\ \A f \in DOMAIN before[k] : Differ(before[k], after[k], f) =>
               \/ f = CLES[r]
               \/ \E e \in RowEvents(r, k, before[k], after[k]) : e.key = k
    BY <1>1, <2>0, RowEventsAre
  <2>3. ASSUME NEW e \in rows
        PROVE  \E k \in ka \cap kb :
                 /\ e.key = k /\ e.type \notin {"ajout", "retrait", "lecture_suspecte"}
                 /\ e.type = "prix_change" =>
                      \E f \in {"prix", "prix_mensuel", "prix_annuel"}
                              \cap DOMAIN before[k] : Differ(before[k], after[k], f)
    <3>1. PICK k \in ka \cap kb : e \in RowEvents(r, k, before[k], after[k])
      OBVIOUS
    <3>2. QED
      BY <2>2, <3>1
  <2>4. \A k \in ka \cap kb : RowEvents(r, k, before[k], after[k]) \subseteq rows
    OBVIOUS
  <2> HIDE DEF rows
  <2>5. Event("lecture_suspecte", "Page") \notin events
    BY <1>0, <2>1, <2>3
  <2>6. KeysOfType(events, "ajout") = kb \ ka
    BY <1>0, <2>1, <2>3 DEF KeysOfType
  <2>7. KeysOfType(events, "retrait") = ka \ kb
    BY <1>0, <2>1, <2>3 DEF KeysOfType
  <2>8. ASSUME NEW k \in ka \cap kb, NEW f \in DOMAIN before[k],
               Differ(before[k], after[k], f), f # CLES[r]
        PROVE  \E e \in events : e.key = k
    BY <2>1, <2>2, <2>4, <2>8
  <2>9. ASSUME NEW k \in ka \cap kb, k \in KeysOfType(events, "prix_change")
        PROVE  \E f \in {"prix", "prix_mensuel", "prix_annuel"}
                        \cap DOMAIN before[k] : Differ(before[k], after[k], f)
    <3>1. PICK e \in events : e.type = "prix_change" /\ e.key = k
      BY <2>9 DEF KeysOfType
    <3>2. e \in rows
      BY <1>0, <2>1, <3>1
    <3>3. QED
      BY <2>3, <3>1, <3>2
  <2>10. kb = (ka \ KeysOfType(events, "retrait")) \cup KeysOfType(events, "ajout")
    BY <2>6, <2>7
  <2>11. KeysOfType(events, "ajout") \cap ka = {}
    BY <2>6
  <2>12. QED
    BY <1>5, <2>5, <2>8, <2>9, <2>10, <2>11 DEF Tells
<1>6. QED
  BY <1>3, <1>4, <1>5

LEMMA ExtractionInvariantGivesComparison ==
  ASSUME ExtractionInvariant
  PROVE  ComparisonIsSound
<1>1. ASSUME NEW r \in Compared
      PROVE  /\ extractions[r].rule \in Rules
             /\ \E old : /\ Len(Previous(r).lines) \in Nat
                         /\ \A i \in 1..Len(Previous(r).lines) :
                              IsRow(extractions[r].rule, old, Previous(r).lines[i])
             /\ \E new : /\ Len(extractions[r].lines) \in Nat
                         /\ \A i \in 1..Len(extractions[r].lines) :
                              IsRow(extractions[r].rule, new, extractions[r].lines[i])
  <2>1. /\ r \in Extracted /\ r \in Runs /\ HasPrevious(r)
        /\ Previous(r).rule = extractions[r].rule
    BY DEF Compared, Extracted
  <2>2. PICK e : e = extractions[r] /\ IsExtraction(e)
    BY <2>1 DEF Extracted, ExtractionInvariant, ExtractionsAreSound, ExtractionIsSound
  <2>3. PICK last \in Extracted : last = PreviousRun(r)
    BY <2>1, PreviousRunIs
  <2>4. PICK p : p = Previous(r) /\ p = extractions[last]
    BY <2>1, <2>3 DEF Previous
  <2>5. IsExtraction(p)
    BY <2>3, <2>4 DEF Extracted, ExtractionInvariant, ExtractionsAreSound,
                      ExtractionIsSound
  <2>6. /\ e.rule \in Rules /\ e.lines = Lines(e.rule, e.text, e.answer)
        /\ e.answer \in Answers
        /\ p.rule = e.rule /\ p.lines = Lines(e.rule, p.text, p.answer)
        /\ p.answer \in Answers
    BY <2>1, <2>2, <2>4, <2>5 DEF IsExtraction
  <2>7. /\ Len(e.lines) \in Nat
        /\ \A i \in 1..Len(e.lines) : IsRow(e.rule, e.text, e.lines[i])
    BY <2>6, LinesAre
  <2>8. /\ Len(p.lines) \in Nat
        /\ \A i \in 1..Len(p.lines) : IsRow(e.rule, p.text, p.lines[i])
    BY <2>6, LinesAre
  <2>9. QED
    BY <2>2, <2>4, <2>6, <2>7, <2>8
<1>2. ASSUME NEW r \in Compared
      PROVE  Tells(extractions[r].rule,
                   Index(extractions[r].rule, Previous(r).lines),
                   Index(extractions[r].rule, extractions[r].lines),
                   Comparer(extractions[r].rule, Previous(r).lines,
                            extractions[r].lines))
  BY <1>1, ComparerIs, Zenon
<1>3. QED
  BY <1>2, Zenon DEF ComparisonIsSound, Tells, KeysOfType

(* What the events tell of the page (ComparisonIsSound).                   *)
THEOREM EventsTellThePage == ExtractionSpec => []ComparisonIsSound
BY ExtractionInvariantHolds, ExtractionInvariantGivesComparison, PTL

-------------------------------------------------------------------------------
(***************************************************************************)
(* Content: the parts beside each other.                                   *)
(***************************************************************************)

LEMMA StepOfEachPart ==
  ASSUME [ContentNext]_contentVars
  PROVE  /\ [ScrollingNext]_scrollVars /\ [ExtractionNext]_extractionVars
         /\ [ProductSheetsNext]_sheetVars /\ [BackupNext]_backupVars
         /\ [SessionKeyNext]_keyVars
<1>1. CASE UNCHANGED contentVars
  BY <1>1 DEF contentVars
<1>2. CASE ContentNext
  BY <1>2, Zenon DEF ContentNext
<1>3. QED
  BY <1>1, <1>2

(* What the run content checks is a behaviour of each part: a part moves   *)
(* by its own steps only, hence all that is proved of the parts holds of   *)
(* the whole.                                                              *)
THEOREM ContentIsItsParts ==
  Spec => /\ ScrollingSpec /\ ExtractionSpec /\ ProductSheetsSpec
          /\ BackupSpec /\ SessionKeySpec
<1>1. ContentInit => /\ ScrollingInit /\ ExtractionInit /\ ProductSheetsInit
                     /\ BackupInit /\ SessionKeyInit
  BY DEF ContentInit
<1>2. QED
  BY <1>1, StepOfEachPart, PTL
  DEF Spec, ScrollingSpec, ExtractionSpec, ProductSheetsSpec, BackupSpec,
      SessionKeySpec

PartIsKnown ==
  part \in {"none", "page", "extraction", "sheets", "backup", "key"}

(* Every variable of the five parts has its type, whatever the runs, the   *)
(* pages, the launches and the scripts.                                    *)
THEOREM ContentTypeCorrect == Spec => []TypeInvariant
<1>1. ContentInit => PartIsKnown
  BY DEF ContentInit, PartIsKnown
<1>2. PartIsKnown /\ [ContentNext]_contentVars => PartIsKnown'
  <2>1. ContentNext => PartIsKnown'
    BY Zenon DEF ContentNext, Only, PartIsKnown
  <2>2. UNCHANGED contentVars => part' = part
    BY DEF contentVars
  <2>3. QED
    BY <2>1, <2>2 DEF PartIsKnown
<1>3. Spec => []PartIsKnown
  BY <1>1, <1>2, PTL DEF Spec
<1>4. KeyInvariant => SessionKeyTypes
  BY DEF KeyInvariant
<1>5. ASSUME ScrollingTypes, ExtractionTypes, ProductSheetTypes, BackupTypes,
             SessionKeyTypes, PartIsKnown
      PROVE  TypeInvariant
  BY <1>5 DEF TypeInvariant, PartIsKnown
<1>6. QED
  BY <1>3, <1>4, <1>5, ContentIsItsParts, ScrollingTypeCorrect,
     ExtractionTypeCorrect, SheetsTypeCorrect, BackupTypeCorrect,
     KeyInvariantHolds, PTL

===============================================================================
