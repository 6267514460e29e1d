---------------------------- MODULE StateDatabase ----------------------------
(***************************************************************************)
(* One of the device's SQLite databases (persistence.py), the service that *)
(* creates it, imports the JSON state of older firmware into it and writes *)
(* to it, and the administrator's backup and restore (database_admin.py).  *)
(*                                                                         *)
(* A file is a number that its names refer to.  base is what a database    *)
(* file holds, log what it holds together with its WAL: -1 no schema, 0 a  *)
(* schema, otherwise the version of the document.  The files -wal, -shm    *)
(* and -journal are one.  SQLite's commits are durable and sync the        *)
(* directory that holds the WAL; other changes of names reach the disk in  *)
(* the order they were made (an ordered journal), at the latest when the   *)
(* directory is synced.                                                    *)
(***************************************************************************)
EXTENDS Integers, FiniteSets

CONSTANTS
    StartsDuringRestore,   \* TRUE: services may be started while a restore runs
    MaxFiles,              \* bound: database files
    MaxVersion,            \* bound: versions of the document
    MaxRestores, MaxRestoreFaults, MaxLosses, MaxCuts

ASSUME DatabaseAssumption ==
    /\ StartsDuringRestore \in BOOLEAN
    /\ {MaxFiles, MaxVersion, MaxRestores, MaxRestoreFaults, MaxLosses, MaxCuts} \subseteq Nat

VARIABLES
    names,       \* the directory as a process sees it: name -> file, 0 if there is none
    earlier,     \* directories that a power cut may still bring back
    base, log,   \* file -> content without and with its WAL
    created,     \* number of database files so far
    json,        \* older firmware left a JSON state
    service,     \* the next step of the service
    conn,        \* the file its connection has open, or 0
    admin,       \* the next step of the restore
    token,       \* restores begun; names what this one archives
    copying,     \* the file a backup has copied to, not yet published, or 0
    backup,      \* the backup that was published, or 0
    committed,   \* the version committed or restored last
    imported,    \* the document came from the JSON state
    held, lost,  \* files something was committed to; those that were taken away
    restoreFaults, cuts

nameVars == <<names, earlier>>
fileVars == <<base, log, created>>
serviceVars == <<service, conn>>
adminVars == <<admin, token, restoreFaults>>
backupVars == <<copying, backup>>
historyVars == <<committed, imported, held, lost>>
databaseVars == <<nameVars, fileVars, json, serviceVars, adminVars, backupVars, historyVars, cuts>>

Db == <<"db", 0>>
Wal == <<"wal", 0>>
Marker == <<"initialized", 0>>
Copy == <<"pre-sqlite", 0>>
SavedDb(t) == <<"db", t>>
SavedWal(t) == <<"wal", t>>
Prepared(t) == <<"prepared", t>>
Names == {"db", "wal"} \X (0..MaxRestores) \cup {"prepared"} \X (1..MaxRestores) \cup {Marker, Copy}

DatabaseInit ==
    /\ names = [n \in Names |-> 0] /\ earlier = {}
    /\ base = [f \in 1..MaxFiles |-> -1] /\ log = base /\ created = 0
    /\ json \in BOOLEAN
    /\ service = "down" /\ conn = 0
    /\ admin = "idle" /\ token = 0 /\ restoreFaults = 0
    /\ copying = 0 /\ backup = 0
    /\ committed = 0 /\ imported = FALSE /\ held = {} /\ lost = {}
    /\ cuts = 0

-----------------------------------------------------------------------------
(* The directory *)

Exists(n) == names[n] # 0
Set(n, f) == [names EXCEPT ![n] = f]
Moved(from, to) == [names EXCEPT ![from] = 0, ![to] = names[from]]

Change(dir) == names' = dir /\ earlier' = earlier \cup {names}
ChangeSynced(dir) == names' = dir /\ earlier' = {}
SyncParent == ChangeSynced(names)
RenamedIfThere(from, to) ==
    IF Exists(from) THEN Change(Moved(from, to)) ELSE UNCHANGED nameVars

\* What a connection to the live name reads: the WAL beside it is replayed, whoever's it is,
\* but a WAL beside an empty file is deleted.
Current == IF Exists(Wal) /\ base[names[Db]] # -1 THEN log[names[Wal]] ELSE base[names[Db]]

-----------------------------------------------------------------------------
(* StateDatabase.__init__ under init.lock *)

ServiceTo(step) == service' = step
ServiceFrame == UNCHANGED <<json, adminVars, backupVars, cuts>>

\* a missing database is created, unless the marker says that there was one
OpenFile ==
    /\ service = "down" /\ (admin = "idle" \/ StartsDuringRestore)
    /\ \/ Exists(Db) /\ UNCHANGED <<nameVars, created>>
       \/ ~Exists(Db) /\ ~Exists(Marker) /\ created < MaxFiles
          /\ created' = created + 1 /\ Change(Set(Db, created + 1))
    /\ ServiceTo("schema")
    /\ UNCHANGED <<base, log, conn, historyVars>> /\ ServiceFrame

\* The schema is created in one transaction.  Closing the last connection
\* checkpoints a WAL that an earlier process left and removes it.
OpenSchema ==
    LET f == names[Db] IN
    /\ service = "schema" /\ Exists(Db) /\ ~(Exists(Marker) /\ Current = -1)
    /\ IF Current = -1
       THEN /\ base' = [base EXCEPT ![f] = 0] /\ log' = [log EXCEPT ![f] = 0]
            /\ ChangeSynced(Set(Wal, 0))
       ELSE /\ base' = [base EXCEPT ![f] = Current] /\ log' = [log EXCEPT ![f] = Current]
            /\ IF Exists(Wal) THEN Change(Set(Wal, 0)) ELSE UNCHANGED nameVars
    /\ ServiceTo("marker")
    /\ UNCHANGED <<created, conn, historyVars>> /\ ServiceFrame

OpenMarker ==
    /\ service = "marker"
    /\ \/ Exists(Marker) /\ UNCHANGED nameVars /\ ServiceTo("import")
       \/ ~Exists(Marker) /\ Change(Set(Marker, 1)) /\ ServiceTo("markersync")
    /\ UNCHANGED <<fileVars, conn, historyVars>> /\ ServiceFrame

OpenMarkerSync ==
    /\ service = "markersync" /\ SyncParent /\ ServiceTo("import")
    /\ UNCHANGED <<fileVars, conn, historyVars>> /\ ServiceFrame

\* whatever is refused, or missing because a restore moved it, ends the service
OpenRefused ==
    /\ \/ service = "schema" /\ (Exists(Db) => Exists(Marker) /\ Current = -1)
       \/ service = "import" /\ ~Exists(Db)
    /\ ServiceTo("down")
    /\ UNCHANGED <<nameVars, fileVars, conn, historyVars>> /\ ServiceFrame

-----------------------------------------------------------------------------
(* import_json, in one transaction that is open from its first read *)

Begin == conn' = names[Db] /\ Change(Set(Wal, names[Db]))

ImportBegin ==
    /\ service = "import" /\ Exists(Db)
    /\ IF Current >= 1
       THEN ServiceTo("up") /\ UNCHANGED <<nameVars, conn>>
       ELSE Begin /\ ServiceTo(IF json THEN "preserve" ELSE "import commit")
    /\ UNCHANGED <<fileVars, historyVars>> /\ ServiceFrame

\* _preserve_import_source: a complete copy is linked to its name, unless one is there
ImportPreserve ==
    /\ service = "preserve"
    /\ IF Exists(Copy) THEN UNCHANGED nameVars ELSE Change(Set(Copy, 1))
    /\ ServiceTo("preserve sync")
    /\ UNCHANGED <<fileVars, conn, historyVars>> /\ ServiceFrame

ImportPreserveSync ==
    /\ service = "preserve sync" /\ SyncParent /\ ServiceTo("import commit")
    /\ UNCHANGED <<fileVars, conn, historyVars>> /\ ServiceFrame

Commit(version) ==
    /\ log' = [log EXCEPT ![conn] = version]
    /\ committed' = version /\ held' = held \cup {conn}
    /\ SyncParent
    /\ UNCHANGED <<base, created, conn, lost>>

ImportCommit ==
    /\ service = "import commit" /\ Commit(1)
    /\ imported' = json /\ ServiceTo("close")
    /\ ServiceFrame

-----------------------------------------------------------------------------
(* update, put and put_capture_state *)

PutBegin ==
    /\ service = "up" /\ Exists(Db) /\ Current < MaxVersion
    /\ Begin /\ ServiceTo("commit")
    /\ UNCHANGED <<fileVars, historyVars>> /\ ServiceFrame

PutCommit ==
    /\ service = "commit" /\ Commit(log[conn] + 1)
    /\ ServiceTo("close")
    /\ UNCHANGED imported /\ ServiceFrame

\* the last connection checkpoints, and removes what is at the WAL's name
CloseConnection ==
    /\ service = "close"
    /\ base' = [base EXCEPT ![conn] = log[conn]] /\ conn' = 0
    /\ IF Exists(Wal) THEN Change(Set(Wal, 0)) ELSE UNCHANGED nameVars
    /\ ServiceTo("up")
    /\ UNCHANGED <<log, created, historyVars>> /\ ServiceFrame

ServiceStops ==
    /\ service = "up" /\ ServiceTo("down")
    /\ UNCHANGED <<nameVars, fileVars, conn, historyVars>> /\ ServiceFrame

-----------------------------------------------------------------------------
(* Backup: the online copy of a database, published under a name of its own *)

BackupFrame == UNCHANGED <<nameVars, json, serviceVars, adminVars, historyVars, cuts>>

BackupCopy ==
    /\ copying = 0 /\ backup = 0 /\ created < MaxFiles
    /\ Exists(Db) /\ Current >= 0
    /\ created' = created + 1 /\ copying' = created + 1
    /\ base' = [base EXCEPT ![created + 1] = Current]
    /\ log' = [log EXCEPT ![created + 1] = Current]
    /\ UNCHANGED backup /\ BackupFrame

BackupPublish ==
    /\ copying # 0 /\ backup' = copying /\ copying' = 0
    /\ UNCHANGED fileVars /\ BackupFrame

-----------------------------------------------------------------------------
(* Restore, under restore.lock *)

AdminTo(step) == admin' = step
AdminFrame == UNCHANGED <<json, serviceVars, backupVars, imported, lost, cuts>>
AdminKeeps == UNCHANGED <<fileVars, committed, held, token, restoreFaults>> /\ AdminFrame

\* require_offline, the checks of the backup, and a private copy of it
RestoreBegin ==
    /\ admin = "idle" /\ token < MaxRestores /\ service = "down"
    /\ backup # 0 /\ base[backup] >= 1 /\ created < MaxFiles
    /\ token' = token + 1 /\ created' = created + 1
    /\ base' = [base EXCEPT ![created + 1] = base[backup]]
    /\ log' = [log EXCEPT ![created + 1] = base[backup]]
    /\ Change(Set(Prepared(token + 1), created + 1))
    /\ AdminTo("marker")
    /\ UNCHANGED <<committed, held, restoreFaults>> /\ AdminFrame

\* the marker is durable before the old database moves
RestoreMarker ==
    /\ admin = "marker"
    /\ IF Exists(Marker) THEN UNCHANGED nameVars ELSE Change(Set(Marker, 1))
    /\ AdminTo("marker sync") /\ AdminKeeps

RestoreMarkerSync ==
    /\ admin = "marker sync" /\ SyncParent
    /\ AdminTo("archive") /\ AdminKeeps

RestoreArchive ==
    /\ admin = "archive" /\ RenamedIfThere(Db, SavedDb(token))
    /\ AdminTo("archive wal") /\ AdminKeeps

RestoreArchiveWal_Left ==
    /\ admin = "archive wal" /\ UNCHANGED nameVars
    /\ AdminTo("archive sync") /\ AdminKeeps

RestoreArchiveWal ==
    /\ admin = "archive wal" /\ RenamedIfThere(Wal, SavedWal(token))
    /\ AdminTo("archive sync") /\ AdminKeeps

\* the old names are durably gone before the new database takes one of them
RestoreArchiveSync ==
    /\ admin = "archive sync" /\ SyncParent
    /\ AdminTo("publish") /\ AdminKeeps

RestorePublish ==
    LET f == names[Prepared(token)] IN
    /\ admin = "publish" /\ Change(Moved(Prepared(token), Db))
    /\ committed' = base[f]
    /\ AdminTo("publish sync")
    /\ UNCHANGED <<fileVars, held, token, restoreFaults>> /\ AdminFrame

RestorePublishSync ==
    /\ admin = "publish sync" /\ SyncParent
    /\ AdminTo("check") /\ AdminKeeps

\* StateDatabase(destination), under init.lock: it finds its schema and its marker
RestoreCheck ==
    /\ admin = "check" /\ service \notin {"schema", "marker", "markersync"}
    /\ UNCHANGED nameVars
    /\ AdminTo("idle") /\ AdminKeeps

\* a step raises: the private copy is removed, everything else stays
RestoreRaises ==
    /\ admin # "idle" /\ restoreFaults < MaxRestoreFaults
    /\ restoreFaults' = restoreFaults + 1
    /\ IF Exists(Prepared(token)) THEN Change(Set(Prepared(token), 0)) ELSE UNCHANGED nameVars
    /\ AdminTo("idle")
    /\ UNCHANGED <<fileVars, committed, held, token>> /\ AdminFrame

-----------------------------------------------------------------------------
(* The world *)

CutFrame == UNCHANGED <<fileVars, json, token, restoreFaults, backup, committed, imported, held>>

\* a process is killed; the directory stays as it is
KillService ==
    /\ service # "down" /\ cuts < MaxCuts /\ cuts' = cuts + 1
    /\ ServiceTo("down") /\ conn' = 0
    /\ UNCHANGED <<nameVars, admin, copying, lost>> /\ CutFrame

KillAdmin ==
    /\ admin # "idle" \/ copying # 0
    /\ cuts < MaxCuts /\ cuts' = cuts + 1
    /\ AdminTo("idle") /\ copying' = 0
    /\ UNCHANGED <<nameVars, serviceVars, lost>> /\ CutFrame

PowerCut ==
    /\ cuts < MaxCuts /\ cuts' = cuts + 1
    /\ \E dir \in earlier \cup {names} : ChangeSynced(dir)
    /\ ServiceTo("down") /\ conn' = 0 /\ AdminTo("idle") /\ copying' = 0
    /\ UNCHANGED lost /\ CutFrame

\* the database file disappears from a stopped device
LoseDatabase ==
    /\ service = "down" /\ admin = "idle"
    /\ Exists(Db) /\ Cardinality(lost) < MaxLosses
    /\ lost' = lost \cup {names[Db]} /\ ChangeSynced(Set(Db, 0))
    /\ UNCHANGED <<serviceVars, admin, copying, cuts>> /\ CutFrame

DatabaseNext ==
    \/ OpenFile \/ OpenSchema \/ OpenMarker \/ OpenMarkerSync \/ OpenRefused
    \/ ImportBegin \/ ImportPreserve \/ ImportPreserveSync \/ ImportCommit
    \/ PutBegin \/ PutCommit \/ CloseConnection \/ ServiceStops
    \/ BackupCopy \/ BackupPublish
    \/ RestoreBegin \/ RestoreMarker \/ RestoreMarkerSync \/ RestoreArchive
    \/ RestoreArchiveWal \/ RestoreArchiveSync \/ RestorePublish \/ RestorePublishSync
    \/ RestoreCheck \/ RestoreRaises
    \/ KillService \/ KillAdmin \/ PowerCut \/ LoseDatabase

DatabaseSpec == DatabaseInit /\ [][DatabaseNext]_databaseVars

-----------------------------------------------------------------------------
(* Properties *)

DatabaseTypeOK ==
    /\ {names} \cup earlier \subseteq [Names -> 0..MaxFiles]
    /\ {base, log} \subseteq [1..MaxFiles -> -1..MaxVersion] /\ created \in 0..MaxFiles
    /\ {json, imported} \subseteq BOOLEAN
    /\ {conn, copying, backup} \subseteq 0..MaxFiles /\ token \in 0..MaxRestores
    /\ committed \in 0..MaxVersion /\ {held, lost} \subseteq SUBSET (1..MaxFiles)

\* Whatever a cut keeps of a restore, a database never stands beside the WAL of another,
\* whose pages SQLite would replay into it (_restore_prepared).
WalBelongs ==
    Exists(Db) /\ Exists(Wal) /\ base[names[Db]] # -1 => names[Wal] = names[Db]

\* A service that runs reads what was committed or restored last: neither a lost database
\* nor an interrupted restore brings back the JSON state or an empty one (_initialize).
AuthorityKept == service \in {"up", "commit"} /\ Exists(Db) => Current = committed

\* A document imported from the JSON state has its copy beside it (_preserve_import_source).
ImportKept == imported => Exists(Copy)

\* No step of a restore, complete or not, discards a database that was in use, nor a WAL
\* with commits of its own (_restore_prepared).
OldKept ==
    \A f \in held \ lost :
        /\ \E t \in 0..MaxRestores : names[SavedDb(t)] = f
        /\ log[f] # base[f] => \E t \in 0..MaxRestores : names[SavedWal(t)] = f

\* The state survives its migration, its loss, its restoration and any cut between
\* (persistence.py _initialize and import_json, database_admin.py restore).
DatabaseSafe == WalBelongs /\ AuthorityKept /\ ImportKept /\ OldKept
=============================================================================
