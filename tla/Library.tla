------------------------------ MODULE Library ------------------------------
(***************************************************************************)
(* What takes originals away and what needs them to stay: trash, purge and *)
(* cleanup (internal/trash, internal/storage) against imports, backups and *)
(* verification (internal/importer, internal/backup, internal/verify).     *)
(*                                                                         *)
(* They meet in the library lock: importers, backups, verification and     *)
(* catalog changes of the trash hold it shared, purge, reconciliation and  *)
(* the rebuild of derivatives hold it exclusively.  Holders may be         *)
(* processes of their own, and the lock of one that dies is released.      *)
(***************************************************************************)
EXTENDS Naturals, FiniteSets

CONSTANTS
  Asset,          \* the rows that may ever be inserted; ids are not reused
  MaxTime,        \* bound: the clock stops there
  Retention,      \* how long the trash is kept
  Reader,         \* the shared holders of an instance
  DrainLimit,     \* how many cleanup intents one drain reads
  MaxGeneration   \* bound: the last generation of derivatives

ASSUME LibraryAssumption ==
  /\ MaxTime \in Nat /\ Retention \in Nat
  /\ Reader \subseteq {"import", "backup", "verify"}
  /\ DrainLimit \in Nat \ {0}
  /\ MaxGeneration \in Nat

VARIABLES
  asset,     \* the assets table, and the paths of derivatives of a row
  intents,   \* the storage_cleanup table
  files,     \* what is on disk
  now,       \* the clock
  writer,    \* who holds the lock exclusively
  janitor,   \* what the expired sweep listed, and the cutoff it used
  importer,  \* a run of the importer
  backup,    \* a backup in progress
  archive,   \* the last published archive
  verify     \* a verification in progress

catalog == <<asset, intents>>
readers == <<importer, backup, archive, verify>>
vars == <<asset, intents, files, now, writer, janitor, importer, backup,
          archive, verify>>

Generation == 0 .. MaxGeneration
Area == {"originals", "trash", "thumb", "variant"}
Path == [area: Area, asset: Asset, gen: Generation]

Original(a) == [area |-> "originals", asset |-> a, gen |-> 0]
Legacy(a) == [area |-> "trash", asset |-> a, gen |-> 0]
Thumb(a, g) == [area |-> "thumb", asset |-> a, gen |-> g]

DerivativeOf(a) == [area: {"thumb", "variant"}, asset: {a}, gen: Generation]

Row == [status: {"none", "live", "trashed", "purged"}, deletedAt: 0 .. MaxTime,
        tier: SUBSET Path, gen: Generation]

NoRow == [status |-> "none", deletedAt |-> 0, tier |-> {}, gen |-> 0]
InCatalog(r) == r.status \in {"live", "trashed"}

FreeWriter == [pc |-> "idle", todo |-> {}, gone |-> {}, sweep |-> FALSE]
NoList == [list |-> {}, cutoff |-> 0]
NoImport == [on |-> FALSE, written |-> {}, jobs |-> {}, rendered |-> {}]
NoBackup == [pc |-> "idle", asset |-> [a \in Asset |-> NoRow], intents |-> {},
             todo |-> {}, copied |-> {}]
NoArchive == [published |-> FALSE, asset |-> [a \in Asset |-> NoRow],
              intents |-> {}, files |-> {}]
NoVerify == [pc |-> "idle", todo |-> {}, missing |-> {}]

BackupPc == {"idle", "validate", "derivatives", "originals", "trash", "publish"}

LibraryTypeOK ==
  /\ asset \in [Asset -> Row]
  /\ \A a \in Asset : asset[a].tier \subseteq
       IF InCatalog(asset[a]) THEN DerivativeOf(a) ELSE {}
  /\ intents \in SUBSET Path
  /\ files \in SUBSET Path
  /\ now \in 0 .. MaxTime
  /\ writer \in [pc: {"idle", "recover", "drain", "forget", "rebuild"},
                 todo: SUBSET Path, gone: SUBSET Path,
                 sweep: BOOLEAN]
  /\ janitor \in [list: SUBSET Asset, cutoff: 0 .. MaxTime]
  /\ importer \in [on: BOOLEAN, written: SUBSET Asset, jobs: SUBSET Asset,
                   rendered: SUBSET Asset]
  /\ backup \in [pc: BackupPc, asset: [Asset -> Row], intents: SUBSET Path,
                 todo: SUBSET Path, copied: SUBSET Path]
  /\ archive \in [published: BOOLEAN, asset: [Asset -> Row],
                  intents: SUBSET Path, files: SUBSET Path]
  /\ verify \in [pc: {"idle", "run"}, todo: SUBSET Asset,
                 missing: SUBSET Asset]

\* An upgraded library: the older layout moved trashed originals to trash/, and
\* a move may have been interrupted before or after its row was changed.
LibraryInit ==
  /\ \E held \in SUBSET Asset, moved \in SUBSET Asset, trashed \in SUBSET Asset :
       /\ moved \subseteq held /\ trashed \subseteq held
       /\ asset = [a \in Asset |->
            [status |-> IF a \in trashed THEN "trashed"
                        ELSE IF a \in held THEN "live" ELSE "none",
             deletedAt |-> 0,
             tier |-> IF a \in held THEN {Thumb(a, 0)} ELSE {}, gen |-> 0]]
       /\ files = {Thumb(a, 0) : a \in held}
                    \cup {Original(a) : a \in held \ moved}
                    \cup {Legacy(a) : a \in moved}
  /\ intents = {}
  /\ now = 0
  /\ writer = FreeWriter /\ janitor = NoList
  /\ importer = NoImport /\ backup = NoBackup
  /\ archive = NoArchive /\ verify = NoVerify

-----------------------------------------------------------------------------
(* The lock: LockLibrary polls until flock succeeds.                       *)

NoReader == ~importer.on /\ backup.pc = "idle" /\ verify.pc = "idle"

LockShared == writer.pc = "idle"
\* Wrong: a writer does not wait for the readers.
LockExclusiveAlone == writer.pc = "idle"

LockExclusive == writer.pc = "idle" /\ NoReader

-----------------------------------------------------------------------------
(* setDeleted: one transaction under the shared lock.  A restore that      *)
(* finds the original only in trash/ rolls back, runs Reconcile and tries  *)
(* again: both are actions of their own.                                   *)

SetStatus(a, status, time) ==
  /\ asset' = [asset EXCEPT ![a] =
                [asset[a] EXCEPT !.status = status, !.deletedAt = time]]
  /\ UNCHANGED <<intents, files, now, writer, janitor, readers>>

Delete(a) ==
  /\ LockShared
  /\ asset[a].status = "live"
  /\ SetStatus(a, "trashed", now)

Restore(a) ==
  /\ LockShared
  /\ asset[a].status = "trashed"
  /\ Original(a) \in files \/ Legacy(a) \notin files
  /\ SetStatus(a, "live", 0)

-----------------------------------------------------------------------------
(* purgeOne: what a row names is retired with it in one transaction; then  *)
(* the intents are drained under the same lock.                            *)

PathsOf(a) == asset[a].tier \cup {Original(a), Legacy(a)}

\* Wrong: the rows of the derivatives do not go with the asset.
RetireKeepsTier(a, sweep) ==
  /\ intents' = intents \cup PathsOf(a)
  /\ asset' = [asset EXCEPT ![a] = [asset[a] EXCEPT !.status = "purged"]]
  /\ writer' = [FreeWriter EXCEPT !.pc = "recover", !.sweep = sweep]

Retire(a, sweep) ==
  /\ intents' = intents \cup PathsOf(a)
  /\ asset' = [asset EXCEPT ![a] =
                IF asset[a].status = "trashed"
                THEN [NoRow EXCEPT !.status = "purged"] ELSE asset[a]]
  /\ writer' = [FreeWriter EXCEPT !.pc = "recover", !.sweep = sweep]

Purge(a) ==
  /\ LockExclusive
  /\ asset[a].status = "trashed"
  /\ Retire(a, FALSE)
  /\ UNCHANGED <<files, now, janitor, readers>>

\* PurgeExpired lists without the lock.  Times are compared as text there; the
\* clock is coarser than a second, so text and time agree.
Expired(a, cutoff) == asset[a].status = "trashed" /\ asset[a].deletedAt < cutoff

ListExpired ==
  /\ janitor.list = {} /\ ~writer.sweep
  /\ now >= Retention
  /\ janitor' = [list |-> {a \in Asset : Expired(a, now - Retention)},
                 cutoff |-> now - Retention]
  /\ UNCHANGED <<catalog, files, now, writer, readers>>

\* Wrong: the row is not read again, and only the DELETE still asks.
PurgeListedStale(a) ==
  /\ a \in janitor.list
  /\ LockExclusive
  /\ Retire(a, TRUE)
  /\ janitor' = [janitor EXCEPT !.list = janitor.list \ {a}]
  /\ UNCHANGED <<files, now, readers>>

\* The row is read again under the lock, and its age compared again.
PurgeListed(a) ==
  /\ a \in janitor.list
  /\ LockExclusive
  /\ Expired(a, janitor.cutoff)
  /\ Retire(a, TRUE)
  /\ janitor' = [janitor EXCEPT !.list = janitor.list \ {a}]
  /\ UNCHANGED <<files, now, readers>>

SkipListed(a) ==
  /\ a \in janitor.list
  /\ LockExclusive
  /\ ~Expired(a, janitor.cutoff)
  /\ janitor' = [janitor EXCEPT !.list = janitor.list \ {a}]
  /\ UNCHANGED <<catalog, files, now, writer, readers>>

-----------------------------------------------------------------------------
(* Reconcile, at every start, before every sweep and inside a restore:     *)
(* files of the older layout go back to originals/, then the intents are   *)
(* drained.  A purge joins at the drain, with nothing to recover.          *)

\* Wrong: without files of the older layout there is nothing to do.
BeginReconcileLegacy ==
  /\ LockExclusive
  /\ \E p \in files : p.area = "trash"
  /\ writer' = [FreeWriter EXCEPT !.pc = "recover",
                  !.todo = {p \in files : p.area = "trash"}]
  /\ UNCHANGED <<catalog, files, now, janitor, readers>>

BeginReconcile ==
  /\ LockExclusive
  /\ writer' = [FreeWriter EXCEPT !.pc = "recover",
                  !.todo = {p \in files : p.area = "trash"}]
  /\ UNCHANGED <<catalog, files, now, janitor, readers>>

Recovered(p) ==
  IF InCatalog(asset[p.asset]) /\ Original(p.asset) \notin files /\ p \in files
  THEN (files \ {p}) \cup {Original(p.asset)}
  ELSE files

RecoverLegacy(p) ==
  /\ writer.pc = "recover"
  /\ p \in writer.todo
  /\ files' = Recovered(p)
  /\ writer' = [writer EXCEPT !.todo = writer.todo \ {p}]
  /\ UNCHANGED <<catalog, now, janitor, readers>>

\* DrainCleanup reads the oldest intents; which those are is left open.
ReadIntents ==
  /\ writer.pc = "recover" /\ writer.todo = {}
  /\ \E oldest \in SUBSET intents :
       /\ Cardinality(oldest) <= DrainLimit
       /\ Cardinality(oldest) < DrainLimit => oldest = intents
       /\ writer' = [writer EXCEPT !.pc = "drain", !.todo = oldest]
  /\ UNCHANGED <<catalog, files, now, janitor, readers>>

RemoveFile(p) ==
  /\ writer.pc = "drain"
  /\ p \in writer.todo
  /\ files' = files \ {p}
  /\ writer' = [writer EXCEPT !.pc = "forget", !.gone = {p},
                              !.todo = writer.todo \ {p}]
  /\ UNCHANGED <<catalog, now, janitor, readers>>

\* Wrong: the first removal forgets the whole batch.
ForgetBatch ==
  /\ writer.pc = "forget"
  /\ intents' = intents \ (writer.gone \cup writer.todo)
  /\ writer' = [writer EXCEPT !.pc = "drain", !.gone = {}]
  /\ UNCHANGED <<asset, files, now, janitor, readers>>

ForgetIntent ==
  /\ writer.pc = "forget"
  /\ intents' = intents \ writer.gone
  /\ writer' = [writer EXCEPT !.pc = "drain", !.gone = {}]
  /\ UNCHANGED <<asset, files, now, janitor, readers>>

DrainEnds ==
  /\ writer.pc = "drain" /\ writer.todo = {}
  /\ writer' = FreeWriter
  /\ UNCHANGED <<catalog, files, now, janitor, readers>>

\* A statement or a removal that is still to come fails, or the process dies
\* before it.  An error ends the sweep that called.
WriterFails ==
  /\ writer.pc \in {"recover", "drain", "forget"}
  /\ writer.pc = "drain" => writer.todo # {}
  /\ writer' = FreeWriter
  /\ janitor' = IF writer.sweep THEN NoList ELSE janitor
  /\ UNCHANGED <<catalog, files, now, readers>>

JanitorDies ==
  /\ janitor.list # {}
  /\ janitor' = NoList
  /\ UNCHANGED <<catalog, files, now, writer, readers>>

-----------------------------------------------------------------------------
(* Importer.Run: originals and rows one file after the other, then the     *)
(* thumbnails by several workers, all under the shared lock.               *)

BeginImport ==
  /\ "import" \in Reader /\ LockShared
  /\ ~importer.on
  /\ importer' = [NoImport EXCEPT !.on = TRUE]
  /\ UNCHANGED <<catalog, files, now, writer, janitor, backup, archive, verify>>

WriteOriginal(a) ==
  /\ importer.on /\ importer.written = {} /\ importer.rendered = {}
  /\ asset[a].status = "none" /\ Original(a) \notin files
  /\ files' = files \cup {Original(a)}
  /\ importer' = [importer EXCEPT !.written = {a}]
  /\ UNCHANGED <<catalog, now, writer, janitor, backup, archive, verify>>

InsertAsset(a) ==
  /\ a \in importer.written
  /\ asset' = [asset EXCEPT ![a] = [NoRow EXCEPT !.status = "live"]]
  /\ importer' = [importer EXCEPT !.written = {},
                                  !.jobs = importer.jobs \cup {a}]
  /\ UNCHANGED <<intents, files, now, writer, janitor, backup, archive, verify>>

WriteThumb(a) ==
  /\ a \in importer.jobs /\ importer.written = {}
  /\ files' = files \cup {Thumb(a, 0)}
  /\ importer' = [importer EXCEPT !.jobs = importer.jobs \ {a},
                                  !.rendered = importer.rendered \cup {a}]
  /\ UNCHANGED <<catalog, now, writer, janitor, backup, archive, verify>>

\* Wrong: a second row for the same kind.
WithOneMore(r, p) == [r EXCEPT !.tier = r.tier \cup {p}]

\* The upsert of a derivative's row: one row for each kind.
WithTier(r, p) ==
  [r EXCEPT !.tier = {q \in r.tier : q.area # p.area} \cup {p}]

RecordThumb(a) ==
  /\ a \in importer.rendered
  /\ asset' = [asset EXCEPT ![a] = WithTier(asset[a], Thumb(a, 0))]
  /\ importer' = [importer EXCEPT !.rendered = importer.rendered \ {a}]
  /\ UNCHANGED <<intents, files, now, writer, janitor, backup, archive, verify>>

\* The run ends, with or without an error, or its process dies.
EndImport ==
  /\ importer.on
  /\ importer' = NoImport
  /\ UNCHANGED <<catalog, files, now, writer, janitor, backup, archive, verify>>

-----------------------------------------------------------------------------
(* CreateLive: a snapshot of the database, its references checked, then a  *)
(* walk of the three areas in the order of their names.                    *)

backupRest == <<asset, intents, files, now, writer, janitor, importer, verify>>

BeginBackup ==
  /\ "backup" \in Reader /\ LockShared
  /\ backup.pc = "idle"
  /\ backup' = [NoBackup EXCEPT !.pc = "validate", !.asset = asset,
                                !.intents = intents]
  /\ UNCHANGED <<backupRest, archive>>

\* validateReferences.
References(rows, found) ==
  \A a \in Asset :
    /\ rows[a].status = "live" => Original(a) \in found
    /\ rows[a].status = "trashed" => {Original(a), Legacy(a)} \cap found # {}

InArea(dir) ==
  {p \in files : IF dir = "derivatives" THEN p.area \in {"thumb", "variant"}
                  ELSE p.area = dir}

NextDir ==
  [d \in {"validate", "derivatives", "originals", "trash"} |->
     CASE d = "validate" -> "derivatives"
       [] d = "derivatives" -> "originals"
       [] d = "originals" -> "trash"
       [] d = "trash" -> "publish"]

EnterDir(dir) ==
  backup' = [backup EXCEPT !.pc = dir, !.todo = InArea(dir)]

Validate ==
  /\ backup.pc = "validate"
  /\ References(backup.asset, files)
  /\ EnterDir("derivatives")
  /\ UNCHANGED <<backupRest, archive>>

\* A file that appears after its directory was entered may still be met.
CopyFile(p) ==
  /\ backup.pc \in {"derivatives", "originals", "trash"}
  /\ p \in InArea(backup.pc) \ backup.copied
  /\ backup' = [backup EXCEPT !.todo = backup.todo \ {p},
                              !.copied = backup.copied \cup {p}]
  /\ UNCHANGED <<backupRest, archive>>

LeaveDir ==
  /\ backup.pc \in {"derivatives", "originals", "trash"}
  /\ backup.todo = {}
  /\ EnterDir(NextDir[backup.pc])
  /\ UNCHANGED <<backupRest, archive>>

Publish ==
  /\ backup.pc = "publish"
  /\ archive' = [published |-> TRUE, asset |-> backup.asset,
                 intents |-> backup.intents, files |-> backup.copied]
  /\ backup' = NoBackup
  /\ UNCHANGED backupRest

\* A reference is missing, a file of the walk has vanished, the destination
\* fails, or the process dies: the archive of an earlier run stays.
BackupFails ==
  /\ backup.pc # "idle"
  /\ backup' = NoBackup
  /\ UNCHANGED <<backupRest, archive>>

\* Restore into an empty directory, with the server stopped and the old
\* library lost.
RestoreArchive ==
  /\ archive.published
  /\ NoReader /\ writer.pc = "idle"
  /\ References(archive.asset, archive.files)
  /\ asset' = archive.asset /\ intents' = archive.intents
  /\ files' = archive.files
  /\ janitor' = NoList
  /\ UNCHANGED <<now, writer, readers>>

-----------------------------------------------------------------------------
(* Verifier.Run: every live row's original, under the shared lock.         *)

\* Wrong: without the lock.
BeginVerifyUnlocked ==
  /\ "verify" \in Reader
  /\ verify.pc = "idle"
  /\ verify' = [pc |-> "run", missing |-> {},
                todo |-> {a \in Asset : asset[a].status = "live"}]
  /\ UNCHANGED <<catalog, files, now, writer, janitor, importer, backup, archive>>

BeginVerify ==
  /\ "verify" \in Reader /\ LockShared
  /\ verify.pc = "idle"
  /\ verify' = [pc |-> "run", missing |-> {},
                todo |-> {a \in Asset : asset[a].status = "live"}]
  /\ UNCHANGED <<catalog, files, now, writer, janitor, importer, backup, archive>>

CheckOne(a) ==
  /\ verify.pc = "run" /\ a \in verify.todo
  /\ verify' = [verify EXCEPT !.todo = verify.todo \ {a},
                  !.missing = verify.missing \cup
                    (IF Original(a) \in files THEN {} ELSE {a})]
  /\ UNCHANGED <<catalog, files, now, writer, janitor, importer, backup, archive>>

EndVerify ==
  /\ verify.pc = "run"
  /\ verify' = NoVerify
  /\ UNCHANGED <<catalog, files, now, writer, janitor, importer, backup, archive>>

Tick ==
  /\ now < MaxTime
  /\ now' = now + 1
  /\ UNCHANGED <<catalog, files, writer, janitor, readers>>

-----------------------------------------------------------------------------
Trashing == \E a \in Asset : Delete(a) \/ Restore(a) \/ Purge(a)
Sweeping == \/ ListExpired \/ JanitorDies
            \/ \E a \in Asset : PurgeListed(a) \/ SkipListed(a)
Writing == \/ ReadIntents \/ ForgetIntent \/ DrainEnds
           \/ \E p \in Path : RecoverLegacy(p) \/ RemoveFile(p)
Importing == \/ BeginImport \/ EndImport
             \/ \E a \in Asset : \/ WriteOriginal(a) \/ InsertAsset(a)
                                 \/ WriteThumb(a) \/ RecordThumb(a)
BackingUp == \/ BeginBackup \/ Validate \/ LeaveDir \/ Publish \/ BackupFails
             \/ RestoreArchive \/ \E p \in Path : CopyFile(p)
Verifying == BeginVerify \/ EndVerify \/ \E a \in Asset : CheckOne(a)

LibraryNext ==
  \/ Trashing \/ Sweeping \/ BeginReconcile \/ Writing \/ WriterFails
  \/ Importing \/ BackingUp \/ Verifying \/ Tick

LibrarySpec == LibraryInit /\ [][LibraryNext]_vars

\* The goroutine that holds the lock runs on, and Reconcile comes again, with
\* the daily ticker and every start.
FairLibrary == LibrarySpec /\ WF_vars(Writing) /\ WF_vars(BeginReconcile)

-----------------------------------------------------------------------------
(* Properties.                                                             *)

\* A row that is not purged has its original, where the current or the older
\* layout keeps it, and the file of every derivative it names: whatever was
\* deleted, restored, purged, recovered and restored from an archive meanwhile.
RowHasFile ==
  \A a \in Asset : InCatalog(asset[a]) =>
    {Original(a), Legacy(a)} \cap files # {} /\ asset[a].tier \subseteq files

\* A published archive passes the validation of Restore, and has the
\* derivatives its rows name: no purge or recovery came between the snapshot
\* and the end of the walk.
ArchiveComplete ==
  archive.published =>
    /\ References(archive.asset, archive.files)
    /\ \A a \in Asset : archive.asset[a].tier \subseteq archive.files

\* What is left of a purged original on disk is still to be removed: no crash
\* or failed removal, and no layout, makes the server forget it.
PurgedIsErased ==
  \A a \in Asset : asset[a].status = "purged" =>
    {Original(a), Legacy(a)} \cap files \subseteq intents

\* Verification reports an original as missing only when it is: nothing moves
\* or appears for a row while it runs.
NoFalseAlarm == \A a \in verify.missing : Original(a) \notin files

\* The expired sweep purges only what has been in the trash for longer than the
\* retention, whatever was restored, or deleted again, since it listed.
SweepSparesRecent ==
  [][\A a \in Asset :
       (asset[a].status # "purged" /\ asset'[a].status = "purged" /\ writer'.sweep)
         => asset[a].status = "trashed" /\ asset[a].deletedAt + Retention < now]_vars

\* If readers come to an end, recoveries and drains no longer fail midway and
\* the library is not lost again, every committed removal is carried out, also
\* one that was interrupted, and beyond the drain's limit.
CleanupCompletes ==
  (<>[]NoReader /\ <>[][~WriterFails /\ ~RestoreArchive]_vars)
    => \A p \in Path : p \in intents ~> p \notin intents
=============================================================================
