--------------------------- MODULE LibrarySafety ---------------------------
(***************************************************************************)
(* Theorems about Library, and about Derivatives on top of it, for any     *)
(* assets, times, readers and bounds.                                      *)
(*                                                                         *)
(* The argument is the lock's.  While the writer holds it no reader is at  *)
(* work (LockOK), so no row changes and what is drained stays dead         *)
(* (WriterOK).  While a reader holds it nothing is removed: files only     *)
(* grow, so what a backup has copied, will copy or has yet to reach        *)
(* (Held) covers what its snapshot names (BackupOK).                       *)
(*                                                                         *)
(* A rebuild is the writer, so it alone changes the rows it is about and   *)
(* what it lists to remove stays unnamed (RebuildOK); a render holds no    *)
(* lock, but its generation is never ahead of its row's (RendersOK).       *)
(***************************************************************************)
EXTENDS Derivatives, FiniteSetTheorems, TLAPS

-----------------------------------------------------------------------------
(* The inductive invariant.                                                *)

\* A row of the catalog names derivatives of its own, any other row none.
RowsOK(rows) ==
  /\ rows \in [Asset -> Row]
  /\ \A a \in Asset : rows[a].tier \subseteq
       IF InCatalog(rows[a]) THEN DerivativeOf(a) ELSE {}

\* The rows of the catalog, of a backup in progress and of the archive.
Shape == LibraryTypeOK /\ RowsOK(backup.asset) /\ RowsOK(archive.asset)

\* A row of the catalog has its original, and the files of what is served of it.
RowServed ==
  \A a \in Asset : InCatalog(asset[a]) =>
    {Original(a), Legacy(a)} \cap files # {} /\ Servable(asset[a]) \subseteq files

ArchiveServed ==
  archive.published =>
    /\ References(archive.asset, archive.files)
    /\ \A a \in Asset : Servable(archive.asset[a]) \subseteq archive.files

Dead(rows, paths) == \A p \in paths : rows[p.asset].status = "purged"

Erased(rows, found, listed) ==
  \A a \in Asset : rows[a].status = "purged" =>
    {Original(a), Legacy(a)} \cap found \subseteq listed

IntentsOK == Dead(asset, intents)

LockOK == writer.pc # "idle" => NoReader

WriterOK ==
  /\ writer.pc = "idle" => ~writer.sweep
  /\ writer.pc = "recover" => \A p \in writer.todo : p.area = "trash"
  /\ writer.pc = "drain" => Dead(asset, writer.todo)
  /\ writer.pc = "forget" => 
       /\ Dead(asset, writer.todo)
       /\ \A p \in writer.gone \cap files : p.area \notin {"originals", "trash"}

\* The cutoff of a list is not younger than the retention.
SweepOK == janitor.list # {} => janitor.cutoff + Retention <= now

ImportOK ==
  /\ ~importer.on => importer = NoImport
  /\ \A a \in importer.written : asset[a].status = "none" /\ Original(a) \in files
  /\ \A a \in importer.jobs \cup importer.rendered : InCatalog(asset[a])
  /\ \A a \in importer.rendered : Thumb(a, 0) \in files

\* The directories the walk has yet to enter.
Ahead ==
  CASE backup.pc = "validate" -> {"thumb", "variant", "originals", "trash"}
    [] backup.pc = "derivatives" -> {"originals", "trash"}
    [] backup.pc = "originals" -> {"trash"}
    [] OTHER -> {}

\* What is in the archive, or will be if nothing is removed.
Held == backup.copied \cup backup.todo \cup {p \in files : p.area \in Ahead}

BackupOK ==
  /\ backup.pc # "idle" =>
       /\ Dead(backup.asset, backup.intents)
       /\ Erased(backup.asset, files, backup.intents)
       /\ \A a \in Asset : backup.asset[a].status = "purged" => asset[a].status = "purged"
       /\ Held \subseteq files
       /\ \A a \in Asset : Servable(backup.asset[a]) \subseteq Held
  /\ backup.pc \notin {"idle", "validate"} => References(backup.asset, Held)
  /\ backup.pc = "publish" => backup.todo = {}

ArchiveOK ==
  /\ Dead(archive.asset, archive.intents)
  /\ Erased(archive.asset, archive.files, archive.intents)

VerifyOK ==
  /\ verify.pc = "idle" => verify = NoVerify
  /\ \A a \in verify.todo \cup verify.missing : asset[a].status # "none"

LibraryInv ==
  /\ Shape /\ RowServed /\ PurgedIsErased /\ IntentsOK
  /\ LockOK /\ WriterOK /\ SweepOK /\ ImportOK
  /\ BackupOK /\ ArchiveOK /\ ArchiveServed
  /\ VerifyOK /\ NoFalseAlarm

\* Without rebuilds and renders, rows name nothing but their first thumbnails.
OnlyThumbs(rows) == \A a \in Asset : \A p \in rows[a].tier : p.area = "thumb"
FirstThumbs == OnlyThumbs(asset) /\ OnlyThumbs(backup.asset) /\ OnlyThumbs(archive.asset)

-----------------------------------------------------------------------------
(* The inductive invariant with rebuilds and renders.                      *)

\* A row names one derivative of a kind, and no variant newer than itself.
OnePerKind(rows) ==
  \A a \in Asset :
    /\ \A p \in rows[a].tier, q \in rows[a].tier : p.area = q.area => p = q
    /\ \A p \in rows[a].tier : p.area = "variant" => p.gen <= rows[a].gen

DerivativeTypes ==
  /\ rebuild \in [step: {"none", "write", "record", "commit", "list", "clean"},
                  of: SUBSET Asset, previous: SUBSET Path]
  /\ asked \subseteq Asset \X Generation
  /\ flight \in [Asset \X Generation -> {"none", "write", "record"}]
  /\ copies \subseteq [asset: Asset, version: Generation, content: Generation]

\* What a rebuild is about to remove is not served, unless the generation has not
\* advanced yet.
RebuildOf(a) ==
  /\ asset[a].status = "live" /\ rebuild.previous \subseteq DerivativeOf(a)
  /\ rebuild.step \in {"write", "record", "commit"} =>
       /\ asset[a].gen < MaxGeneration
       /\ \A p \in rebuild.previous : p.area = "variant" => p.gen <= asset[a].gen
  /\ rebuild.step = "record" => NewThumb(a) \in files
  /\ rebuild.step \in {"list", "clean"} =>
       \A p \in rebuild.previous : p.area = "variant" => p.gen < asset[a].gen
  /\ rebuild.step = "clean" =>
       \A p \in rebuild.previous : p.area = "thumb" => p \notin asset[a].tier

RebuildOK ==
  /\ rebuild.step = "none" <=> writer.pc # "rebuild"
  /\ rebuild.step # "none" => \E a \in Asset : rebuild.of = {a} /\ RebuildOf(a)

\* Generations only grow: what was read of one is not ahead of the row.
NotAhead(a, g) ==
  asset[a].status # "none" /\ (InCatalog(asset[a]) => g <= asset[a].gen)

RendersOK ==
  /\ \A a \in Asset, g \in Generation :
       /\ <<a, g>> \in asked \/ flight[<<a, g>>] # "none" => NotAhead(a, g)
       /\ flight[<<a, g>>] = "record" /\ InCatalog(asset[a]) /\ asset[a].gen = g =>
            Variant(a, g) \in files
  /\ \A c \in copies : NotAhead(c.asset, c.version)

Tiers == OnePerKind(asset) /\ OnePerKind(backup.asset) /\ OnePerKind(archive.asset)

DerivativesInv ==
  /\ LibraryInv /\ Tiers /\ DerivativeTypes /\ RebuildOK /\ RendersOK /\ CommitRefreshes

-----------------------------------------------------------------------------
(* Types.                                                                  *)

\* The paths the code builds for an asset are paths of the model, and a first
\* thumbnail is one of its derivatives.
LEMMA Paths ==
  /\ \A a \in Asset : {Original(a), Legacy(a), Thumb(a, 0)} \subseteq Path
  /\ \A a \in Asset : DerivativeOf(a) \subseteq Path
  /\ \A a \in Asset : Thumb(a, 0) \in DerivativeOf(a)
BY LibraryAssumption DEF Original, Legacy, Thumb, DerivativeOf, Path, Area, Generation

\* Zero, the value a fresh row has, is a time and a generation.
LEMMA Zero == 0 \in 0 .. MaxTime /\ 0 \in Generation
BY LibraryAssumption DEF Generation

\* A catalog without rows is well formed.
LEMMA NoRows == RowsOK([a \in Asset |-> NoRow])
BY LibraryAssumption DEF RowsOK, NoRow, Row, InCatalog, Generation

\* Replacing one row by a well-formed one keeps a catalog well formed.
LEMMA RowUpdate ==
  ASSUME NEW rows, RowsOK(rows), NEW a \in Asset, NEW r \in Row,
         r.tier \subseteq IF InCatalog(r) THEN DerivativeOf(a) ELSE {}
  PROVE  RowsOK([rows EXCEPT ![a] = r])
BY DEF RowsOK

\* Upserting a derivative changes only the files the row names: the one of the
\* same tier gives way to the new one.
LEMMA TierUpdate ==
  ASSUME NEW r \in Row, NEW p \in Path
  PROVE  /\ WithTier(r, p) \in Row
         /\ WithTier(r, p).status = r.status
         /\ WithTier(r, p).tier = {q \in r.tier : q.area # p.area} \cup {p}
<1>1. {q \in r.tier : q.area # p.area} \cup {p} \in SUBSET Path
  BY DEF Row
<1> QED
  BY <1>1 DEF Row, WithTier

\* What is served of a row after such an upsert is what was, and the new file.
LEMMA ServableUpdate ==
  ASSUME NEW r \in Row, NEW p \in Path
  PROVE  Servable(WithTier(r, p)) \subseteq Servable(r) \cup (Servable(WithTier(r, p)) \cap {p})
<1>1. WithTier(r, p).gen = r.gen
  BY DEF Row, WithTier
<1> QED
  BY <1>1, TierUpdate DEF Servable

\* The row of a purged asset, and the one of an asset just imported, are well
\* formed.
LEMMA FreshRows ==
  \A status \in {"purged", "live"} :
    [NoRow EXCEPT !.status = status] \in Row /\ [NoRow EXCEPT !.status = status].tier = {}
BY Zero DEF NoRow, Row

\* A handler that replaces one row, and adds paths to the intents, keeps the
\* catalog in its types.
LEMMA CatalogUpdate ==
  ASSUME Shape, NEW a \in Asset, NEW r \in Row,
         r.tier \subseteq IF InCatalog(r) THEN DerivativeOf(a) ELSE {},
         asset' = [asset EXCEPT ![a] = r]
  PROVE  RowsOK(asset')
<1>1. RowsOK(asset)
  BY DEF Shape, LibraryTypeOK, RowsOK
<1> QED
  BY <1>1, RowUpdate

\* No step of any actor leaves the types.
LEMMA ShapeStep == Shape /\ ImportOK /\ LibraryNext => Shape'
<1> SUFFICES ASSUME Shape, ImportOK, LibraryNext PROVE Shape'
  OBVIOUS
<1> USE LibraryAssumption DEF Shape, LibraryTypeOK, catalog, readers, backupRest
<1>1. ASSUME NEW a \in Asset, Delete(a) \/ Restore(a) PROVE Shape'
  <2>1. PICK status \in {"trashed", "live"}, at \in 0 .. MaxTime :
          asset' = [asset EXCEPT ![a] = [asset[a] EXCEPT !.status = status, !.deletedAt = at]]
    BY <1>1, Zero DEF Delete, Restore, SetStatus
  <2> DEFINE r == [asset[a] EXCEPT !.status = status, !.deletedAt = at]
  <2>2. asset[a] \in Row /\ InCatalog(asset[a]) /\ asset[a].tier \subseteq DerivativeOf(a)
    BY <1>1 DEF InCatalog, Delete, Restore
  <2>3. r \in Row /\ r.tier \subseteq IF InCatalog(r) THEN DerivativeOf(a) ELSE {}
    BY <2>2 DEF Row, InCatalog
  <2> HIDE DEF r
  <2>4. RowsOK(asset')
    BY <2>1, <2>3, CatalogUpdate DEF r
  <2> QED
    BY <1>1, <2>4 DEF RowsOK, Delete, Restore, SetStatus
<1>2. ASSUME NEW a \in Asset, Purge(a) \/ PurgeListed(a) PROVE Shape'
  <2>1. PICK sweep \in BOOLEAN : Retire(a, sweep)
    BY <1>2 DEF Purge, PurgeListed
  <2>2. asset' = [asset EXCEPT ![a] = [NoRow EXCEPT !.status = "purged"]]
    BY <1>2, <2>1 DEF Purge, PurgeListed, Expired, Retire
  <2>3. RowsOK(asset')
    BY <2>2, FreshRows, CatalogUpdate
  <2>4. intents' \subseteq Path
    BY <2>1, Paths DEF Retire, PathsOf
  <2>5. writer' \in [pc: {"recover"}, todo: {{}}, gone: {{}}, sweep: BOOLEAN]
    BY <2>1 DEF Retire, FreeWriter
  <2>6. /\ janitor' \in [list: SUBSET Asset, cutoff: 0 .. MaxTime]
        /\ UNCHANGED <<files, now, importer, backup, archive, verify>>
    <3>1. CASE Purge(a)
      BY <3>1 DEF Purge
    <3>2. CASE PurgeListed(a)
      BY <3>2 DEF PurgeListed
    <3> QED
      BY <1>2, <3>1, <3>2
  <2> QED
    BY <2>3, <2>4, <2>5, <2>6 DEF RowsOK
<1>3. ASSUME NEW a \in Asset, InsertAsset(a) PROVE Shape'
  <2>1. asset' = [asset EXCEPT ![a] = [NoRow EXCEPT !.status = "live"]]
    BY <1>3 DEF InsertAsset
  <2>2. RowsOK(asset')
    BY <2>1, FreshRows, CatalogUpdate
  <2> QED
    BY <1>3, <2>2, ZenonT(40) DEF RowsOK, InsertAsset
<1>4. ASSUME NEW a \in Asset, RecordThumb(a) PROVE Shape'
  <2> DEFINE r == WithTier(asset[a], Thumb(a, 0))
  <2>1. asset[a] \in Row /\ InCatalog(asset[a]) /\ asset[a].tier \subseteq DerivativeOf(a)
    BY <1>4 DEF InCatalog, ImportOK, RecordThumb
  <2>2. Thumb(a, 0) \in Path /\ Thumb(a, 0) \in DerivativeOf(a)
    BY Paths
  <2>3. r \in Row /\ r.status = asset[a].status
    BY <2>1, <2>2, TierUpdate
  <2>4. r.tier \subseteq asset[a].tier \cup {Thumb(a, 0)}
    BY <2>1, <2>2, TierUpdate
  <2>5. asset' = [asset EXCEPT ![a] = r]
    BY <1>4 DEF RecordThumb
  <2> HIDE DEF r
  <2>6. r.tier \subseteq IF InCatalog(r) THEN DerivativeOf(a) ELSE {}
    BY <2>1, <2>2, <2>3, <2>4 DEF InCatalog
  <2>7. RowsOK(asset')
    BY <2>3, <2>5, <2>6, CatalogUpdate
  <2> QED
    BY <1>4, <2>7 DEF RowsOK, RecordThumb
<1>5. ASSUME RestoreArchive PROVE Shape'
  <2>1. RowsOK(asset')
    BY <1>5 DEF RestoreArchive
  <2> QED
    BY <1>5, <2>1 DEF RowsOK, RestoreArchive, NoList
<1>6. ASSUME NEW p \in Path, RecoverLegacy(p) \/ RemoveFile(p) PROVE Shape'
  <2>1. files' \subseteq Path
    BY <1>6, Paths DEF RecoverLegacy, Recovered, RemoveFile, Path
  <2>2. CASE RecoverLegacy(p)
    BY <2>1, <2>2 DEF RowsOK, RecoverLegacy
  <2>3. CASE RemoveFile(p)
    BY <2>1, <2>3 DEF RowsOK, RemoveFile
  <2> QED
    BY <1>6, <2>2, <2>3
<1>7. ASSUME NEW a \in Asset, WriteOriginal(a) \/ WriteThumb(a) PROVE Shape'
  <2>1. files' \subseteq Path
    BY <1>7, Paths DEF WriteOriginal, WriteThumb
  <2>2. CASE WriteOriginal(a)
    BY <2>1, <2>2 DEF RowsOK, WriteOriginal
  <2>3. CASE WriteThumb(a)
    BY <2>1, <2>3 DEF RowsOK, WriteThumb
  <2> QED
    BY <1>7, <2>2, <2>3
<1>8. ASSUME ReadIntents PROVE Shape'
  <2>1. PICK oldest \in SUBSET intents :
          writer' = [writer EXCEPT !.pc = "drain", !.todo = oldest]
    BY <1>8 DEF ReadIntents
  <2> QED
    BY <1>8, <2>1 DEF RowsOK, ReadIntents
<1>9. CASE BeginReconcile
  BY <1>9 DEF RowsOK, BeginReconcile, FreeWriter
<1>10. CASE ForgetIntent
  BY <1>10 DEF RowsOK, ForgetIntent
<1>11. CASE DrainEnds
  BY <1>11 DEF RowsOK, DrainEnds, FreeWriter
<1>12. CASE WriterFails
  BY <1>12 DEF RowsOK, WriterFails, FreeWriter, NoList
<1>13. CASE ListExpired \/ JanitorDies \/ Tick
  BY <1>13 DEF RowsOK, ListExpired, JanitorDies, Tick, NoList
<1>14. ASSUME NEW a \in Asset, SkipListed(a) PROVE Shape'
  BY <1>14 DEF RowsOK, SkipListed
<1>15. CASE BeginImport
  BY <1>15 DEF RowsOK, BeginImport, NoImport
<1>16. CASE EndImport
  BY <1>16 DEF RowsOK, EndImport, NoImport
<1>17. CASE BeginBackup
  BY <1>17 DEF RowsOK, BackupPc, NoBackup, BeginBackup
<1>18. CASE Validate
  BY <1>18 DEF RowsOK, BackupPc, Validate, EnterDir, InArea
<1>19. CASE LeaveDir
  BY <1>19, ZenonT(40) DEF RowsOK, BackupPc, LeaveDir, EnterDir, InArea, NextDir
<1>20. ASSUME NEW p \in Path, CopyFile(p) PROVE Shape'
  BY <1>20 DEF RowsOK, CopyFile
<1>21. ASSUME Publish \/ BackupFails PROVE Shape'
  <2>1. RowsOK(NoBackup.asset) /\ backup' = NoBackup
    BY <1>21, NoRows DEF NoBackup, Publish, BackupFails
  <2>2. NoBackup \in [pc: BackupPc, asset: [Asset -> Row], intents: SUBSET Path,
                     todo: SUBSET Path, copied: SUBSET Path]
    BY <2>1 DEF NoBackup, BackupPc, RowsOK
  <2>3. CASE Publish
    BY <2>1, <2>2, <2>3 DEF RowsOK, Publish
  <2>4. CASE BackupFails
    BY <2>1, <2>2, <2>4 DEF RowsOK, BackupFails
  <2> QED
    BY <1>21, <2>3, <2>4
<1>22. CASE BeginVerify \/ EndVerify
  BY <1>22 DEF RowsOK, BeginVerify, EndVerify, NoVerify
<1>23. ASSUME NEW a \in Asset, CheckOne(a) PROVE Shape'
  BY <1>23 DEF RowsOK, CheckOne
<1> QED
  BY <1>1, <1>2, <1>3, <1>4, <1>5, <1>6, <1>7, <1>8, <1>9, <1>10, <1>11, <1>12, <1>13,
     <1>14, <1>15, <1>16, <1>17, <1>18, <1>19, <1>20, <1>21, <1>22, <1>23
     DEF LibraryNext, Trashing, Sweeping, Writing, Importing, BackingUp, Verifying

-----------------------------------------------------------------------------
(* The steps that change each variable, and what the common ones do.       *)

\* Each variable is changed only by the operations listed with it.
LEMMA WhoChanges ==
  ASSUME LibraryNext
  PROVE
  /\ asset' # asset =>
       \/ RestoreArchive
       \/ \E a \in Asset : \/ Delete(a) \/ Restore(a) \/ Purge(a) \/ PurgeListed(a)
                           \/ InsertAsset(a) \/ RecordThumb(a)
  /\ files' # files =>
       \/ RestoreArchive \/ \E p \in Path : RecoverLegacy(p) \/ RemoveFile(p)
       \/ \E a \in Asset : WriteOriginal(a) \/ WriteThumb(a)
  /\ intents' # intents =>
       \/ RestoreArchive \/ ForgetIntent
       \/ \E a \in Asset : Purge(a) \/ PurgeListed(a)
  /\ writer' # writer =>
       \/ \E a \in Asset : Purge(a) \/ PurgeListed(a)
       \/ BeginReconcile \/ Writing \/ WriterFails
  /\ <<janitor, now>>' # <<janitor, now>> =>
       \/ RestoreArchive \/ ListExpired \/ JanitorDies \/ WriterFails \/ Tick
       \/ \E a \in Asset : PurgeListed(a) \/ SkipListed(a)
  /\ importer' # importer => Importing
  /\ backup' # backup =>
       \/ BeginBackup \/ Validate \/ LeaveDir \/ Publish \/ BackupFails
       \/ \E p \in Path : CopyFile(p)
  /\ archive' # archive => Publish
  /\ verify' # verify => Verifying
<1> USE DEF LibraryNext, catalog, readers, backupRest
<1>1. CASE Trashing
  BY <1>1 DEF Trashing, Delete, Restore, Purge, SetStatus, Retire
<1>2. CASE Sweeping
  BY <1>2 DEF Sweeping, ListExpired, JanitorDies, PurgeListed, SkipListed, Retire
<1>3. CASE BeginReconcile
  BY <1>3 DEF BeginReconcile
<1>4. CASE Writing
  BY <1>4 DEF Writing, ReadIntents, ForgetIntent, DrainEnds, RecoverLegacy, RemoveFile
<1>5. CASE WriterFails
  BY <1>5 DEF WriterFails
<1>6. CASE Importing
  BY <1>6 DEF Importing, BeginImport, EndImport, WriteOriginal, InsertAsset, WriteThumb, RecordThumb
<1>7. CASE BackingUp
  BY <1>7 DEF BackingUp, BeginBackup, Validate, LeaveDir, Publish, BackupFails, RestoreArchive, CopyFile, EnterDir
<1>8. CASE Verifying
  BY <1>8 DEF Verifying, BeginVerify, EndVerify, CheckOne
<1>9. CASE Tick
  BY <1>9 DEF Tick
<1> QED
  BY <1>1, <1>2, <1>3, <1>4, <1>5, <1>6, <1>7, <1>8, <1>9

\* A backup's rows are those of its snapshot.
LEMMA WhoBacksUp ==
  ASSUME LibraryInv, LibraryNext
  PROVE  backup'.asset \in {backup.asset, asset, NoBackup.asset}
<1>1. CASE backup' = backup
  BY <1>1
<1>2. ASSUME BeginBackup \/ Publish \/ BackupFails
      PROVE  backup'.asset \in {asset, NoBackup.asset}
  BY <1>2 DEF BeginBackup, Publish, BackupFails, NoBackup
<1>3. ASSUME Validate \/ LeaveDir \/ \E p \in Path : CopyFile(p)
      PROVE  backup'.asset = backup.asset
  BY <1>3 DEF LibraryInv, Shape, LibraryTypeOK, Validate, LeaveDir, CopyFile, EnterDir
<1> QED
  BY <1>1, <1>2, <1>3, WhoChanges

\* The exclusive side of the lock means that nobody holds the shared side: no
\* import, backup or verification is in progress.
LEMMA Exclusive ==
  ASSUME LibraryInv, LockExclusive \/ writer.pc # "idle"
  PROVE  importer = NoImport /\ verify = NoVerify /\ backup.pc = "idle" /\ NoReader
BY DEF LibraryInv, LockOK, LockExclusive, NoReader, ImportOK, VerifyOK, Shape, LibraryTypeOK

\* Conversely, while an import, a backup or a verification is in progress
\* nobody holds the lock exclusively.
LEMMA Reading ==
  ASSUME LibraryInv,
         \/ importer.on \/ importer.written # {} \/ importer.jobs # {}
         \/ importer.rendered # {} \/ backup.pc # "idle" \/ verify.pc # "idle"
  PROVE  writer.pc = "idle"
BY DEF LibraryInv, LockOK, NoReader, ImportOK, NoImport

\* Taking either side of the lock excludes the other (lock.go).
LEMMA LockStep == LibraryInv /\ LibraryNext => LockOK'
<1> SUFFICES ASSUME LibraryInv, LibraryNext PROVE LockOK'
  OBVIOUS
<1> USE DEF LockOK
<1>1. LockOK /\ importer \in [on: BOOLEAN, written: SUBSET Asset, jobs: SUBSET Asset,
                   rendered: SUBSET Asset]
  BY DEF LibraryInv, Shape, LibraryTypeOK
<1>2. ASSUME NEW a \in Asset, Purge(a) \/ PurgeListed(a) PROVE LockOK'
  BY <1>2 DEF Purge, PurgeListed, LockExclusive, NoReader, readers
<1>3. ASSUME BeginReconcile \/ Writing \/ WriterFails PROVE LockOK'
  BY <1>1, <1>3 DEF BeginReconcile, Writing, WriterFails, ReadIntents, ForgetIntent,
     DrainEnds, RecoverLegacy, RemoveFile, LockExclusive, NoReader, readers
<1>4. ASSUME Importing PROVE LockOK'
  <2>1. writer.pc = "idle" /\ writer' = writer
    <3>1. CASE BeginImport
      BY <3>1 DEF BeginImport, LockShared
    <3>2. CASE ~BeginImport
      BY <1>4, <3>2, Reading DEF Importing, EndImport, WriteOriginal, InsertAsset, WriteThumb,
         RecordThumb
    <3> QED
      BY <3>1, <3>2
  <2> QED
    BY <2>1
<1>5. ASSUME Verifying PROVE LockOK'
  <2>1. writer.pc = "idle" /\ writer' = writer
    BY <1>5, Reading DEF Verifying, BeginVerify, CheckOne, EndVerify, LockShared
  <2> QED
    BY <2>1
<1>6. ASSUME BackingUp PROVE LockOK'
  <2>1. writer.pc = "idle" /\ writer' = writer
    BY <1>6, Reading DEF BackingUp, BeginBackup, Validate, LeaveDir, Publish, BackupFails,
       RestoreArchive, CopyFile, EnterDir, LockShared, backupRest
  <2> QED
    BY <2>1
<1>7. CASE UNCHANGED <<writer, importer, backup, verify>>
  BY <1>1, <1>7 DEF NoReader
<1> QED
  BY <1>2, <1>3, <1>4, <1>5, <1>6, <1>7, WhoChanges DEF BackingUp

\* The handlers that change a row that stays in the catalog.
RowAction(a) == Delete(a) \/ Restore(a) \/ InsertAsset(a) \/ RecordThumb(a)

\* A handler that changes a row under the shared side (delete, restore, insert,
\* record a thumbnail) touches that row only, never one that was purged, and
\* leaves a row of the catalog.
LEMMA RowChange ==
  ASSUME LibraryInv, NEW a \in Asset, RowAction(a)
  PROVE  /\ writer.pc = "idle"
         /\ asset[a].status # "purged" /\ InCatalog(asset'[a])
         /\ \A b \in Asset \ {a} : asset'[b] = asset[b]
         /\ UNCHANGED <<intents, files, writer>>
<1>1. asset \in [Asset -> Row] /\ ImportOK
  BY DEF LibraryInv, Shape, LibraryTypeOK
<1>2. CASE Delete(a) \/ Restore(a)
  BY <1>1, <1>2 DEF Delete, Restore, SetStatus, LockShared, Row, InCatalog
<1>3. CASE InsertAsset(a)
  <2>1. asset[a].status = "none" /\ writer.pc = "idle"
    BY <1>1, <1>3, Reading DEF InsertAsset, ImportOK
  <2>2. asset' = [asset EXCEPT ![a] = [NoRow EXCEPT !.status = "live"]]
    BY <1>3 DEF InsertAsset
  <2> QED
    BY <1>1, <1>3, <2>1, <2>2 DEF InsertAsset, NoRow, InCatalog
<1>4. CASE RecordThumb(a)
  <2>1. InCatalog(asset[a]) /\ writer.pc = "idle"
    BY <1>1, <1>4, Reading DEF RecordThumb, ImportOK
  <2>2. asset' = [asset EXCEPT ![a] = WithTier(asset[a], Thumb(a, 0))]
    BY <1>4 DEF RecordThumb
  <2>3. asset'[a].status = asset[a].status
    BY <1>1, <2>2, Paths, TierUpdate
  <2> QED
    BY <1>1, <1>4, <2>1, <2>2, <2>3 DEF RecordThumb, InCatalog
<1> QED
  BY <1>2, <1>3, <1>4 DEF RowAction

\* The handlers that purge a row.
PurgeAction(a) == Purge(a) \/ PurgeListed(a)

\* A purge retires one trashed row, in the same transaction as the intents for
\* its files, and removes no file yet.
LEMMA PurgeChange ==
  ASSUME LibraryInv, NEW a \in Asset, PurgeAction(a)
  PROVE  /\ LockExclusive
         /\ asset[a].status = "trashed" /\ asset'[a].status = "purged" /\ asset'[a].tier = {}
         /\ \A b \in Asset \ {a} : asset'[b] = asset[b]
         /\ intents' = intents \cup PathsOf(a)
         /\ writer'.pc = "recover" /\ writer'.todo = {}
         /\ UNCHANGED <<files, readers>>
<1>1. asset \in [Asset -> Row]
  BY DEF LibraryInv, Shape, LibraryTypeOK
<1>2. /\ LockExclusive /\ asset[a].status = "trashed"
      /\ UNCHANGED <<files, readers>>
      /\ \E sweep \in BOOLEAN : Retire(a, sweep)
  BY DEF PurgeAction, Purge, PurgeListed, Expired, readers
<1>3. PICK sweep \in BOOLEAN : Retire(a, sweep)
  BY <1>2
<1>4. asset' = [asset EXCEPT ![a] = [NoRow EXCEPT !.status = "purged"]]
  BY <1>2, <1>3 DEF Retire
<1>5. intents' = intents \cup PathsOf(a) /\ writer'.pc = "recover" /\ writer'.todo = {}
  BY <1>3 DEF Retire, FreeWriter
<1> QED
  BY <1>1, <1>2, <1>4, <1>5 DEF NoRow

\* Since the list was taken time only went on, so its cutoff stays far enough
\* in the past.
LEMMA SweepStep == LibraryInv /\ LibraryNext => SweepOK'
<1> SUFFICES ASSUME LibraryInv, LibraryNext PROVE SweepOK'
  OBVIOUS
<1> USE LibraryAssumption DEF SweepOK
<1>1. SweepOK /\ now \in Nat /\ janitor.cutoff \in Nat
         /\ janitor \in [list: SUBSET Asset, cutoff: 0 .. MaxTime]
  BY DEF LibraryInv, Shape, LibraryTypeOK
<1>2. ASSUME ListExpired PROVE SweepOK'
  BY <1>1, <1>2 DEF ListExpired
<1>3. ASSUME NEW a \in Asset, PurgeListed(a) \/ SkipListed(a) PROVE SweepOK'
  BY <1>1, <1>3 DEF PurgeListed, SkipListed
<1>4. ASSUME RestoreArchive \/ JanitorDies \/ WriterFails PROVE SweepOK'
  BY <1>1, <1>4 DEF RestoreArchive, JanitorDies, WriterFails, NoList
<1>5. ASSUME Tick PROVE SweepOK'
  BY <1>1, <1>5 DEF Tick, readers
<1>6. CASE UNCHANGED <<janitor, now>>
  BY <1>1, <1>6
<1> QED
  BY <1>2, <1>3, <1>4, <1>5, <1>6, WhoChanges

\* What the writer drains is named by purged rows only: rows do not come back
\* under the lock, and a new intent is written with its row's purge.
LEMMA WriterStep == LibraryInv /\ LibraryNext => WriterOK'
<1> SUFFICES ASSUME LibraryInv, LibraryNext PROVE WriterOK'
  OBVIOUS
<1> USE DEF WriterOK
<1>1. WriterOK /\ IntentsOK
  BY DEF LibraryInv
<1>10. writer \in [pc: {"idle", "recover", "drain", "forget", "rebuild"},
                 todo: SUBSET Path, gone: SUBSET Path, sweep: BOOLEAN]
  BY DEF LibraryInv, Shape, LibraryTypeOK
<1>2. ASSUME NEW a \in Asset, PurgeAction(a) PROVE WriterOK'
  BY <1>2, PurgeChange
<1>3. ASSUME BeginReconcile PROVE WriterOK'
  BY <1>3 DEF BeginReconcile, FreeWriter
<1>4. ASSUME NEW p \in Path, RecoverLegacy(p) PROVE WriterOK'
  BY <1>1, <1>10, <1>4 DEF RecoverLegacy
<1>5. ASSUME ReadIntents PROVE WriterOK'
  BY <1>1, <1>10, <1>5 DEF ReadIntents, catalog, IntentsOK, Dead
<1>6. ASSUME NEW p \in Path, RemoveFile(p) PROVE WriterOK'
  BY <1>1, <1>10, <1>6 DEF RemoveFile, catalog, Dead
<1>7. ASSUME ForgetIntent PROVE WriterOK'
  BY <1>1, <1>10, <1>7 DEF ForgetIntent, Dead
<1>8. ASSUME DrainEnds \/ WriterFails PROVE WriterOK'
  BY <1>8 DEF DrainEnds, WriterFails, FreeWriter
<1>9. CASE writer' = writer
  <2>1. CASE writer.pc = "idle"
    BY <1>9, <1>1, <2>1
  <2>2. CASE UNCHANGED <<asset, files>>
    BY <1>9, <1>1, <2>2 DEF Dead
  <2>3. ASSUME NEW a \in Asset, RowAction(a) PROVE WriterOK'
    BY <2>1, <2>3, RowChange
  <2>4. ASSUME NEW a \in Asset, WriteOriginal(a) \/ WriteThumb(a) PROVE WriterOK'
    <3>1. writer.pc = "idle"
      BY <2>4, Reading DEF WriteOriginal, WriteThumb
    <3> QED
      BY <2>1, <3>1
  <2>5. ASSUME RestoreArchive PROVE WriterOK'
    BY <2>1, <2>5 DEF RestoreArchive
  <2> QED
    BY <1>2, <1>4, <1>6, <2>2, <2>3, <2>4, <2>5, WhoChanges DEF RowAction, PurgeAction
<1> QED
  BY <1>2, <1>3, <1>4, <1>5, <1>6, <1>7, <1>8, <1>9, WhoChanges DEF Writing, PurgeAction

\* Every intent in the catalog is for a purged row, also in a restored one.
LEMMA IntentsStep == LibraryInv /\ LibraryNext => IntentsOK'
<1> SUFFICES ASSUME LibraryInv, LibraryNext PROVE IntentsOK'
  OBVIOUS
<1> USE DEF IntentsOK, Dead
<1>1. /\ IntentsOK /\ ImportOK /\ ArchiveOK /\ LibraryTypeOK
      /\ asset \in [Asset -> Row] /\ intents \subseteq Path
  BY DEF LibraryInv, Shape, LibraryTypeOK
<1>2. ASSUME NEW a \in Asset, RowAction(a) PROVE IntentsOK'
  BY <1>1, <1>2, RowChange DEF Path
<1>3. ASSUME NEW a \in Asset, PurgeAction(a) PROVE IntentsOK'
  <2>1. \A p \in PathsOf(a) : p.asset = a
    BY <1>1 DEF PathsOf, Original, Legacy, LibraryTypeOK, DerivativeOf
  <2> QED
    BY <1>1, <1>3, <2>1, PurgeChange DEF Path
<1>6. ASSUME RestoreArchive PROVE IntentsOK'
  BY <1>1, <1>6 DEF RestoreArchive, ArchiveOK
<1>7. ASSUME ForgetIntent PROVE IntentsOK'
  BY <1>1, <1>7 DEF ForgetIntent
<1>8. CASE UNCHANGED <<asset, intents>>
  BY <1>1, <1>8
<1> QED
  BY <1>2, <1>3, <1>6, <1>7, <1>8, WhoChanges DEF RowAction, PurgeAction

-----------------------------------------------------------------------------
(* Files and rows.                                                         *)

\* Short of restoring an archive, no step removes a derivative of a row that is
\* there, or the last original of it: the drain removes files of purged rows only, and
\* moving a legacy original puts it in its place.
LEMMA FilesKept ==
  ASSUME LibraryInv, LibraryNext, ~RestoreArchive
  PROVE  \A a \in Asset : InCatalog(asset[a]) =>
           /\ \A q \in files : q.asset = a /\ q.area \notin {"originals", "trash"} => q \in files'
           /\ {Original(a), Legacy(a)} \cap files # {} => {Original(a), Legacy(a)} \cap files' # {}
<1> SUFFICES ASSUME NEW a \in Asset, InCatalog(asset[a])
             PROVE  /\ \A q \in files : q.asset = a /\ q.area \notin {"originals", "trash"} => q \in files'
                    /\ {Original(a), Legacy(a)} \cap files # {} => {Original(a), Legacy(a)} \cap files' # {}
  OBVIOUS
<1>1. WriterOK
  BY DEF LibraryInv
<1>2. Original(a).asset = a /\ Legacy(a).asset = a
  BY DEF Original, Legacy
<1>3. ASSUME NEW p \in Path, RecoverLegacy(p)
      PROVE  /\ \A q \in files : q.asset = a /\ q.area \notin {"originals", "trash"} => q \in files'
             /\ {Original(a), Legacy(a)} \cap files # {} => {Original(a), Legacy(a)} \cap files' # {}
  <2>1. p.area = "trash"
    BY <1>1, <1>3 DEF RecoverLegacy, WriterOK
  <2>3. files' = files \/ files' = (files \ {p}) \cup {Original(p.asset)}
    BY <1>3 DEF RecoverLegacy, Recovered
  <2>4. p.asset = a \/ p \notin {Original(a), Legacy(a)}
    BY <1>2
  <2> QED
    BY <2>1, <2>3, <2>4
<1>4. ASSUME NEW p \in Path, RemoveFile(p)
      PROVE  /\ \A q \in files : q.asset = a /\ q.area \notin {"originals", "trash"} => q \in files'
             /\ {Original(a), Legacy(a)} \cap files # {} => {Original(a), Legacy(a)} \cap files' # {}
  <2>1. asset[p.asset].status = "purged" /\ files' = files \ {p}
    BY <1>1, <1>4 DEF RemoveFile, WriterOK, Dead
  <2>2. p.asset # a
    BY <2>1 DEF InCatalog
  <2> QED
    BY <1>2, <2>1, <2>2
<1>5. ASSUME NEW b \in Asset, WriteOriginal(b) \/ WriteThumb(b) PROVE files \subseteq files'
  BY <1>5 DEF WriteOriginal, WriteThumb
<1> QED
  BY <1>3, <1>4, <1>5, WhoChanges

\* The trash changes when and whether a row is shown, and nothing else of it.
LEMMA TrashMoves ==
  ASSUME RowsOK(asset), NEW a \in Asset, Delete(a) \/ Restore(a)
  PROVE  /\ InCatalog(asset[a]) /\ InCatalog(asset'[a])
         /\ asset'[a].tier = asset[a].tier /\ asset'[a].gen = asset[a].gen
<1>1. PICK status \in {"live", "trashed"}, time \in {now, 0} :
        asset' = [asset EXCEPT ![a] = [asset[a] EXCEPT !.status = status, !.deletedAt = time]]
  <2>1. CASE Delete(a)
    BY <2>1 DEF Delete, SetStatus
  <2>2. CASE Restore(a)
    BY <2>2 DEF Restore, SetStatus
  <2> QED
    BY <2>1, <2>2
<1>2. asset \in [Asset -> Row]
  BY DEF RowsOK
<1>3. asset'[a] = [asset[a] EXCEPT !.status = status, !.deletedAt = time]
  BY <1>1, <1>2
<1>4. asset[a] \in Row /\ asset[a].status \in {"live", "trashed"}
  BY <1>2 DEF Delete, Restore
<1> QED
  BY <1>3, <1>4 DEF Row, InCatalog

\* What is served of a row is there, after any step: rows gain a file only after
\* it was written, and lose files only when purged.
LEMMA RowServedStep == LibraryInv /\ LibraryNext => RowServed'
<1> SUFFICES ASSUME LibraryInv, LibraryNext PROVE RowServed'
  OBVIOUS
<1>1. RowServed /\ ImportOK /\ ArchiveServed /\ RowsOK(asset)
  BY DEF LibraryInv, Shape, LibraryTypeOK, RowsOK
<1>2. CASE RestoreArchive
  BY <1>1, <1>2 DEF RestoreArchive, RowServed, ArchiveServed, References, InCatalog
<1>3. CASE ~RestoreArchive
  <2> SUFFICES ASSUME NEW b \in Asset, InCatalog(asset'[b])
               PROVE  {Original(b), Legacy(b)} \cap files' # {} /\ Servable(asset'[b]) \subseteq files'
    BY DEF RowServed, InCatalog
  <2>1. ASSUME InCatalog(asset[b])
        PROVE  /\ {Original(b), Legacy(b)} \cap files' # {}
               /\ Servable(asset[b]) \subseteq files'
    <3>1. Servable(asset[b]) \subseteq files /\ Servable(asset[b]) \subseteq DerivativeOf(b)
      BY <1>1, <2>1 DEF RowServed, RowsOK, Servable
    <3>2. \A q \in DerivativeOf(b) : q.asset = b /\ q.area \notin {"originals", "trash"}
      BY DEF DerivativeOf
    <3> QED
      BY <1>1, <1>3, <2>1, <3>1, <3>2, FilesKept DEF RowServed
  <2>2. CASE asset'[b] = asset[b]
    BY <2>1, <2>2
  <2>3. ASSUME Delete(b) \/ Restore(b) PROVE Servable(asset'[b]) = Servable(asset[b]) /\ InCatalog(asset[b])
    BY <1>1, <2>3, TrashMoves DEF Servable
  <2>4. ASSUME InsertAsset(b) PROVE Servable(asset'[b]) = {} /\ Original(b) \in files
    BY <1>1, <2>4 DEF InsertAsset, ImportOK, NoRow, RowsOK, Servable
  <2>5. ASSUME RecordThumb(b)
        PROVE  /\ Servable(asset'[b]) \subseteq Servable(asset[b]) \cup {Thumb(b, 0)}
               /\ Thumb(b, 0) \in files /\ InCatalog(asset[b])
    <3>1. asset'[b] = WithTier(asset[b], Thumb(b, 0)) /\ Thumb(b, 0) \in files /\ InCatalog(asset[b])
      BY <1>1, <2>5 DEF RecordThumb, ImportOK, RowsOK
    <3>2. asset[b] \in Row /\ Thumb(b, 0) \in Path
      BY <1>1, Paths DEF RowsOK
    <3> QED
      BY <3>1, <3>2, ServableUpdate
  <2>6. ASSUME NEW a \in Asset, PurgeAction(a) PROVE asset'[b] = asset[b]
    BY <2>6, PurgeChange DEF InCatalog
  <2>7. ASSUME NEW a \in Asset, RowAction(a) PROVE files' = files /\ (a # b => asset'[b] = asset[b])
    BY <2>7, RowChange
  <2> QED
    BY <1>3, <2>1, <2>2, <2>3, <2>4, <2>5, <2>6, <2>7, WhoChanges DEF RowAction, PurgeAction
<1> QED
  BY <1>2, <1>3

\* An original of a purged row remains only as long as an intent does: the
\* intent goes when the files are gone, and nothing is written for such a row.
LEMMA PurgedStep == LibraryInv /\ LibraryNext => PurgedIsErased'
<1> SUFFICES ASSUME LibraryInv, LibraryNext PROVE PurgedIsErased'
  OBVIOUS
<1>1. /\ PurgedIsErased /\ ImportOK /\ ArchiveOK /\ WriterOK
      /\ asset \in [Asset -> Row] /\ files \subseteq Path
  BY DEF LibraryInv, Shape, LibraryTypeOK
<1>2. CASE RestoreArchive
  BY <1>1, <1>2 DEF RestoreArchive, PurgedIsErased, ArchiveOK, Erased
<1>3. ASSUME NEW a \in Asset, RowAction(a) PROVE PurgedIsErased'
  BY <1>1, <1>3, RowChange DEF PurgedIsErased, InCatalog
<1>4. ASSUME NEW a \in Asset, PurgeAction(a) PROVE PurgedIsErased'
  BY <1>1, <1>4, PurgeChange DEF PurgedIsErased, PathsOf
<1>5. ASSUME ForgetIntent PROVE PurgedIsErased'
  <2>1. \A a \in Asset : {Original(a), Legacy(a)} \cap files \cap writer.gone = {}
    BY <1>1, <1>5 DEF ForgetIntent, WriterOK, Original, Legacy
  <2> QED
    BY <1>1, <1>5, <2>1 DEF ForgetIntent, PurgedIsErased
<1>6. ASSUME NEW p \in Path, RecoverLegacy(p) PROVE PurgedIsErased'
  <2>1. /\ UNCHANGED <<asset, intents>>
        /\ \/ files' \subseteq files
           \/ InCatalog(asset[p.asset]) /\ files' \subseteq files \cup {Original(p.asset)}
    BY <1>6 DEF RecoverLegacy, Recovered, catalog
  <2> QED
    BY <1>1, <2>1 DEF PurgedIsErased, InCatalog, Original, Legacy
<1>7. ASSUME NEW p \in Path, RemoveFile(p) PROVE PurgedIsErased'
  BY <1>1, <1>7 DEF RemoveFile, PurgedIsErased, catalog
<1>8. ASSUME NEW a \in Asset, WriteOriginal(a) PROVE PurgedIsErased'
  BY <1>1, <1>8 DEF WriteOriginal, PurgedIsErased, catalog, Original, Legacy
<1>9. ASSUME NEW a \in Asset, WriteThumb(a) PROVE PurgedIsErased'
  BY <1>1, <1>9 DEF WriteThumb, PurgedIsErased, catalog, Original, Legacy, Thumb
<1>10. CASE UNCHANGED <<asset, files, intents>>
  BY <1>1, <1>10 DEF PurgedIsErased
<1> QED
  BY <1>2, <1>3, <1>4, <1>5, <1>6, <1>7, <1>8, <1>9, <1>10, WhoChanges DEF RowAction, PurgeAction

-----------------------------------------------------------------------------
(* Import, verification and archive.                                       *)

\* What an import has written or queued is still as it left it: the shared side
\* of the lock keeps purges away.
LEMMA ImportStep == LibraryInv /\ LibraryNext => ImportOK'
<1> SUFFICES ASSUME LibraryInv, LibraryNext PROVE ImportOK'
  OBVIOUS
<1>1. /\ ImportOK /\ asset \in [Asset -> Row]
      /\ importer \in [on: BOOLEAN, written: SUBSET Asset, jobs: SUBSET Asset,
                       rendered: SUBSET Asset]
  BY DEF LibraryInv, Shape, LibraryTypeOK
<1>2. ASSUME BeginImport \/ EndImport PROVE ImportOK'
  BY <1>2 DEF BeginImport, EndImport, ImportOK, NoImport
<1>3. ASSUME NEW a \in Asset, WriteOriginal(a) PROVE ImportOK'
  BY <1>1, <1>3 DEF WriteOriginal, ImportOK, catalog
<1>4. ASSUME NEW a \in Asset, WriteThumb(a) PROVE ImportOK'
  BY <1>1, <1>4 DEF WriteThumb, ImportOK, catalog, NoImport
<1>5. ASSUME NEW a \in Asset, InsertAsset(a) PROVE ImportOK'
  <2>1. InCatalog(asset'[a]) /\ \A b \in Asset \ {a} : asset'[b] = asset[b]
    BY <1>5, RowChange DEF RowAction
  <2>2. importer' = [importer EXCEPT !.written = {}, !.jobs = importer.jobs \cup {a}]
        /\ files' = files
    BY <1>5 DEF InsertAsset
  <2>3. importer.on
    BY <1>1, <1>5 DEF InsertAsset, ImportOK, NoImport
  <2> QED
    BY <1>1, <2>1, <2>2, <2>3 DEF ImportOK, InCatalog
<1>6. ASSUME NEW a \in Asset, RecordThumb(a) PROVE ImportOK'
  <2>1. InCatalog(asset'[a]) /\ \A b \in Asset \ {a} : asset'[b] = asset[b]
    BY <1>6, RowChange DEF RowAction
  <2>2. importer' = [importer EXCEPT !.rendered = importer.rendered \ {a}] /\ files' = files
    BY <1>6 DEF RecordThumb
  <2>3. importer.on /\ InCatalog(asset[a])
    BY <1>1, <1>6 DEF RecordThumb, ImportOK, NoImport
  <2> QED
    BY <1>1, <2>1, <2>2, <2>3 DEF ImportOK, InCatalog
<1>7. ASSUME NEW a \in Asset, Delete(a) \/ Restore(a) PROVE ImportOK'
  <2>1. InCatalog(asset'[a]) /\ \A b \in Asset \ {a} : asset'[b] = asset[b]
    BY <1>7, RowChange DEF RowAction
  <2>2. UNCHANGED <<importer, files>> /\ asset[a].status # "none"
    BY <1>7 DEF Delete, Restore, SetStatus, readers
  <2> QED
    BY <1>1, <2>1, <2>2 DEF ImportOK, InCatalog
<1>8. ASSUME LockExclusive \/ writer.pc # "idle", importer' = importer PROVE ImportOK'
  BY <1>8, Exclusive DEF ImportOK, NoImport
<1>9. ASSUME NEW a \in Asset, PurgeAction(a) PROVE ImportOK'
  BY <1>8, <1>9, PurgeChange DEF readers
<1>10. ASSUME NEW p \in Path, RecoverLegacy(p) \/ RemoveFile(p) PROVE ImportOK'
  BY <1>8, <1>10 DEF RecoverLegacy, RemoveFile, readers
<1>11. ASSUME RestoreArchive PROVE ImportOK'
  BY <1>8, <1>11 DEF RestoreArchive, LockExclusive, readers
<1>12. CASE UNCHANGED <<importer, asset, files>>
  BY <1>1, <1>12 DEF ImportOK
<1> QED
  BY <1>2, <1>3, <1>4, <1>5, <1>6, <1>7, <1>9, <1>10, <1>11, <1>12, WhoChanges
     DEF Importing, PurgeAction

\* While verification runs, an original it found missing stays missing.
LEMMA VerifyStep == LibraryInv /\ LibraryNext => VerifyOK' /\ NoFalseAlarm'
<1> SUFFICES ASSUME LibraryInv, LibraryNext PROVE VerifyOK' /\ NoFalseAlarm'
  OBVIOUS
<1> USE DEF VerifyOK, NoFalseAlarm
<1>1. /\ VerifyOK /\ NoFalseAlarm /\ asset \in [Asset -> Row]
      /\ verify \in [pc: {"idle", "run"}, todo: SUBSET Asset, missing: SUBSET Asset]
  BY DEF LibraryInv, Shape, LibraryTypeOK
<1>2. ASSUME BeginVerify \/ EndVerify PROVE VerifyOK' /\ NoFalseAlarm'
  BY <1>1, <1>2 DEF BeginVerify, EndVerify, NoVerify, catalog
<1>3. ASSUME NEW a \in Asset, CheckOne(a) PROVE VerifyOK' /\ NoFalseAlarm'
  BY <1>1, <1>3 DEF CheckOne, catalog
<1>4. ASSUME NEW a \in Asset, RowAction(a), verify' = verify PROVE VerifyOK' /\ NoFalseAlarm'
  BY <1>1, <1>4, RowChange DEF InCatalog
<1>5. ASSUME NEW a \in Asset, RowAction(a) PROVE verify' = verify
  BY <1>5 DEF RowAction, Delete, Restore, SetStatus, InsertAsset, RecordThumb, readers
<1>6. ASSUME LockExclusive \/ writer.pc # "idle", verify' = verify
      PROVE  VerifyOK' /\ NoFalseAlarm'
  BY <1>6, Exclusive DEF NoVerify
<1>7. ASSUME NEW a \in Asset, PurgeAction(a) PROVE VerifyOK' /\ NoFalseAlarm'
  BY <1>6, <1>7, PurgeChange DEF readers
<1>8. ASSUME NEW p \in Path, RecoverLegacy(p) \/ RemoveFile(p) PROVE VerifyOK' /\ NoFalseAlarm'
  BY <1>6, <1>8 DEF RecoverLegacy, RemoveFile, readers
<1>9. ASSUME RestoreArchive PROVE VerifyOK' /\ NoFalseAlarm'
  BY <1>6, <1>9 DEF RestoreArchive, LockExclusive, readers
<1>10. ASSUME NEW a \in Asset, WriteOriginal(a) PROVE VerifyOK' /\ NoFalseAlarm'
  BY <1>1, <1>10 DEF WriteOriginal, catalog, Original
<1>11. ASSUME NEW a \in Asset, WriteThumb(a) PROVE VerifyOK' /\ NoFalseAlarm'
  BY <1>1, <1>11 DEF WriteThumb, catalog, Original, Thumb
<1>12. CASE UNCHANGED <<verify, asset, files>>
  BY <1>1, <1>12
<1> QED
  BY <1>2, <1>3, <1>4, <1>5, <1>7, <1>8, <1>9, <1>10, <1>11, <1>12, WhoChanges
     DEF Verifying, PurgeAction, RowAction

\* An archive is published only when the walk is over, so what the backup holds
\* is then all copied.
LEMMA ArchiveStep == LibraryInv /\ LibraryNext => ArchiveOK' /\ ArchiveServed'
<1> SUFFICES ASSUME LibraryInv, LibraryNext PROVE ArchiveOK' /\ ArchiveServed'
  OBVIOUS
<1>1. ArchiveOK /\ ArchiveServed /\ BackupOK
  BY DEF LibraryInv
<1>2. CASE archive' = archive
  BY <1>1, <1>2 DEF ArchiveOK, ArchiveServed, Erased, Dead, References
<1>3. CASE Publish
  <2>1. Held = backup.copied /\ Held \subseteq files
    BY <1>1, <1>3 DEF BackupOK, Publish, Held, Ahead
  <2>2. /\ archive'.asset = backup.asset /\ archive'.intents = backup.intents
        /\ archive'.files = backup.copied
    BY <1>3 DEF Publish
  <2>3. ArchiveOK'
    BY <1>1, <1>3, <2>1, <2>2 DEF ArchiveOK, BackupOK, Erased, Dead, Publish
  <2>4. ArchiveServed'
    BY <1>1, <1>3, <2>1, <2>2 DEF ArchiveServed, BackupOK, References, Publish
  <2> QED
    BY <2>3, <2>4
<1> QED
  BY <1>2, <1>3, WhoChanges

-----------------------------------------------------------------------------
(* Backup.                                                                 *)

\* More files satisfy the same references.
LEMMA ReferencesMonotone ==
  ASSUME NEW rows, NEW found, NEW more, found \subseteq more, References(rows, found)
  PROVE  References(rows, more)
BY DEF References

\* While a backup runs, what it copied, is copying or has yet to reach covers
\* what its snapshot names, although rows are deleted, restored and imported
\* meanwhile: nothing is removed while it holds the shared side of the lock.
LEMMA BackupStep == LibraryInv /\ LibraryNext => BackupOK'
<1> SUFFICES ASSUME LibraryInv, LibraryNext PROVE BackupOK'
  OBVIOUS
<1>1. /\ BackupOK /\ IntentsOK /\ RowServed /\ PurgedIsErased
      /\ RowsOK(asset) /\ files \subseteq Path
      /\ backup \in [pc: BackupPc, asset: [Asset -> Row], intents: SUBSET Path,
                     todo: SUBSET Path, copied: SUBSET Path]
  BY DEF LibraryInv, Shape, LibraryTypeOK, RowsOK
<1>2. \A p \in files : p.area \in {"thumb", "variant", "originals", "trash"}
  BY <1>1 DEF Path, Area
<1>3. ASSUME BeginBackup PROVE BackupOK'
  <2>1. /\ backup'.pc = "validate" /\ backup'.asset = asset /\ backup'.intents = intents
        /\ backup'.todo = {} /\ backup'.copied = {} /\ UNCHANGED <<asset, files>>
    BY <1>3 DEF BeginBackup, NoBackup, backupRest
  <2>2. Held' = files
    BY <1>2, <2>1 DEF Held, Ahead
  <2>3. \A a \in Asset : Servable(asset[a]) \subseteq files
    BY <1>1 DEF RowsOK, RowServed, Servable
  <2> QED
    BY <1>1, <2>1, <2>2, <2>3 DEF BackupOK, IntentsOK, PurgedIsErased, Dead, Erased
<1>4. ASSUME Validate PROVE BackupOK'
  <2>1. /\ backup'.pc = "derivatives" /\ backup'.asset = backup.asset
        /\ backup'.intents = backup.intents /\ backup'.copied = backup.copied
        /\ backup'.todo = {p \in files : p.area \in {"thumb", "variant"}}
        /\ UNCHANGED <<asset, files>>
    BY <1>1, <1>4 DEF Validate, EnterDir, InArea, backupRest
  <2>2. backup.pc = "validate" /\ References(backup.asset, files)
    BY <1>4 DEF Validate
  <2>3. Held \subseteq files /\ backup.copied \subseteq files
    BY <1>1, <2>2 DEF BackupOK, Held
  <2>4. Held' = files
    BY <1>2, <2>1, <2>3 DEF Held, Ahead
  <2> QED
    BY <1>1, <2>1, <2>2, <2>3, <2>4 DEF BackupOK, Dead, Erased
<1>5. ASSUME BackupOK, backup.pc # "idle", backup'.pc # "idle",
             backup'.pc = "validate" => backup.pc = "validate",
             backup.pc = "validate" => backup'.pc = "validate",
             backup'.pc = "publish" => backup'.todo = {},
             backup'.asset = backup.asset, backup'.intents = backup.intents,
             \A a \in Asset : asset[a].status = "purged" => asset'[a].status = "purged",
             Held \subseteq Held', Held' \subseteq files',
             Erased(backup.asset, files', backup.intents)
      PROVE  BackupOK'
  <2>1. backup.pc # "validate" => References(backup.asset, Held')
    BY <1>5, ReferencesMonotone DEF BackupOK
  <2> QED
    BY <1>5, <2>1 DEF BackupOK, Dead, Erased
<1>6. ASSUME NEW p \in Path, CopyFile(p) PROVE BackupOK'
  <2>1. /\ backup.pc \in {"derivatives", "originals", "trash"} /\ backup'.pc = backup.pc
        /\ backup'.asset = backup.asset /\ backup'.intents = backup.intents
        /\ backup'.todo = backup.todo \ {p} /\ backup'.copied = backup.copied \cup {p}
        /\ p \in files /\ UNCHANGED <<asset, files>>
    BY <1>1, <1>6 DEF CopyFile, InArea, backupRest
  <2>2. Held \subseteq Held' /\ Held' \subseteq Held \cup {p}
    BY <2>1 DEF Held, Ahead
  <2>3. Held \subseteq files /\ Erased(backup.asset, files, backup.intents)
    BY <1>1, <2>1 DEF BackupOK
  <2> QED
    BY <1>1, <1>5, <2>1, <2>2, <2>3
<1>7. ASSUME LeaveDir PROVE BackupOK'
  <2>1. /\ backup.pc \in {"derivatives", "originals", "trash"} /\ backup.todo = {}
        /\ backup'.pc = NextDir[backup.pc] /\ backup'.todo = InArea(NextDir[backup.pc])
        /\ backup'.asset = backup.asset /\ backup'.intents = backup.intents
        /\ backup'.copied = backup.copied /\ UNCHANGED <<asset, files>>
    BY <1>1, <1>7 DEF LeaveDir, EnterDir, InArea, backupRest
  <2>2. /\ backup.pc = "derivatives" => backup'.pc = "originals"
        /\ backup.pc = "originals" => backup'.pc = "trash"
        /\ backup.pc = "trash" => backup'.pc = "publish"
    BY <2>1 DEF NextDir
  <2>3. /\ backup'.pc \notin {"idle", "validate", "derivatives"}
        /\ backup'.todo = {p \in files : p.area = backup'.pc}
    BY <2>1, <2>2 DEF InArea
  <2>4. backup'.pc = "publish" => backup'.todo = {}
    BY <1>2, <2>3
  <2>5. Held' = Held
    BY <2>1, <2>2, <2>3, <2>4 DEF Held, Ahead
  <2>6. Held \subseteq files /\ Erased(backup.asset, files, backup.intents)
    BY <1>1, <2>1 DEF BackupOK
  <2> QED
    BY <1>1, <1>5, <2>1, <2>3, <2>4, <2>5, <2>6
<1>8. ASSUME Publish \/ BackupFails PROVE BackupOK'
  BY <1>8 DEF Publish, BackupFails, NoBackup, BackupOK
<1>9. CASE backup' = backup /\ backup.pc = "idle"
  BY <1>9 DEF BackupOK
<1>10. CASE backup' = backup /\ backup.pc # "idle"
  <2>1. writer.pc = "idle" /\ ~NoReader
    BY <1>10, Reading DEF NoReader
  <2>2. ~RestoreArchive /\ \A a \in Asset : ~PurgeAction(a)
    BY <2>1, PurgeChange DEF RestoreArchive, LockExclusive
  <2>3. \A p \in Path : ~RecoverLegacy(p) /\ ~RemoveFile(p)
    BY <2>1 DEF RecoverLegacy, RemoveFile
  <2>4. \A a \in Asset : asset[a].status = "purged" => asset'[a].status = "purged"
    BY <2>2, RowChange, WhoChanges DEF RowAction, PurgeAction
  <2>5. files \subseteq files'
    BY <2>2, <2>3, WhoChanges DEF WriteOriginal, WriteThumb
  <2>6. Erased(backup.asset, files', backup.intents)
    <3>1. \A a \in Asset : backup.asset[a].status = "purged" => asset[a].status = "purged"
      BY <1>1, <1>10 DEF BackupOK
    <3>2. Erased(backup.asset, files, backup.intents)
      BY <1>1, <1>10 DEF BackupOK
    <3>3. ASSUME NEW a \in Asset, WriteOriginal(a) PROVE Erased(backup.asset, files', backup.intents)
      BY <3>1, <3>2, <3>3 DEF WriteOriginal, Erased, Original, Legacy
    <3>4. ASSUME NEW a \in Asset, WriteThumb(a) PROVE Erased(backup.asset, files', backup.intents)
      BY <3>2, <3>4 DEF WriteThumb, Erased, Original, Legacy, Thumb
    <3> QED
      BY <2>2, <2>3, <3>2, <3>3, <3>4, WhoChanges
  <2>7. Held \subseteq Held' /\ Held' \subseteq Held \cup files'
    BY <1>10, <2>5 DEF Held, Ahead
  <2>8. Held \subseteq files /\ (backup.pc = "publish" => backup.todo = {})
    BY <1>1, <1>10 DEF BackupOK
  <2>9. Held' \subseteq files'
    BY <2>5, <2>7, <2>8
  <2> QED
    BY <1>1, <1>5, <1>10, <2>4, <2>6, <2>7, <2>8, <2>9
<1> QED
  BY <1>3, <1>4, <1>6, <1>7, <1>8, <1>9, <1>10, WhoChanges

-----------------------------------------------------------------------------
(* The theorems.                                                           *)

\* A library as the older layout left it satisfies the invariant.
LEMMA InitInv == LibraryInit => LibraryInv
<1> SUFFICES ASSUME LibraryInit PROVE LibraryInv
  OBVIOUS
<1>1. PICK held \in SUBSET Asset, moved \in SUBSET Asset, trashed \in SUBSET Asset :
       /\ moved \subseteq held /\ trashed \subseteq held
       /\ asset = [a \in Asset |->
            [status |-> IF a \in trashed THEN "trashed"
                        ELSE IF a \in held THEN "live" ELSE "none",
             deletedAt |-> 0,
             tier |-> IF a \in held THEN {Thumb(a, 0)} ELSE {}, gen |-> 0]]
       /\ files = {Thumb(a, 0) : a \in held}
                    \cup {Original(a) : a \in held \ moved}
                    \cup {Legacy(a) : a \in moved}
  BY DEF LibraryInit
<1>2. /\ intents = {} /\ now = 0 /\ writer = FreeWriter /\ janitor = NoList
      /\ importer = NoImport /\ backup = NoBackup /\ archive = NoArchive /\ verify = NoVerify
  BY DEF LibraryInit
<1>3. /\ RowsOK(asset)
      /\ files \subseteq Path
      /\ \A a \in Asset : asset[a].status # "purged"
  <2>1. \A a \in Asset : asset[a] \in Row
    BY <1>1, Zero, Paths DEF Row
  <2>2. \A a \in Asset : asset[a].tier \subseteq IF InCatalog(asset[a]) THEN DerivativeOf(a) ELSE {}
    BY <1>1, Paths DEF InCatalog
  <2>3. files \subseteq Path
    BY <1>1, Paths
  <2> QED
    BY <1>1, <2>1, <2>2, <2>3 DEF RowsOK
<1>4. RowServed
  BY <1>1 DEF RowServed, InCatalog, Servable
<1>5. Shape
  BY <1>2, <1>3, Zero, NoRows DEF Shape, LibraryTypeOK, RowsOK, FreeWriter, NoList, NoImport,
     NoBackup, NoArchive, NoVerify, BackupPc
<1>6. LockOK /\ WriterOK /\ SweepOK /\ ImportOK /\ VerifyOK /\ NoFalseAlarm
  BY <1>2 DEF LockOK, NoReader, WriterOK, SweepOK, ImportOK, VerifyOK, NoFalseAlarm, FreeWriter,
     NoList, NoImport, NoBackup, NoVerify
<1>7. BackupOK /\ ArchiveOK /\ ArchiveServed
  BY <1>2 DEF BackupOK, ArchiveOK, ArchiveServed, NoBackup, NoArchive, Dead, Erased, NoRow
<1> QED
  BY <1>2, <1>3, <1>4, <1>5, <1>6, <1>7 DEF LibraryInv, PurgedIsErased, IntentsOK, Dead

\* Every step of every actor preserves the invariant.
LEMMA NextInv == LibraryInv /\ [LibraryNext]_vars => LibraryInv'
<1> SUFFICES ASSUME LibraryInv, [LibraryNext]_vars PROVE LibraryInv'
  OBVIOUS
<1>1. CASE LibraryNext
  <2>1. Shape /\ ImportOK
    BY DEF LibraryInv
  <2> QED
    BY <1>1, <2>1, ShapeStep, LockStep, SweepStep, WriterStep, IntentsStep, RowServedStep,
       PurgedStep, ImportStep, VerifyStep, ArchiveStep, BackupStep DEF LibraryInv
<1>2. CASE UNCHANGED vars
  BY <1>2 DEF vars, LibraryInv, Shape, LibraryTypeOK, RowsOK, RowServed, PurgedIsErased,
     IntentsOK, Dead, LockOK, NoReader, WriterOK, SweepOK, ImportOK, BackupOK, Held, Ahead,
     Erased, References, ArchiveOK, ArchiveServed, VerifyOK, NoFalseAlarm
<1> QED
  BY <1>1, <1>2

\* What a step of the library makes of a row: nothing of its tiers and generation,
\* a first thumbnail, or a row without derivatives.
LEMMA TierChange ==
  ASSUME LibraryInv, LibraryNext, ~RestoreArchive, NEW a \in Asset
  PROVE  /\ \/ asset'[a].tier \in {asset[a].tier, {}}
            \/ asset'[a].tier = {q \in asset[a].tier : q.area # "thumb"} \cup {Thumb(a, 0)}
         /\ asset'[a].tier = {} \/ asset'[a].gen = asset[a].gen
         /\ asset[a].status # "none" =>
              /\ asset'[a].status # "none"
              /\ InCatalog(asset'[a]) => InCatalog(asset[a]) /\ asset'[a].gen = asset[a].gen
<1>1. RowsOK(asset)
  BY DEF LibraryInv, Shape, LibraryTypeOK, RowsOK
<1>2. CASE asset'[a] = asset[a]
  BY <1>2
<1>3. CASE Delete(a) \/ Restore(a)
  <2>1. asset[a].status # "none" /\ asset'[a].status # "none"
    BY <1>1, <1>3, TrashMoves DEF InCatalog
  <2> QED
    BY <1>1, <1>3, <2>1, TrashMoves
<1>4. CASE InsertAsset(a)
  <2>1. asset'[a] = [NoRow EXCEPT !.status = "live"] /\ asset[a].status = "none"
    BY <1>1, <1>4 DEF InsertAsset, RowsOK, LibraryInv, ImportOK
  <2> QED
    BY <2>1 DEF NoRow
<1>5. CASE RecordThumb(a)
  <2>1. asset'[a] = WithTier(asset[a], Thumb(a, 0)) /\ asset[a] \in Row
    BY <1>1, <1>5 DEF RecordThumb, RowsOK
  <2>2. /\ asset'[a].status = asset[a].status /\ asset'[a].gen = asset[a].gen
        /\ asset'[a].tier = {q \in asset[a].tier : q.area # Thumb(a, 0).area} \cup {Thumb(a, 0)}
    BY <2>1 DEF WithTier, Row
  <2>3. Thumb(a, 0).area = "thumb"
    BY DEF Thumb
  <2> QED
    BY <2>2, <2>3 DEF InCatalog
<1>6. CASE PurgeAction(a)
  BY <1>6, PurgeChange DEF InCatalog
<1>7. ASSUME NEW b \in Asset \ {a}, RowAction(b) \/ PurgeAction(b) PROVE asset'[a] = asset[a]
  BY <1>7, RowChange, PurgeChange
<1> QED
  BY <1>2, <1>3, <1>4, <1>5, <1>6, <1>7, WhoChanges DEF RowAction, PurgeAction

\* The library by itself renders first thumbnails only.
LEMMA FirstThumbsStep ==
  LibraryInv /\ FirstThumbs /\ [LibraryNext]_vars => FirstThumbs'
<1> SUFFICES ASSUME LibraryInv, FirstThumbs, [LibraryNext]_vars PROVE FirstThumbs'
  OBVIOUS
<1>1. CASE LibraryNext
  <2>1. OnlyThumbs(asset')
    <3>1. CASE RestoreArchive
      BY <3>1 DEF RestoreArchive, FirstThumbs, OnlyThumbs
    <3>2. CASE ~RestoreArchive
      <4>1. \A a \in Asset : Thumb(a, 0).area = "thumb"
        BY DEF Thumb
      <4> QED
        BY <1>1, <3>2, <4>1, TierChange DEF FirstThumbs, OnlyThumbs
    <3> QED
      BY <3>1, <3>2
  <2>2. OnlyThumbs(NoBackup.asset)
    BY DEF NoBackup, NoRow, OnlyThumbs
  <2>3. backup'.asset \in {backup.asset, asset, NoBackup.asset}
    BY <1>1, WhoBacksUp
  <2>4. archive'.asset \in {archive.asset, backup.asset}
    BY <1>1, WhoChanges DEF Publish
  <2> QED
    BY <2>1, <2>2, <2>3, <2>4 DEF FirstThumbs, OnlyThumbs
<1>2. CASE UNCHANGED vars
  BY <1>2 DEF vars, FirstThumbs, OnlyThumbs
<1> QED
  BY <1>1, <1>2

\* The invariant holds of every reachable state, crashes and restores included.
THEOREM LibraryHolds == LibrarySpec => [](LibraryInv /\ FirstThumbs)
<1>1. LibraryInit => FirstThumbs
  BY DEF LibraryInit, FirstThumbs, OnlyThumbs, NoBackup, NoArchive, NoRow, Thumb
<1> QED
  BY <1>1, InitInv, NextInv, FirstThumbsStep, PTL DEF LibrarySpec

\* All that such a row names is served.
LEMMA AllServed ==
  ASSUME LibraryInv, FirstThumbs
  PROVE  RowHasFile /\ ArchiveComplete
<1>1. \A a \in Asset : Servable(asset[a]) = asset[a].tier /\ Servable(archive.asset[a]) = archive.asset[a].tier
  BY DEF FirstThumbs, OnlyThumbs, Servable
<1> QED
  BY <1>1 DEF LibraryInv, RowServed, ArchiveServed, RowHasFile, ArchiveComplete

\* The types of the library are kept by every handler, job and fault.
THEOREM LibraryTypeCorrect == LibrarySpec => []LibraryTypeOK
<1>1. LibraryInv => LibraryTypeOK
  BY DEF LibraryInv, Shape
<1> QED
  BY <1>1, LibraryHolds, PTL

\* A row of the catalog always has its original, in originals/ or still in the
\* legacy trash/, and every derivative it names (import, purge, drain, restore).
THEOREM RowsHaveFiles == LibrarySpec => []RowHasFile
<1>1. LibraryInv /\ FirstThumbs => RowHasFile
  BY AllServed
<1> QED
  BY <1>1, LibraryHolds, PTL

\* No original of a purged asset is left behind without an intent to remove it
\* (Retire writes the intents, drain forgets them only after the removal).
THEOREM PurgedAreErased == LibrarySpec => []PurgedIsErased
<1>1. LibraryInv => PurgedIsErased
  BY DEF LibraryInv
<1> QED
  BY <1>1, LibraryHolds, PTL

\* A published archive contains every file its own catalog snapshot names, so
\* it can be restored, whatever happened while it was taken.
THEOREM ArchivesAreComplete == LibrarySpec => []ArchiveComplete
<1>1. LibraryInv /\ FirstThumbs => ArchiveComplete
  BY AllServed
<1> QED
  BY <1>1, LibraryHolds, PTL

\* Verification never reports an original as missing that is there.
THEOREM NoFalseAlarms == LibrarySpec => []NoFalseAlarm
<1>1. LibraryInv => NoFalseAlarm
  BY DEF LibraryInv
<1> QED
  BY <1>1, LibraryHolds, PTL

\* A step of the sweep that purges a row is one that compared its age with the
\* cutoff under the lock.
LEMMA SweepStepSparesRecent ==
  ASSUME LibraryInv, LibraryNext, NEW a \in Asset, asset[a].status # "purged",
         asset'[a].status = "purged", writer'.sweep
  PROVE  asset[a].status = "trashed" /\ asset[a].deletedAt + Retention < now
<1>1. /\ WriterOK /\ SweepOK
      /\ asset \in [Asset -> Row] /\ janitor.cutoff \in 0 .. MaxTime /\ now \in 0 .. MaxTime
  BY DEF LibraryInv, Shape, LibraryTypeOK
<1>2. asset[a] \in Row
  BY <1>1
<1>3. asset[a].deletedAt \in Nat /\ janitor.cutoff \in Nat /\ now \in Nat
  BY <1>1, <1>2, LibraryAssumption DEF Row
<1>4. ~RestoreArchive
  BY <1>1 DEF RestoreArchive, WriterOK
<1>5. ASSUME NEW b \in Asset, RowAction(b) PROVE FALSE
  <2>1. InCatalog(asset'[b]) /\ \A c \in Asset \ {b} : asset'[c] = asset[c]
    BY <1>5, RowChange
  <2>2. CASE b = a
    BY <2>1, <2>2 DEF InCatalog
  <2>3. CASE b # a
    BY <2>1, <2>3
  <2> QED
    BY <2>2, <2>3
<1>6. ASSUME NEW b \in Asset, PurgeAction(b) PROVE b = a
  <2>1. \A c \in Asset \ {b} : asset'[c] = asset[c]
    BY <1>6, PurgeChange
  <2> QED
    BY <2>1
<1>7. ~Purge(a)
  BY DEF Purge, Retire, FreeWriter
<1>8. PurgeListed(a)
  BY <1>4, <1>5, <1>6, <1>7, WhoChanges DEF RowAction, PurgeAction
<1>9. asset[a].status = "trashed" /\ asset[a].deletedAt < janitor.cutoff /\ janitor.list # {}
  BY <1>8 DEF PurgeListed, Expired
<1> QED
  BY <1>1, <1>3, <1>9, LibraryAssumption DEF SweepOK

\* The expired sweep purges only what has been in the trash for longer than the
\* retention, although it lists without the lock and rows change in between.
THEOREM SweepsSpareRecent == LibrarySpec => SweepSparesRecent
<1>1. LibraryInv /\ [LibraryNext]_vars =>
        [\A a \in Asset :
           (asset[a].status # "purged" /\ asset'[a].status = "purged" /\ writer'.sweep)
             => asset[a].status = "trashed" /\ asset[a].deletedAt + Retention < now]_vars
  BY SweepStepSparesRecent
<1> QED
  BY <1>1, LibraryHolds, PTL DEF LibrarySpec, SweepSparesRecent

-----------------------------------------------------------------------------
(* Rebuilds and renders beside the library's own steps.                    *)

\* A rebuild or a render changes what rows name, never what becomes of them, and
\* touches derivatives only; it removes files only while it holds the lock.
Beside ==
  /\ RowsOK(asset') /\ files' \subseteq Path
  /\ \A a \in Asset : asset'[a].status = asset[a].status
  /\ \A p \in Path : p.area \in {"originals", "trash"} => (p \in files' <=> p \in files)
  /\ files \subseteq files' \/ writer.pc = "rebuild"
  /\ \/ writer' = writer
     \/ /\ NoReader
        /\ writer' \in {FreeWriter, [FreeWriter EXCEPT !.pc = "rebuild"]}
  /\ UNCHANGED libraryRest

\* Such a step keeps what the library rests on, if what is served is there.
LEMMA BesideStep ==
  ASSUME LibraryInv, Beside, RowServed'
  PROVE  LibraryInv'
<1> USE DEF libraryRest, readers
<1>1. /\ RowsOK(asset') /\ RowsOK(backup.asset) /\ RowsOK(archive.asset) /\ LibraryTypeOK
      /\ UNCHANGED <<intents, now, janitor, importer, backup, archive, verify>>
      /\ \A a \in Asset : asset'[a].status = asset[a].status
      /\ \A a \in Asset : InCatalog(asset'[a]) <=> InCatalog(asset[a])
  BY DEF LibraryInv, Shape, Beside, InCatalog
<1>2. \A a \in Asset : /\ Original(a) \in files' <=> Original(a) \in files
                       /\ Legacy(a) \in files' <=> Legacy(a) \in files
  <2>1. \A a \in Asset : Original(a).area = "originals" /\ Legacy(a).area = "trash"
    BY DEF Original, Legacy
  <2> QED
    BY <2>1, Paths DEF Beside
<1>3. Shape'
  <2>1. writer' \in [pc: {"idle", "recover", "drain", "forget", "rebuild"},
                     todo: SUBSET Path, gone: SUBSET Path, sweep: BOOLEAN]
    <3>1. CASE writer' = writer
      BY <1>1, <3>1 DEF LibraryTypeOK
    <3>2. CASE writer' = FreeWriter
      BY <3>2 DEF FreeWriter
    <3>3. CASE writer' = [FreeWriter EXCEPT !.pc = "rebuild"]
      BY <3>3 DEF FreeWriter
    <3> QED
      BY <3>1, <3>2, <3>3 DEF Beside
  <2>2. asset' \in [Asset -> Row] /\ files' \subseteq Path
        /\ \A a \in Asset : asset'[a].tier \subseteq
             IF InCatalog(asset'[a]) THEN DerivativeOf(a) ELSE {}
    BY <1>1 DEF Beside, RowsOK
  <2>3. LibraryTypeOK'
    BY <1>1, <2>1, <2>2 DEF LibraryTypeOK
  <2> QED
    BY <1>1, <2>3 DEF Shape, RowsOK
<1>4. PurgedIsErased' /\ IntentsOK' /\ SweepOK'
  <2>1. \A p \in intents : p.asset \in Asset
    BY <1>1 DEF LibraryTypeOK, Path
  <2>2. PurgedIsErased /\ IntentsOK /\ SweepOK
    BY DEF LibraryInv
  <2>3. PurgedIsErased'
    BY <1>1, <1>2, <2>2 DEF PurgedIsErased
  <2> QED
    BY <1>1, <2>1, <2>2, <2>3 DEF IntentsOK, Dead, SweepOK
<1>5. LockOK'
  BY <1>1 DEF LibraryInv, LockOK, NoReader, Beside
<1>6. WriterOK'
  <2>1. CASE writer' = writer
    <3>1. WriterOK /\ writer.todo \subseteq Path /\ writer.gone \subseteq Path
      BY <1>1 DEF LibraryInv, LibraryTypeOK
    <3>2. \A p \in writer.todo : p.asset \in Asset
      BY <3>1 DEF Path
    <3>3. \A p \in writer.gone \cap files' : p.area \in {"originals", "trash"} => p \in files
      BY <3>1 DEF Beside
    <3>4. \A p \in writer.todo : asset'[p.asset].status = asset[p.asset].status
      BY <1>1, <3>2
    <3> QED
      BY <2>1, <3>1, <3>3, <3>4 DEF WriterOK, Dead
  <2>2. CASE writer' \in {FreeWriter, [FreeWriter EXCEPT !.pc = "rebuild"]}
    BY <2>2 DEF WriterOK, FreeWriter
  <2> QED
    BY <2>1, <2>2 DEF Beside
<1>7. ImportOK'
  <2>1. ImportOK
    BY DEF LibraryInv
  <2>2. \A a \in importer.rendered : Thumb(a, 0) \in files'
    <3>1. importer.rendered # {} => writer.pc = "idle"
      BY Reading
    <3> QED
      BY <2>1, <3>1 DEF ImportOK, Beside
  <2>3. /\ importer.written \subseteq Asset
        /\ importer.jobs \cup importer.rendered \subseteq Asset
    BY <1>1 DEF LibraryTypeOK
  <2> QED
    BY <1>1, <1>2, <2>1, <2>2, <2>3 DEF ImportOK
<1>8. BackupOK'
  <2>1. CASE backup.pc = "idle"
    BY <1>1, <2>1 DEF BackupOK
  <2>2. CASE backup.pc # "idle"
    <3>1. BackupOK /\ files \subseteq files'
      BY <2>2, Reading DEF LibraryInv, Beside
    <3>2. Held \subseteq Held' /\ (Held \subseteq files => Held' \subseteq files')
      BY <1>1, <3>1 DEF Held, Ahead
    <3>3. Erased(backup.asset, files', backup.intents)
      BY <1>2, <2>2, <3>1 DEF BackupOK, Erased
    <3>4. backup.pc # "validate" => References(backup.asset, Held')
      BY <2>2, <3>1, <3>2, ReferencesMonotone DEF BackupOK
    <3> QED
      BY <1>1, <2>2, <3>1, <3>2, <3>3, <3>4 DEF BackupOK, Dead
  <2> QED
    BY <2>1, <2>2
<1>9. ArchiveOK' /\ ArchiveServed'
  BY <1>1 DEF LibraryInv, ArchiveOK, ArchiveServed, Erased, Dead, References
<1>10. VerifyOK' /\ NoFalseAlarm'
  <2>1. verify.todo \cup verify.missing \subseteq Asset
    BY <1>1 DEF LibraryTypeOK
  <2> QED
    BY <1>1, <1>2, <2>1 DEF LibraryInv, VerifyOK, NoFalseAlarm
<1> QED
  BY <1>3, <1>4, <1>5, <1>6, <1>7, <1>8, <1>9, <1>10 DEF LibraryInv

\* The paths of derivatives, and what tells them apart.
LEMMA DerivativePaths ==
  \A a \in Asset, g \in Generation :
    /\ Thumb(a, g) \in DerivativeOf(a) /\ Variant(a, g) \in DerivativeOf(a)
    /\ Thumb(a, g) \in Path /\ Variant(a, g) \in Path
    /\ Thumb(a, g).area = "thumb" /\ Variant(a, g).area = "variant"
    /\ Thumb(a, g).gen = g /\ Variant(a, g).gen = g
    /\ Thumb(a, g).asset = a /\ Variant(a, g).asset = a
BY DEF Thumb, Variant, DerivativeOf, Path, Area

\* A derivative of an asset is a thumbnail or a variant, told by area and generation.
LEMMA DerivativeFacts ==
  ASSUME NEW a \in Asset, NEW p \in DerivativeOf(a)
  PROVE  /\ p \in Path /\ p.asset = a /\ p.gen \in Generation
         /\ p.area = "thumb" \/ p.area = "variant"
         /\ p.area = "thumb" => p = Thumb(a, p.gen)
         /\ p.area = "variant" => p = Variant(a, p.gen)
BY DEF Thumb, Variant, DerivativeOf, Path, Area

\* One row is replaced by one of the same status.
LEMMA OneRow ==
  ASSUME LibraryInv, NEW a \in Asset, NEW r \in Row,
         InCatalog(asset[a]), r.status = asset[a].status, r.tier \subseteq DerivativeOf(a),
         asset' = [asset EXCEPT ![a] = r]
  PROVE  /\ RowsOK(asset')
         /\ asset'[a] = r /\ \A b \in Asset \ {a} : asset'[b] = asset[b]
         /\ \A b \in Asset : asset'[b].status = asset[b].status
<1>1. RowsOK(asset)
  BY DEF LibraryInv, Shape, LibraryTypeOK, RowsOK
<1>2. RowsOK(asset')
  BY <1>1, RowUpdate DEF InCatalog
<1> QED
  BY <1>1, <1>2 DEF RowsOK

\* Only what the new row serves has to be looked at.
LEMMA OneRowServed ==
  ASSUME LibraryInv, NEW a \in Asset, \A b \in Asset \ {a} : asset'[b] = asset[b],
         asset'[a].status = asset[a].status, files \subseteq files',
         InCatalog(asset[a]) => Servable(asset'[a]) \subseteq files'
  PROVE  RowServed'
<1>1. RowServed
  BY DEF LibraryInv
<1> SUFFICES ASSUME NEW b \in Asset, InCatalog(asset'[b])
             PROVE  {Original(b), Legacy(b)} \cap files' # {} /\ Servable(asset'[b]) \subseteq files'
  BY DEF RowServed
<1>2. InCatalog(asset[b])
  BY DEF InCatalog
<1> QED
  BY <1>1, <1>2 DEF RowServed

\* A rebuild in progress is one of one asset, under the lock.
LEMMA AtRebuild ==
  ASSUME DerivativesInv, rebuild.step # "none"
  PROVE  /\ writer.pc = "rebuild" /\ NoReader
         /\ \A a \in rebuild.of : /\ a \in Asset /\ rebuild.of = {a} /\ RebuildOf(a)
                                  /\ InCatalog(asset[a]) /\ asset[a] \in Row
                                  /\ asset[a].gen \in Nat /\ asset[a].gen \in Generation
         /\ \E a \in Asset : rebuild.of = {a} /\ RebuildOf(a)
<1>1. writer.pc = "rebuild" /\ \E a \in Asset : rebuild.of = {a} /\ RebuildOf(a)
  BY DEF DerivativesInv, RebuildOK
<1>2. asset \in [Asset -> Row] /\ NoReader
  BY <1>1 DEF DerivativesInv, LibraryInv, Shape, LibraryTypeOK, LockOK
<1>3. \A a \in Asset : asset[a].gen \in Generation
  BY <1>2 DEF Row
<1>4. Generation \subseteq Nat
  BY LibraryAssumption DEF Generation
<1> QED
  BY <1>1, <1>2, <1>3, <1>4 DEF RebuildOf, InCatalog

\* The parts that are about renders, and the rows of backups, stay when no row's
\* status changes, generations grow, and no variant goes that may be recorded.
LEMMA RendersStay ==
  ASSUME DerivativesInv, UNCHANGED <<asked, flight, copies>>,
         \A a \in Asset : asset'[a].status = asset[a].status,
         \A a \in Asset : asset'[a].gen = asset[a].gen \/ asset'[a].gen = asset[a].gen + 1,
         \A a \in Asset : InCatalog(asset[a]) =>
           (Variant(a, asset[a].gen) \in files => Variant(a, asset[a].gen) \in files')
  PROVE  RendersOK'
<1>1. RendersOK /\ DerivativeTypes /\ asset \in [Asset -> Row]
  BY DEF DerivativesInv, LibraryInv, Shape, LibraryTypeOK
<1>2. \A a \in Asset : asset[a].gen \in Nat /\ (InCatalog(asset'[a]) <=> InCatalog(asset[a]))
  BY <1>1, LibraryAssumption DEF Row, Generation, InCatalog
<1>3. ASSUME NEW a \in Asset, NEW g \in Generation, NotAhead(a, g)
      PROVE  /\ NotAhead(a, g)'
             /\ InCatalog(asset'[a]) /\ asset'[a].gen = g => asset[a].gen = g
  <2>1. g \in Nat
    BY LibraryAssumption DEF Generation
  <2>2. asset'[a].gen \in Nat /\ asset[a].gen <= asset'[a].gen
    BY <1>2
  <2> QED
    BY <1>2, <1>3, <2>1, <2>2 DEF NotAhead
<1>4. \A c \in copies : c.asset \in Asset /\ c.version \in Generation
  BY <1>1 DEF DerivativeTypes
<1>5. ASSUME NEW a \in Asset, NEW g \in Generation
      PROVE  /\ <<a, g>> \in asked' \/ flight'[<<a, g>>] # "none" => NotAhead(a, g)'
             /\ flight'[<<a, g>>] = "record" /\ InCatalog(asset'[a]) /\ asset'[a].gen = g =>
                  Variant(a, g) \in files'
  BY <1>1, <1>2, <1>3 DEF RendersOK
<1> QED
  BY <1>1, <1>3, <1>4, <1>5 DEF RendersOK

-----------------------------------------------------------------------------
(* The steps of a rebuild.                                                 *)

Rebuilt == DerivativeTypes' /\ Beside /\ RowServed' /\ Tiers' /\ RebuildOK' /\ RendersOK' /\ CommitRefreshes'

\* Nothing but the rebuild's progress and the lock.
LEMMA BeginRebuildStep ==
  ASSUME DerivativesInv, NEW a \in Asset, BeginRebuild(a)
  PROVE  Rebuilt
<1> USE DEF DerivativesInv
<1>1. /\ writer' = [FreeWriter EXCEPT !.pc = "rebuild"] /\ writer'.pc = "rebuild" /\ NoReader
      /\ rebuild' = [step |-> "write", of |-> {a}, previous |-> asset[a].tier]
      /\ asset[a].status = "live" /\ asset[a].gen < MaxGeneration
      /\ UNCHANGED <<asset, files, intents, now, janitor, readers, asked, flight, copies>>
  BY DEF BeginRebuild, FreeWriter, LockExclusive, libraryRest, renderVars
<1>2. RowsOK(asset) /\ files \subseteq Path /\ asset[a].tier \subseteq DerivativeOf(a)
      /\ asset[a].tier \subseteq Path
  BY <1>1 DEF LibraryInv, Shape, LibraryTypeOK, RowsOK, InCatalog, Row
<1>3. Beside
  BY <1>1, <1>2 DEF Beside, libraryRest
<1>4. RebuildOK'
  <2>1. \A p \in asset[a].tier : p.area = "variant" => p.gen <= asset[a].gen
    BY DEF Tiers, OnePerKind
  <2>2. RebuildOf(a)'
    BY <1>1, <1>2, <2>1 DEF RebuildOf
  <2> QED
    BY <1>1, <2>2 DEF RebuildOK
<1>5. RowServed' /\ Tiers' /\ RendersOK'
  BY <1>1 DEF LibraryInv, RowServed, Tiers, RendersOK, NotAhead, readers
<1>6. DerivativeTypes' /\ CommitRefreshes'
  BY <1>1, <1>2 DEF DerivativeTypes, CommitRefreshes
<1> QED
  BY <1>3, <1>4, <1>5, <1>6 DEF Rebuilt

\* The thumbnail of the next generation is written, or is skipped.
LEMMA RebuildWriteStep ==
  ASSUME DerivativesInv, NEW a \in Asset, RebuildWrite(a) \/ RebuildSkips(a)
  PROVE  Rebuilt
<1> USE DEF DerivativesInv
<1>1. /\ rebuild.step \in {"write", "record"} /\ a \in rebuild.of
      /\ files' = files \/ files' = files \cup {NewThumb(a)}
      /\ rebuild' = [rebuild EXCEPT !.step = "record"] => NewThumb(a) \in files'
      /\ rebuild' \in {[rebuild EXCEPT !.step = "record"], [rebuild EXCEPT !.step = "commit"]}
      /\ UNCHANGED <<asset, writer, intents, now, janitor, readers, asked, flight, copies>>
  BY DEF RebuildWrite, RebuildSkips, Step, libraryRest, renderVars, DerivativeTypes
<1>2. /\ RebuildOf(a) /\ rebuild.of = {a} /\ writer.pc = "rebuild"
      /\ asset[a].gen \in Nat /\ asset[a].gen < MaxGeneration
  BY <1>1, AtRebuild DEF RebuildOf
<1>3. NewThumb(a) \in Path /\ NewThumb(a).area = "thumb"
  <2>1. asset[a].gen + 1 \in Generation
    BY <1>2, LibraryAssumption DEF Generation
  <2> QED
    BY <2>1, DerivativePaths DEF NewThumb
<1>4. RowsOK(asset) /\ files \subseteq Path /\ DerivativeTypes
  BY DEF LibraryInv, Shape, LibraryTypeOK, RowsOK
<1>5. Beside
  BY <1>1, <1>3, <1>4 DEF Beside, libraryRest
<1>6. /\ rebuild'.step \in {"record", "commit"}
      /\ rebuild'.step = "record" => NewThumb(a) \in files'
      /\ rebuild'.of = rebuild.of /\ rebuild'.previous = rebuild.previous
      /\ DerivativeTypes'
  BY <1>1, <1>4 DEF DerivativeTypes
<1>7. RebuildOK'
  <2>1. RebuildOf(a)'
    BY <1>1, <1>2, <1>6 DEF RebuildOf, NewThumb
  <2> QED
    BY <1>1, <1>2, <1>6, <2>1 DEF RebuildOK
<1>8. RowServed'
  BY <1>1 DEF LibraryInv, RowServed
<1>9. Tiers' /\ CommitRefreshes'
  BY <1>1, <1>6 DEF Tiers, CommitRefreshes, readers
<1>10. RendersOK'
  BY <1>1, RendersStay
<1> QED
  BY <1>5, <1>6, <1>7, <1>8, <1>9, <1>10 DEF Rebuilt

\* The row names the new thumbnail, which is there.
LEMMA RebuildRecordStep ==
  ASSUME DerivativesInv, NEW a \in Asset, RebuildRecord(a)
  PROVE  Rebuilt
<1> USE DEF DerivativesInv
<1> DEFINE r == WithTier(asset[a], NewThumb(a))
<1>1. /\ rebuild.step = "record" /\ a \in rebuild.of
      /\ asset' = [asset EXCEPT ![a] = r]
      /\ rebuild' = [rebuild EXCEPT !.step = "commit"]
      /\ UNCHANGED <<files, writer, intents, now, janitor, readers, asked, flight, copies>>
  BY DEF RebuildRecord, Step, libraryRest, renderVars
<1>2. /\ RebuildOf(a) /\ rebuild.of = {a} /\ writer.pc = "rebuild" /\ InCatalog(asset[a])
      /\ asset[a] \in Row /\ asset[a].gen \in Nat /\ asset[a].gen < MaxGeneration
      /\ NewThumb(a) \in files
  BY <1>1, AtRebuild DEF RebuildOf
<1>3. /\ NewThumb(a) \in Path /\ NewThumb(a).area = "thumb" /\ NewThumb(a) \in DerivativeOf(a)
  <2>1. asset[a].gen + 1 \in Generation
    BY <1>2, LibraryAssumption DEF Generation
  <2> QED
    BY <2>1, DerivativePaths DEF NewThumb
<1>4. RowsOK(asset) /\ files \subseteq Path /\ DerivativeTypes
  BY DEF LibraryInv, Shape, LibraryTypeOK, RowsOK
<1>5. /\ r \in Row /\ r.status = asset[a].status /\ r.gen = asset[a].gen
      /\ r.tier = {q \in asset[a].tier : q.area # "thumb"} \cup {NewThumb(a)}
      /\ r.tier \subseteq DerivativeOf(a)
      /\ Servable(r) \subseteq Servable(asset[a]) \cup {NewThumb(a)}
  <2>1. r \in Row /\ r.status = asset[a].status
        /\ r.tier = {q \in asset[a].tier : q.area # "thumb"} \cup {NewThumb(a)}
    BY <1>2, <1>3, TierUpdate
  <2>2. r.gen = asset[a].gen
    BY <1>2 DEF WithTier, Row
  <2>3. asset[a].tier \subseteq DerivativeOf(a)
    BY <1>2, <1>4 DEF RowsOK
  <2>4. Servable(r) \subseteq Servable(asset[a]) \cup {NewThumb(a)}
    BY <1>2, <1>3, ServableUpdate
  <2> QED
    BY <1>3, <2>1, <2>2, <2>3, <2>4
<1> HIDE DEF r
<1>6. /\ RowsOK(asset') /\ asset'[a] = r /\ \A b \in Asset \ {a} : asset'[b] = asset[b]
      /\ \A b \in Asset : asset'[b].status = asset[b].status
  BY <1>1, <1>2, <1>5, OneRow
<1>7. Beside
  BY <1>1, <1>4, <1>6 DEF Beside, libraryRest
<1>8. rebuild'.step = "commit" /\ rebuild'.of = {a} /\ rebuild'.previous = rebuild.previous
      /\ DerivativeTypes'
  BY <1>1, <1>2, <1>4 DEF DerivativeTypes
<1>9. RebuildOK'
  <2>1. RebuildOf(a)'
    BY <1>1, <1>2, <1>5, <1>6, <1>8 DEF RebuildOf
  <2> QED
    BY <1>1, <1>2, <1>8, <2>1 DEF RebuildOK
<1>10. RowServed'
  <2>1. Servable(asset[a]) \subseteq files
    BY <1>2 DEF LibraryInv, RowServed
  <2> QED
    BY <1>1, <1>2, <1>5, <1>6, <2>1, OneRowServed
<1>11. Tiers'
  <2>1. OnePerKind(asset')
    BY <1>3, <1>5, <1>6 DEF Tiers, OnePerKind
  <2> QED
    BY <1>1, <2>1 DEF Tiers, readers
<1>12. RendersOK'
  <2>1. \A b \in Asset : asset'[b].gen = asset[b].gen
    BY <1>5, <1>6
  <2> QED
    BY <1>1, <1>6, <2>1, RendersStay
<1> QED
  BY <1>7, <1>8, <1>9, <1>10, <1>11, <1>12 DEF Rebuilt, CommitRefreshes

\* The generation advances: no variant is named any more, no client has a copy of
\* the new version, and no render of it has begun.
LEMMA RebuildCommitStep ==
  ASSUME DerivativesInv, NEW a \in Asset, RebuildCommit(a)
  PROVE  Rebuilt
<1> USE DEF DerivativesInv
<1> DEFINE r == NextGeneration(asset[a])
<1>1. /\ rebuild.step = "commit" /\ a \in rebuild.of
      /\ asset' = [asset EXCEPT ![a] = r]
      /\ rebuild' = [rebuild EXCEPT !.step = "list"]
      /\ UNCHANGED <<files, writer, intents, now, janitor, readers, asked, flight, copies>>
  BY DEF RebuildCommit, Step, libraryRest, renderVars
<1>2. /\ RebuildOf(a) /\ rebuild.of = {a} /\ writer.pc = "rebuild" /\ InCatalog(asset[a])
      /\ asset[a] \in Row /\ asset[a].gen \in Nat /\ asset[a].gen < MaxGeneration
  BY <1>1, AtRebuild DEF RebuildOf
<1>3. asset[a].gen + 1 \in Generation
  BY <1>2, LibraryAssumption DEF Generation
<1>4. RowsOK(asset) /\ files \subseteq Path /\ DerivativeTypes
  BY DEF LibraryInv, Shape, LibraryTypeOK, RowsOK
<1>5. /\ r \in Row /\ r.status = asset[a].status /\ r.gen = asset[a].gen + 1
      /\ r.tier = {p \in asset[a].tier : p.area = "thumb"}
  <2>1. asset[a].tier \subseteq DerivativeOf(a)
    BY <1>2, <1>4 DEF RowsOK
  <2>2. \A p \in asset[a].tier : p.area # "variant" => p.area = "thumb"
    BY <2>1, DerivativeFacts
  <2>3. \A p \in asset[a].tier : p.area = "variant" => ~(p.gen > asset[a].gen)
    <3>1. \A p \in asset[a].tier : p.gen \in Nat
      BY <2>1, DerivativeFacts, LibraryAssumption DEF Generation
    <3> QED
      BY <1>2, <3>1 DEF Tiers, OnePerKind
  <2>4. r.tier = {p \in asset[a].tier : p.area = "variant" => p.gen > asset[a].gen}
    BY <1>2 DEF NextGeneration, Row
  <2>5. r.status = asset[a].status /\ r.gen = asset[a].gen + 1
    BY <1>2 DEF NextGeneration, Row
  <2>6. r.tier = {p \in asset[a].tier : p.area = "thumb"}
    BY <2>2, <2>3, <2>4
  <2>7. r \in Row
    BY <1>2, <1>3 DEF NextGeneration, Row
  <2> QED
    BY <2>5, <2>6, <2>7
<1> HIDE DEF r
<1>6. /\ RowsOK(asset') /\ asset'[a] = r /\ \A b \in Asset \ {a} : asset'[b] = asset[b]
      /\ \A b \in Asset : asset'[b].status = asset[b].status
  <2>1. r.tier \subseteq DerivativeOf(a)
    BY <1>2, <1>4, <1>5 DEF RowsOK
  <2> QED
    BY <1>1, <1>2, <1>5, <2>1, OneRow
<1>7. Beside
  BY <1>1, <1>4, <1>6 DEF Beside, libraryRest
<1>8. rebuild'.step = "list" /\ rebuild'.of = {a} /\ rebuild'.previous = rebuild.previous
      /\ DerivativeTypes'
  BY <1>1, <1>2, <1>4 DEF DerivativeTypes
<1>9. RebuildOK'
  <2>1. \A p \in rebuild.previous : p.area = "variant" => p.gen < asset[a].gen + 1
    <3>1. \A p \in rebuild.previous : p.gen \in Nat
      BY <1>2, DerivativeFacts, LibraryAssumption DEF Generation, RebuildOf
    <3> QED
      BY <1>1, <1>2, <3>1 DEF RebuildOf
  <2>2. RebuildOf(a)'
    BY <1>1, <1>2, <1>5, <1>6, <1>8, <2>1 DEF RebuildOf
  <2> QED
    BY <1>1, <1>2, <1>8, <2>2 DEF RebuildOK
<1>10. RowServed'
  <2>1. Servable(asset[a]) \subseteq files
    BY <1>2 DEF LibraryInv, RowServed
  <2>2. Servable(r) \subseteq Servable(asset[a])
    BY <1>5 DEF Servable
  <2> QED
    BY <1>1, <1>5, <1>6, <2>1, <2>2, OneRowServed
<1>11. Tiers'
  <2>1. OnePerKind(asset')
    BY <1>5, <1>6 DEF Tiers, OnePerKind
  <2> QED
    BY <1>1, <2>1 DEF Tiers, readers
<1>12. RendersOK'
  <2>1. \A b \in Asset : asset'[b].gen = asset[b].gen \/ asset'[b].gen = asset[b].gen + 1
    BY <1>5, <1>6
  <2> QED
    BY <1>1, <1>6, <2>1, RendersStay
<1>13. CommitRefreshes'
  <2>1. \A c \in copies : c.asset = a => c.version # asset[a].gen + 1
    <3>1. \A c \in copies : c.asset = a => c.version <= asset[a].gen
      BY <1>2 DEF RendersOK, NotAhead
    <3>2. \A c \in copies : c.version \in Nat
      BY <1>4, LibraryAssumption DEF DerivativeTypes, Generation
    <3> QED
      BY <1>2, <3>1, <3>2
  <2> QED
    BY <1>1, <1>5, <1>6, <1>8, <2>1 DEF CommitRefreshes, StaleCopy
<1> QED
  BY <1>7, <1>8, <1>9, <1>10, <1>11, <1>12, <1>13 DEF Rebuilt

\* What the row still names is not removed.
LEMMA RebuildListStep ==
  ASSUME DerivativesInv, NEW a \in Asset, RebuildList(a)
  PROVE  Rebuilt
<1> USE DEF DerivativesInv
<1>1. /\ rebuild.step = "list" /\ a \in rebuild.of
      /\ rebuild' = [rebuild EXCEPT !.step = "clean", !.previous = rebuild.previous \ asset[a].tier]
      /\ UNCHANGED <<asset, files, writer, intents, now, janitor, readers, asked, flight, copies>>
  BY DEF RebuildList, libraryRest, renderVars
<1>2. RebuildOf(a) /\ rebuild.of = {a} /\ writer.pc = "rebuild"
  BY <1>1, AtRebuild
<1>3. RowsOK(asset) /\ files \subseteq Path /\ DerivativeTypes
  BY DEF LibraryInv, Shape, LibraryTypeOK, RowsOK
<1>4. Beside
  BY <1>1, <1>3 DEF Beside, libraryRest
<1>5. rebuild'.step = "clean" /\ rebuild'.of = {a}
      /\ rebuild'.previous = rebuild.previous \ asset[a].tier /\ DerivativeTypes'
  BY <1>1, <1>2, <1>3 DEF DerivativeTypes
<1>6. RebuildOK'
  <2>1. RebuildOf(a)'
    BY <1>1, <1>2, <1>5 DEF RebuildOf
  <2> QED
    BY <1>1, <1>2, <1>5, <2>1 DEF RebuildOK
<1>7. RowServed' /\ Tiers'
  BY <1>1 DEF LibraryInv, RowServed, Tiers, readers
<1>8. RendersOK'
  BY <1>1, RendersStay
<1>9. CommitRefreshes'
  BY <1>1, <1>2, <1>5 DEF CommitRefreshes, StaleCopy
<1> QED
  BY <1>4, <1>5, <1>6, <1>7, <1>8, <1>9 DEF Rebuilt

\* A file goes that no row serves: of another generation, or replaced.
LEMMA RebuildRemoveStep ==
  ASSUME DerivativesInv, NEW p \in Path, RebuildRemove(p)
  PROVE  Rebuilt
<1> USE DEF DerivativesInv
<1>1. /\ rebuild.step = "clean" /\ p \in rebuild.previous
      /\ files' = files \/ files' = files \ {p}
      /\ rebuild' = [rebuild EXCEPT !.previous = rebuild.previous \ {p}]
      /\ UNCHANGED <<asset, writer, intents, now, janitor, readers, asked, flight, copies>>
  BY DEF RebuildRemove, libraryRest, renderVars
<1>2. PICK a \in Asset : rebuild.of = {a} /\ RebuildOf(a)
  BY <1>1, AtRebuild
<1>3. writer.pc = "rebuild" /\ asset[a].gen \in Nat
  BY <1>1, <1>2, AtRebuild
<1>4. RowsOK(asset) /\ files \subseteq Path /\ DerivativeTypes
  BY DEF LibraryInv, Shape, LibraryTypeOK, RowsOK
<1>5. p \in DerivativeOf(a) /\ p.asset = a /\ p.area \in {"thumb", "variant"} /\ p.gen \in Nat
  BY <1>1, <1>2, DerivativeFacts, LibraryAssumption DEF RebuildOf, Generation
<1>6. Beside
  BY <1>1, <1>3, <1>4, <1>5 DEF Beside, libraryRest
<1>7. rebuild'.step = "clean" /\ rebuild'.of = {a}
      /\ rebuild'.previous \subseteq rebuild.previous /\ DerivativeTypes'
  BY <1>1, <1>2, <1>4 DEF DerivativeTypes
<1>8. RebuildOK'
  <2>1. RebuildOf(a)'
    BY <1>1, <1>2, <1>7 DEF RebuildOf
  <2> QED
    BY <1>1, <1>3, <1>7, <2>1 DEF RebuildOK
<1>9. \A b \in Asset : InCatalog(asset[b]) => p \notin Servable(asset[b])
  <2>1. p \notin Servable(asset[a])
    BY <1>1, <1>2, <1>3, <1>5 DEF RebuildOf, Servable
  <2>2. \A b \in Asset : InCatalog(asset[b]) => Servable(asset[b]) \subseteq DerivativeOf(b)
    BY <1>4 DEF RowsOK, Servable
  <2>3. \A b \in Asset : p \in DerivativeOf(b) => b = a
    BY <1>5, DerivativeFacts
  <2> QED
    BY <2>1, <2>2, <2>3
<1>10. RowServed'
  <2>1. \A b \in Asset : p \notin {Original(b), Legacy(b)}
    BY <1>5 DEF Original, Legacy
  <2> QED
    BY <1>1, <1>9, <2>1 DEF LibraryInv, RowServed
<1>11. RendersOK'
  <2>1. \A b \in Asset : p = Variant(b, asset[b].gen) => b = a /\ p.area = "variant" /\ p.gen = asset[a].gen
    BY <1>5 DEF Variant
  <2>2. p.area = "variant" => p.gen < asset[a].gen
    BY <1>1, <1>2 DEF RebuildOf
  <2>3. \A b \in Asset : p # Variant(b, asset[b].gen)
    BY <1>3, <1>5, <2>1, <2>2
  <2> QED
    BY <1>1, <2>3, RendersStay
<1>12. Tiers' /\ CommitRefreshes'
  BY <1>1, <1>2, <1>7 DEF Tiers, readers, CommitRefreshes, StaleCopy
<1> QED
  BY <1>6, <1>7, <1>8, <1>10, <1>11, <1>12 DEF Rebuilt

\* The rebuild ends, well or badly, and the lock is free.
LEMMA ReleaseStep ==
  ASSUME DerivativesInv, RebuildEnds \/ RebuildFails
  PROVE  Rebuilt
<1> USE DEF DerivativesInv
<1>1. /\ rebuild.step # "none" /\ writer' = FreeWriter /\ rebuild' = NoRebuild
      /\ UNCHANGED <<asset, files, intents, now, janitor, readers, asked, flight, copies>>
  BY DEF RebuildEnds, RebuildFails, Release, libraryRest, renderVars
<1>2. writer.pc = "rebuild" /\ NoReader
  BY <1>1, AtRebuild
<1>3. RowsOK(asset) /\ files \subseteq Path /\ DerivativeTypes
  BY DEF LibraryInv, Shape, LibraryTypeOK, RowsOK
<1>4. Beside
  BY <1>1, <1>2, <1>3 DEF Beside, libraryRest
<1>5. rebuild'.step = "none" /\ writer'.pc = "idle" /\ DerivativeTypes'
  BY <1>1, <1>3 DEF DerivativeTypes, NoRebuild, FreeWriter
<1>6. RowServed' /\ Tiers'
  BY <1>1 DEF LibraryInv, RowServed, Tiers, readers
<1>7. RendersOK'
  BY <1>1, RendersStay
<1> QED
  BY <1>4, <1>5, <1>6, <1>7 DEF Rebuilt, RebuildOK, CommitRefreshes

-----------------------------------------------------------------------------
(* The steps of a render.                                                  *)

\* A request reads the row, and a client keeps what it got.
LEMMA RequestStep ==
  ASSUME DerivativesInv, NEW a \in Asset, ServeThumb(a) \/ Ask(a)
  PROVE  Rebuilt
<1> USE DEF DerivativesInv
<1>1. /\ asset[a].status = "live"
      /\ UNCHANGED <<asset, files, writer, intents, now, janitor, readers, rebuild, flight>>
  BY DEF ServeThumb, Ask, rebuildRest, libraryRest
<1>2. RowsOK(asset) /\ files \subseteq Path /\ DerivativeTypes
  BY DEF LibraryInv, Shape, LibraryTypeOK, RowsOK
<1>3. asset[a].gen \in Generation /\ asset[a].gen \in Nat /\ InCatalog(asset[a])
  BY <1>1, <1>2, LibraryAssumption DEF RowsOK, Row, Generation, InCatalog
<1>4. NotAhead(a, asset[a].gen)
  BY <1>1, <1>3 DEF NotAhead
<1>5. Beside
  BY <1>1, <1>2 DEF Beside, libraryRest
<1>6. RebuildOK' /\ RowServed' /\ Tiers'
  BY <1>1 DEF LibraryInv, RowServed, Tiers, readers, RebuildOK, RebuildOf, NewThumb
<1>7. ASSUME Ask(a) PROVE DerivativeTypes' /\ RendersOK' /\ CommitRefreshes'
  <2>1. asked' = asked \cup {<<a, asset[a].gen>>} /\ copies' = copies
    BY <1>7 DEF Ask
  <2>2. \A b \in Asset, g \in Generation : <<b, g>> \in asked' => NotAhead(b, g)
    BY <1>4, <2>1 DEF RendersOK
  <2> QED
    BY <1>1, <1>2, <1>3, <2>1, <2>2
       DEF DerivativeTypes, RendersOK, NotAhead, CommitRefreshes, StaleCopy
<1>8. ASSUME ServeThumb(a) PROVE DerivativeTypes' /\ RendersOK' /\ CommitRefreshes'
  <2>1. PICK p \in asset[a].tier :
          /\ p.area = "thumb"
          /\ copies' = {[asset |-> a, version |-> asset[a].gen, content |-> p.gen]}
    BY <1>8 DEF ServeThumb, OfKind
  <2>2. asked' = asked
    BY <1>8 DEF ServeThumb
  <2>3. p = Thumb(a, p.gen) /\ p.gen \in Generation
    BY <1>2, <1>3, <2>1, DerivativeFacts DEF RowsOK
  <2>4. \A c \in copies' : c.asset = a /\ c.version = asset[a].gen /\ c.content = p.gen
    BY <2>1
  <2>5. DerivativeTypes'
    BY <1>1, <1>2, <1>3, <2>1, <2>2, <2>3 DEF DerivativeTypes
  <2>6. RendersOK'
    BY <1>1, <1>4, <2>2, <2>4 DEF RendersOK, NotAhead
  <2>7. CommitRefreshes'
    BY <1>1, <2>1, <2>3, <2>4 DEF CommitRefreshes, StaleCopy
  <2> QED
    BY <2>5, <2>6, <2>7
<1> QED
  BY <1>5, <1>6, <1>7, <1>8 DEF Rebuilt

\* A flight begins, ends, or writes its file.
LEMMA FlightStep ==
  ASSUME DerivativesInv, NEW a \in Asset, NEW g \in Generation,
         BeginFlight(a, g) \/ WriteVariant(a, g) \/ FlightFails(a, g)
  PROVE  Rebuilt
<1> USE DEF DerivativesInv
<1>1. /\ UNCHANGED <<asset, writer, intents, now, janitor, readers, rebuild, copies>>
      /\ asked' \subseteq asked
      /\ NotAhead(a, g)
  BY DEF BeginFlight, WriteVariant, FlightFails, rebuildRest, libraryRest, RendersOK
<1>2. RowsOK(asset) /\ files \subseteq Path /\ DerivativeTypes
  BY DEF LibraryInv, Shape, LibraryTypeOK, RowsOK
<1>3. Variant(a, g) \in Path /\ Variant(a, g).area = "variant"
  BY DerivativePaths
<1>4. /\ files' = files \/ files' = files \cup {Variant(a, g)}
      /\ \E to \in {"none", "write", "record"} :
           /\ flight' = [flight EXCEPT ![<<a, g>>] = to]
           /\ to = "record" => Variant(a, g) \in files'
  <2>1. CASE BeginFlight(a, g)
    BY <2>1, ZenonT(40) DEF BeginFlight
  <2>2. CASE WriteVariant(a, g)
    BY <2>2 DEF WriteVariant
  <2>3. CASE FlightFails(a, g)
    BY <2>3 DEF FlightFails
  <2> QED
    BY <2>1, <2>2, <2>3
<1>5. Beside
  BY <1>1, <1>2, <1>3, <1>4 DEF Beside, libraryRest
<1>6. RebuildOK' /\ RowServed' /\ Tiers' /\ CommitRefreshes'
  BY <1>1, <1>4 DEF LibraryInv, RowServed, Tiers, readers, RebuildOK, RebuildOf, NewThumb,
     CommitRefreshes, StaleCopy
<1>7. DerivativeTypes' /\ RendersOK'
  <2>1. PICK to \in {"none", "write", "record"} :
          /\ flight' = [flight EXCEPT ![<<a, g>>] = to]
          /\ to = "record" => Variant(a, g) \in files'
    BY <1>4
  <2>2. DerivativeTypes'
    BY <1>1, <1>2, <2>1 DEF DerivativeTypes
  <2>3. /\ flight'[<<a, g>>] = to
        /\ \A b \in Asset, h \in Generation :
             <<b, h>> # <<a, g>> => flight'[<<b, h>>] = flight[<<b, h>>]
    BY <1>2, <2>1 DEF DerivativeTypes
  <2>4. \A b \in Asset, h \in Generation : NotAhead(b, h)' = NotAhead(b, h)
    BY <1>1 DEF NotAhead
  <2>5. ASSUME NEW b \in Asset, NEW h \in Generation
        PROVE  /\ <<b, h>> \in asked' \/ flight'[<<b, h>>] # "none" => NotAhead(b, h)
               /\ flight'[<<b, h>>] = "record" /\ InCatalog(asset[b]) /\ asset[b].gen = h =>
                    Variant(b, h) \in files'
    <3>1. CASE <<b, h>> = <<a, g>>
      BY <1>1, <2>1, <2>3, <3>1
    <3>2. CASE <<b, h>> # <<a, g>>
      BY <1>1, <1>4, <2>3, <3>2 DEF RendersOK
    <3> QED
      BY <3>1, <3>2
  <2> QED
    BY <1>1, <2>2, <2>4, <2>5 DEF RendersOK, NotAhead
<1> QED
  BY <1>5, <1>6, <1>7 DEF Rebuilt

\* The row of a variant: its file is there if it is served, and thumbnails stay.
LEMMA RecordVariantStep ==
  ASSUME DerivativesInv, NEW a \in Asset, NEW g \in Generation, RecordVariant(a, g)
  PROVE  Rebuilt
<1> USE DEF DerivativesInv
<1> DEFINE r == WithTier(asset[a], Variant(a, g))
<1>1. /\ flight[<<a, g>>] = "record" /\ flight' = [flight EXCEPT ![<<a, g>>] = "none"]
      /\ asset' = asset \/ (InCatalog(asset[a]) /\ asset' = [asset EXCEPT ![a] = r])
      /\ UNCHANGED <<files, writer, intents, now, janitor, readers, rebuild, asked, copies>>
  BY DEF RecordVariant, rebuildRest, libraryRest
<1>2. RowsOK(asset) /\ files \subseteq Path /\ DerivativeTypes
  BY DEF LibraryInv, Shape, LibraryTypeOK, RowsOK
<1>3. /\ Variant(a, g) \in Path /\ Variant(a, g).area = "variant"
      /\ Variant(a, g) \in DerivativeOf(a) /\ Variant(a, g).gen = g
  BY DerivativePaths
<1>4. DerivativeTypes'
  BY <1>1, <1>2 DEF DerivativeTypes
<1>5. ASSUME NEW b \in Asset, NEW h \in Generation
      PROVE  flight'[<<b, h>>] \in {"none", flight[<<b, h>>]}
  BY <1>1, <1>2 DEF DerivativeTypes
<1>6. CASE asset' = asset
  <2>1. Beside
    BY <1>1, <1>2, <1>6 DEF Beside, libraryRest
  <2>2. RebuildOK' /\ RowServed' /\ Tiers' /\ CommitRefreshes'
    BY <1>1, <1>6 DEF LibraryInv, RowServed, Tiers, readers, RebuildOK, RebuildOf, NewThumb,
       CommitRefreshes, StaleCopy
  <2>3. RendersOK'
    BY <1>1, <1>5, <1>6 DEF RendersOK, NotAhead
  <2> QED
    BY <1>4, <2>1, <2>2, <2>3 DEF Rebuilt
<1>7. CASE InCatalog(asset[a]) /\ asset' = [asset EXCEPT ![a] = r]
  <2>1. asset[a] \in Row /\ asset[a].tier \subseteq DerivativeOf(a)
    BY <1>2, <1>7 DEF RowsOK
  <2>2. g <= asset[a].gen /\ (asset[a].gen = g => Variant(a, g) \in files)
    BY <1>1, <1>7 DEF RendersOK, NotAhead
  <2>3. /\ r \in Row /\ r.status = asset[a].status /\ r.gen = asset[a].gen
        /\ r.tier = {q \in asset[a].tier : q.area # "variant"} \cup {Variant(a, g)}
        /\ Servable(r) \subseteq Servable(asset[a]) \cup (Servable(r) \cap {Variant(a, g)})
    <3>1. r \in Row /\ r.status = asset[a].status
          /\ r.tier = {q \in asset[a].tier : q.area # "variant"} \cup {Variant(a, g)}
      BY <1>3, <2>1, TierUpdate
    <3>2. r.gen = asset[a].gen
      BY <2>1 DEF WithTier, Row
    <3>3. Servable(r) \subseteq Servable(asset[a]) \cup (Servable(r) \cap {Variant(a, g)})
      BY <1>3, <2>1, ServableUpdate
    <3> QED
      BY <3>1, <3>2, <3>3
  <2> HIDE DEF r
  <2>4. r.tier \subseteq DerivativeOf(a) /\ (Variant(a, g) \in Servable(r) => Variant(a, g) \in files)
    BY <1>3, <2>1, <2>2, <2>3 DEF Servable
  <2>5. /\ RowsOK(asset') /\ asset'[a] = r /\ \A b \in Asset \ {a} : asset'[b] = asset[b]
        /\ \A b \in Asset : asset'[b].status = asset[b].status
    BY <1>7, <2>3, <2>4, OneRow
  <2>6. Beside
    BY <1>1, <1>2, <2>5 DEF Beside, libraryRest
  <2>7. RowServed'
    <3>1. Servable(asset[a]) \subseteq files
      BY <1>7 DEF LibraryInv, RowServed
    <3> QED
      BY <1>1, <2>3, <2>4, <2>5, <3>1, OneRowServed
  <2>8. Tiers'
    <3>1. OnePerKind(asset')
      BY <1>3, <2>2, <2>3, <2>5 DEF Tiers, OnePerKind
    <3> QED
      BY <1>1, <3>1 DEF Tiers, readers
  <2>9. /\ \A b \in Asset : asset'[b].gen = asset[b].gen
        /\ \A b \in Asset : \A p \in Path :
             p.area = "thumb" => (p \in asset'[b].tier <=> p \in asset[b].tier)
    BY <1>3, <2>3, <2>5
  <2>10. RebuildOK'
    <3>1. ASSUME NEW b \in Asset, RebuildOf(b) PROVE RebuildOf(b)'
      <4>1. \A p \in rebuild.previous : p \in Path
        BY <3>1, DerivativeFacts DEF RebuildOf
      <4> QED
        BY <1>1, <2>5, <2>9, <3>1, <4>1 DEF RebuildOf, NewThumb
    <3> QED
      BY <1>1, <3>1 DEF RebuildOK
  <2>11. RendersOK'
    BY <1>1, <1>5, <2>5, <2>9 DEF RendersOK, NotAhead, InCatalog, DerivativeTypes
  <2>12. CommitRefreshes'
    <3>1. \A c \in copies, b \in Asset : Thumb(b, c.content) \in Path
                                         /\ Thumb(b, c.content).area = "thumb"
      BY <1>2, DerivativePaths DEF DerivativeTypes
    <3>2. rebuild.of \subseteq Asset
      BY <1>2 DEF DerivativeTypes
    <3> QED
      BY <1>1, <2>5, <2>9, <3>1, <3>2 DEF CommitRefreshes, StaleCopy
  <2> QED
    BY <1>4, <2>6, <2>7, <2>8, <2>10, <2>11, <2>12 DEF Rebuilt
<1> QED
  BY <1>1, <1>6, <1>7

-----------------------------------------------------------------------------
(* The library's steps, with rebuilds and renders beside them.             *)

\* While a rebuild holds the lock no step of the library changes a row or a file,
\* and only a rebuild takes the lock in this way.
LEMMA LockedOut ==
  ASSUME LibraryInv, LibraryNext
  PROVE  /\ writer.pc = "rebuild" => UNCHANGED <<asset, files, writer>>
         /\ writer.pc # "rebuild" => writer'.pc # "rebuild"
<1>1. \A a \in Asset : /\ RowAction(a) => writer.pc = "idle"
                       /\ PurgeAction(a) => writer.pc = "idle" /\ writer'.pc # "rebuild"
                       /\ WriteOriginal(a) \/ WriteThumb(a) => writer.pc = "idle"
  <2>1. ASSUME NEW a \in Asset, WriteOriginal(a) \/ WriteThumb(a) PROVE writer.pc = "idle"
    BY <2>1, Reading DEF WriteOriginal, WriteThumb
  <2> QED
    BY <2>1, RowChange, PurgeChange DEF LockExclusive
<1>2. RestoreArchive => writer.pc = "idle"
  BY DEF RestoreArchive
<1>3. \A p \in Path : RecoverLegacy(p) \/ RemoveFile(p) => writer.pc \in {"recover", "drain"}
  BY DEF RecoverLegacy, RemoveFile
<1>4. BeginReconcile \/ Writing \/ WriterFails => writer.pc # "rebuild" /\ writer'.pc # "rebuild"
  <2>1. writer \in [pc: {"idle", "recover", "drain", "forget", "rebuild"},
                    todo: SUBSET Path, gone: SUBSET Path, sweep: BOOLEAN]
    BY DEF LibraryInv, Shape, LibraryTypeOK
  <2>2. BeginReconcile => writer.pc = "idle" /\ writer'.pc = "recover"
    BY DEF BeginReconcile, LockExclusive, FreeWriter
  <2>3. WriterFails \/ DrainEnds => writer.pc # "rebuild" /\ writer'.pc = "idle"
    BY DEF WriterFails, DrainEnds, FreeWriter
  <2>4. ReadIntents \/ ForgetIntent => writer.pc # "rebuild" /\ writer'.pc = "drain"
    BY <2>1 DEF ReadIntents, ForgetIntent
  <2>5. \A p \in Path : RecoverLegacy(p) \/ RemoveFile(p) =>
          writer.pc # "rebuild" /\ writer'.pc \in {"recover", "forget"}
    BY <2>1 DEF RecoverLegacy, RemoveFile
  <2> QED
    BY <2>2, <2>3, <2>4, <2>5 DEF Writing
<1> QED
  BY <1>1, <1>2, <1>3, <1>4, WhoChanges DEF RowAction, PurgeAction

\* Rows of the library, of a backup and of the archive name one derivative of a
\* kind.
LEMMA TiersStep == LibraryInv /\ Tiers /\ LibraryNext => Tiers'
<1> SUFFICES ASSUME LibraryInv, Tiers, LibraryNext PROVE Tiers'
  OBVIOUS
<1>1. OnePerKind(asset')
  <2>1. CASE RestoreArchive
    BY <2>1 DEF RestoreArchive, Tiers, OnePerKind
  <2>2. CASE ~RestoreArchive
    <3> SUFFICES ASSUME NEW a \in Asset
                 PROVE  /\ \A p \in asset'[a].tier, q \in asset'[a].tier : p.area = q.area => p = q
                        /\ \A p \in asset'[a].tier : p.area = "variant" => p.gen <= asset'[a].gen
      BY DEF OnePerKind
    <3>1. Thumb(a, 0).area = "thumb"
      BY DEF Thumb
    <3> QED
      BY <2>2, <3>1, TierChange DEF Tiers, OnePerKind
  <2> QED
    BY <2>1, <2>2
<1>2. OnePerKind(NoBackup.asset)
  BY DEF NoBackup, NoRow, OnePerKind
<1>3. backup'.asset \in {backup.asset, asset, NoBackup.asset}
  BY WhoBacksUp
<1>4. archive'.asset \in {archive.asset, backup.asset}
  BY WhoChanges DEF Publish
<1>5. OnePerKind(backup'.asset)
  BY <1>2, <1>3 DEF Tiers
<1>6. OnePerKind(archive'.asset)
  BY <1>4 DEF Tiers
<1> QED
  BY <1>1, <1>5, <1>6 DEF Tiers, OnePerKind

\* A step of the library ends no render and no rebuild, short of a restore, and
\* leaves the files of a row alone.
LEMMA LibraryKeepsDerivatives ==
  ASSUME DerivativesInv, LibraryNext, IF RestoreArchive THEN Restarted ELSE UNCHANGED derivativeVars
  PROVE  DerivativesInv'
<1> USE DEF DerivativesInv
<1>1. LibraryInv' /\ Tiers'
  BY NextInv, TiersStep
<1>2. CASE RestoreArchive
  <2>1. /\ writer.pc = "idle" /\ UNCHANGED <<writer, rebuild>>
        /\ asked' = {} /\ copies' = {} /\ flight' = [k \in Asset \X Generation |-> "none"]
    BY <1>2 DEF RestoreArchive, Restarted
  <2>2. rebuild.step = "none"
    BY <2>1 DEF RebuildOK
  <2>3. DerivativeTypes' /\ RebuildOK' /\ CommitRefreshes'
    BY <2>1, <2>2 DEF DerivativeTypes, RebuildOK, CommitRefreshes
  <2>4. RendersOK'
    BY <2>1 DEF RendersOK
  <2> QED
    BY <1>1, <2>3, <2>4
<1>3. CASE ~RestoreArchive
  <2>1. UNCHANGED <<rebuild, asked, flight, copies>>
    BY <1>3 DEF derivativeVars
  <2>2. DerivativeTypes'
    BY <2>1 DEF DerivativeTypes
  <2>3. RebuildOK' /\ CommitRefreshes'
    <3>1. CASE writer.pc = "rebuild"
      BY <2>1, <3>1, LockedOut DEF RebuildOK, RebuildOf, NewThumb, CommitRefreshes, StaleCopy
    <3>2. CASE writer.pc # "rebuild"
      BY <2>1, <3>2, LockedOut DEF RebuildOK, CommitRefreshes
    <3> QED
      BY <3>1, <3>2
  <2>4. RendersOK'
    <3>1. ASSUME NEW a \in Asset, NEW g \in Generation, NotAhead(a, g)
          PROVE  /\ NotAhead(a, g)'
                 /\ InCatalog(asset'[a]) => InCatalog(asset[a]) /\ asset'[a].gen = asset[a].gen
      BY <1>3, <3>1, TierChange DEF NotAhead
    <3>2. ASSUME NEW a \in Asset, InCatalog(asset[a]), NEW g \in Generation, Variant(a, g) \in files
          PROVE  Variant(a, g) \in files'
      BY <1>3, <3>2, FilesKept DEF Variant
    <3>3. \A c \in copies : c.asset \in Asset /\ c.version \in Generation
      BY DEF DerivativeTypes
    <3>4. ASSUME NEW a \in Asset, NEW g \in Generation
          PROVE  /\ <<a, g>> \in asked' \/ flight'[<<a, g>>] # "none" => NotAhead(a, g)'
                 /\ flight'[<<a, g>>] = "record" /\ InCatalog(asset'[a]) /\ asset'[a].gen = g =>
                      Variant(a, g) \in files'
      BY <2>1, <3>1, <3>2 DEF RendersOK
    <3> QED
      BY <2>1, <3>1, <3>3, <3>4 DEF RendersOK
  <2> QED
    BY <1>1, <2>2, <2>3, <2>4
<1> QED
  BY <1>2, <1>3

\* Every rebuild and every render keeps its part.
LEMMA RebuiltStep == DerivativesInv /\ (Rebuilding \/ Rendering) => Rebuilt
<1> SUFFICES ASSUME DerivativesInv, Rebuilding \/ Rendering PROVE Rebuilt
  OBVIOUS
<1>1. CASE Rebuilding
  BY <1>1, BeginRebuildStep, RebuildWriteStep, RebuildRecordStep, RebuildCommitStep,
     RebuildListStep, RebuildRemoveStep, ReleaseStep DEF Rebuilding
<1>2. CASE Rendering
  BY <1>2, RequestStep, FlightStep, RecordVariantStep DEF Rendering
<1> QED
  BY <1>1, <1>2

\* Every step keeps the invariant.
LEMMA DerivativesNextInv == DerivativesInv /\ [DerivativesNext]_derivativesVars => DerivativesInv'
<1> SUFFICES ASSUME DerivativesInv, [DerivativesNext]_derivativesVars PROVE DerivativesInv'
  OBVIOUS
<1>1. CASE Rebuilding \/ Rendering
  <2>1. Rebuilt
    BY <1>1, RebuiltStep
  <2> QED
    BY <2>1, BesideStep DEF Rebuilt, DerivativesInv
<1>2. CASE LibraryNext /\ IF RestoreArchive THEN Restarted ELSE UNCHANGED derivativeVars
  BY <1>2, LibraryKeepsDerivatives
<1>3. CASE UNCHANGED derivativesVars
  <2>1. UNCHANGED vars /\ UNCHANGED derivativeVars
    BY <1>3 DEF derivativesVars
  <2>2. LibraryInv'
    BY <2>1, NextInv DEF DerivativesInv
  <2>3. UNCHANGED <<asset, files, writer, backup, archive, rebuild, asked, flight, copies>>
    BY <2>1 DEF vars, derivativeVars
  <2>4. Tiers' /\ DerivativeTypes' /\ CommitRefreshes'
    BY <2>3 DEF DerivativesInv, Tiers, OnePerKind, DerivativeTypes, CommitRefreshes, StaleCopy
  <2>5. RebuildOK' /\ RendersOK'
    BY <2>3 DEF DerivativesInv, RebuildOK, RebuildOf, NewThumb, RendersOK, NotAhead
  <2> QED
    BY <2>2, <2>4, <2>5 DEF DerivativesInv
<1> QED
  BY <1>1, <1>2, <1>3 DEF DerivativesNext

\* It holds at first: nothing is rebuilt, asked for or cached.
LEMMA DerivativesInitInv == DerivativesInit => DerivativesInv
<1> SUFFICES ASSUME DerivativesInit PROVE DerivativesInv
  OBVIOUS
<1>1. /\ LibraryInit /\ rebuild = NoRebuild /\ asked = {} /\ copies = {}
      /\ flight = [k \in Asset \X Generation |-> "none"]
  BY DEF DerivativesInit
<1>2. LibraryInv
  BY <1>1, InitInv
<1>3. Tiers
  <2>1. \A a \in Asset : \A p \in asset[a].tier : p = Thumb(a, 0)
    BY <1>1 DEF LibraryInit
  <2>2. backup = NoBackup /\ archive = NoArchive
    BY <1>1 DEF LibraryInit
  <2>3. OnePerKind(asset)
    BY <2>1 DEF OnePerKind, Thumb
  <2> QED
    BY <2>2, <2>3 DEF Tiers, OnePerKind, NoBackup, NoArchive, NoRow
<1>4. DerivativeTypes
  BY <1>1 DEF DerivativeTypes, NoRebuild
<1>5. RebuildOK
  BY <1>1 DEF RebuildOK, NoRebuild, LibraryInit, FreeWriter
<1>6. RendersOK /\ CommitRefreshes
  BY <1>1 DEF RendersOK, CommitRefreshes, NoRebuild
<1> QED
  BY <1>2, <1>3, <1>4, <1>5, <1>6 DEF DerivativesInv

\* The invariant holds of every reachable state, late renders and restores included.
LEMMA DerivativesHold == DerivativesSpec => []DerivativesInv
BY DerivativesInitInv, DerivativesNextInv, PTL DEF DerivativesSpec

\* Whatever is imported, purged, restored, rebuilt and rendered: a row names one
\* derivative of a kind, and rebuilds, renders and copies keep their types.
THEOREM DerivativesTypeCorrect == DerivativesSpec => []DerivativesTypeOK
<1>1. DerivativesInv => DerivativesTypeOK
  <2> SUFFICES ASSUME DerivativesInv PROVE DerivativesTypeOK
    OBVIOUS
  <2>1. ASSUME NEW a \in Asset, NEW kind \in Area PROVE Cardinality(OfKind(a, kind)) <= 1
    <3>1. \A p \in OfKind(a, kind), q \in OfKind(a, kind) : p = q
      BY DEF DerivativesInv, Tiers, OnePerKind, OfKind
    <3>2. CASE OfKind(a, kind) = {}
      BY <3>2, FS_EmptySet
    <3>3. ASSUME NEW p \in OfKind(a, kind) PROVE Cardinality(OfKind(a, kind)) = 1
      <4>1. OfKind(a, kind) = {p}
        BY <3>1, <3>3
      <4> QED
        BY <4>1, FS_Singleton
    <3> QED
      BY <3>2, <3>3
  <2> QED
    BY <2>1 DEF DerivativesInv, DerivativesTypeOK, DerivativeTypes, LibraryInv, Shape
<1> QED
  BY <1>1, DerivativesHold, PTL

\* What the thumbnail service serves of a live row is on disk, and a rebuild that
\* has committed leaves no stale copy under the new URL, whatever fails, dies or
\* ends late.
THEOREM ServedAreRight == DerivativesSpec => []ServedIsRight
<1>1. DerivativesInv => ServedIsRight
  BY DEF DerivativesInv, LibraryInv, RowServed, InCatalog, ServedIsRight, ServableHasFile
<1> QED
  BY <1>1, DerivativesHold, PTL

\* A variant gives way to its own or a later generation only: an import records
\* thumbnails, a rebuild drops variants, and upsertVariant compares.
LEMMA VariantsGrow ==
  ASSUME DerivativesInv, DerivativesNext, ~RestoreArchive, NEW a \in Asset,
         NEW p \in OfKind(a, "variant"), NEW q \in OfKind(a, "variant")'
  PROVE  q.gen >= p.gen
<1> USE DEF DerivativesInv
<1>1. asset \in [Asset -> Row] /\ RowsOK(asset) /\ DerivativeTypes
  BY DEF LibraryInv, Shape, LibraryTypeOK, RowsOK
<1>2. p \in asset[a].tier /\ q \in asset'[a].tier /\ p.area = "variant" /\ q.area = "variant"
  BY DEF OfKind
<1>3. p.gen \in Nat
  <2>1. p \in Path
    BY <1>1, <1>2 DEF Row
  <2> QED
    BY <2>1, LibraryAssumption DEF Path, Generation
<1>4. CASE q \in asset[a].tier
  <2>1. p = q
    BY <1>2, <1>4 DEF Tiers, OnePerKind
  <2> QED
    BY <1>3, <2>1
<1>5. ASSUME LibraryNext PROVE q \in asset[a].tier
  <2>1. Thumb(a, 0).area = "thumb"
    BY DEF Thumb
  <2> QED
    BY <1>2, <1>5, <2>1, TierChange
<1>6. ASSUME NEW b \in Asset, RebuildRecord(b) \/ RebuildCommit(b) PROVE q \in asset[a].tier
  <2>1. CASE b # a
    BY <1>1, <1>2, <1>6, <2>1 DEF RebuildRecord, RebuildCommit
  <2>2. CASE b = a /\ RebuildCommit(a)
    <3>1. asset'[a] = NextGeneration(asset[a]) /\ asset[a] \in Row
      BY <1>1, <2>2 DEF RebuildCommit
    <3> QED
      BY <1>2, <3>1 DEF NextGeneration, Row
  <2>3. CASE b = a /\ RebuildRecord(a)
    <3>1. asset'[a] = WithTier(asset[a], NewThumb(a)) /\ asset[a] \in Row
      BY <1>1, <2>3 DEF RebuildRecord
    <3>2. asset'[a].tier = {x \in asset[a].tier : x.area # NewThumb(a).area} \cup {NewThumb(a)}
      BY <3>1 DEF WithTier, Row
    <3>3. NewThumb(a).area = "thumb"
      BY DEF NewThumb, Thumb
    <3> QED
      BY <1>2, <3>2, <3>3
  <2> QED
    BY <1>6, <2>1, <2>2, <2>3
<1>7. ASSUME NEW b \in Asset, NEW g \in Generation, RecordVariant(b, g) PROVE q.gen >= p.gen
  <2>1. CASE asset' = asset \/ b # a
    <3>1. q \in asset[a].tier
      BY <1>1, <1>2, <1>7, <2>1 DEF RecordVariant
    <3> QED
      BY <1>4, <3>1
  <2>2. CASE asset' # asset /\ b = a
    <3>1. asset'[a] = WithTier(asset[a], Variant(a, g)) /\ Newer(a, g) /\ asset[a] \in Row
      BY <1>1, <1>7, <2>2 DEF RecordVariant
    <3>2. asset'[a].tier = {x \in asset[a].tier : x.area # Variant(a, g).area} \cup {Variant(a, g)}
      BY <3>1 DEF WithTier, Row
    <3>3. Variant(a, g).area = "variant" /\ Variant(a, g).gen = g
      BY DEF Variant
    <3>4. q = Variant(a, g)
      BY <1>2, <3>2, <3>3
    <3>5. g >= p.gen
      BY <3>1 DEF Newer
    <3> QED
      BY <3>3, <3>4, <3>5
  <2> QED
    BY <2>1, <2>2
<1>8. ASSUME Rebuilding,
             ~\E b \in Asset : RebuildRecord(b) \/ RebuildCommit(b)
      PROVE  asset' = asset
  BY <1>8 DEF Rebuilding, RebuildEnds, RebuildFails, RebuildRemove, BeginRebuild, RebuildWrite,
     RebuildSkips, RebuildList
<1>9. ASSUME Rendering,
             ~\E b \in Asset, g \in Generation : RecordVariant(b, g)
      PROVE  asset' = asset
  BY <1>9 DEF Rendering, ServeThumb, Ask, BeginFlight, WriteVariant, FlightFails
<1> QED
  BY <1>2, <1>4, <1>5, <1>6, <1>7, <1>8, <1>9 DEF DerivativesNext

\* A late render of an older generation loses against the row of a newer one.
THEOREM LateRendersLose == DerivativesSpec => LateRenderLoses
<1>1. DerivativesInv /\ [DerivativesNext]_derivativesVars =>
        [~RestoreArchive =>
           \A a \in Asset :
             \A p \in OfKind(a, "variant"), q \in OfKind(a, "variant")' :
               q.gen >= p.gen]_derivativesVars
  BY VariantsGrow
<1> QED
  BY <1>1, DerivativesHold, PTL DEF DerivativesSpec, LateRenderLoses
=============================================================================
