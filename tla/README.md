# Kuraki: a verification development

Kuraki is a self-hosted photo library: a Go server with a SQLite catalog and a
directory of originals, a web client, and a phone that backs its camera roll up
to the server.  This directory holds TLA+ models of the parts of it whose
correctness depends on the order in which things happen, TLC configurations
that check them on small instances, and TLAPS proofs of what matters most.

## 1. Inventory

| Part (source) | State | Operations | Hard behaviour | What makes it correct |
|---|---|---|---|---|
| Import queue (`internal/queue`) | `jobs`, `job_errors`, staging directories | EnqueueUpload, EnqueueStagedDirectory, claim, process, fail, Start, TrackMigration | crash and restart, panics, retries with backoff, a final transaction that may fail | nothing accepted is lost; success means every file; a job ends |
| Importer (`internal/importer`) | `import_state`, `assets`, `originals/` | Run, importFile, insertAsset | several statements per file, two processes at once, a crash between any two | a row has its original; a retry finishes what was begun |
| Capture protocol (`internal/httpapi/capture*.go`) | `upload_sessions`, `capture_receipts`, the staged file | start, append, complete, receipt | repeated and concurrent requests, a phone that hangs up, expiry | one job per session, of the whole file; a receipt is true |
| Capture janitor (`internal/maintenance`) | the list of expired sessions | purgeExpiredCaptures | works on a stale list | never takes what was handed over |
| Trash and purge (`internal/trash`) | `assets.deleted_at`, `storage_cleanup` | Delete, Restore, PurgeExpired, Purge, Reconcile | purge against import, backup and restore; removal after commit | no row without its original; intents are executed |
| Library lock, storage (`internal/storage`) | the lock file, files | LockLibrary, Write, Remove, DrainCleanup | several processes, polling | readers exclude purges |
| Backup, restore (`internal/backup`) | the archive, `backup_runs` | CreateLive, Restore, Prune | snapshot and walk are not one step | an archive is complete for its snapshot |
| Verification (`internal/verify`) | report rows | Run | long read under the lock | no false alarms |
| Maintenance manager (`internal/maintenance/manual.go`) | bounded queue, keys | Schedule, runManual | coalescing, full queue, panics | a key is free again after its work |
| Delta feed (`internal/httpapi/changes.go`, `events.go`) | `change_log` | changes, PruneChangeLog | pruned history, cursors of restored databases | a client that follows it converges |
| Response cache (`internal/httpapi/response_cache.go`) | LRU of bodies | get, put, invalidate | a read that spans an invalidation | bounded, and not stale for longer than its lifetime |
| Pairing, devices (`internal/httpapi/pairing.go`) | `pairing_codes`, `devices` | create, redeem, revoke | two redemptions at once | a code is used once |
| Users, sessions (`internal/httpapi/users.go`, `auth.go`) | `users`, `sessions` | demote, disable, delete, login | check, then act | an administrator is left |
| Thumbnails (`internal/thumbs`, the importer's RebuildDerivatives) | `thumb_variants`, `derivatives`, `assets.derivative_gen`, files | Get, render, RebuildDerivatives | rendering without the lock, rebuilds that fail half way | no row without its file, no stale copy under a live URL, no file outlives its asset |
| Duplicates (`internal/duplicates`) | scan rows, hashes | scan | cancellation | a scan ends |
| Migration (`internal/migrate`, `internal/app`) | `migration_*`, a jobs row | run, resume | resume after a crash, another process' recovery | nothing skipped |
| Phone backup engine (`mobile/src/lib/backup-engine.ts`, `backup-store.ts`, `background.ts`) | the switch, albums, scan position per library; one pass; a retry timer | run, pause, assetPages, useLibrary, setAuto, setAlbums | a pass dies while its successor is asked for, OS wakes, app kill, new photos during a sweep | no item is skipped; every item is reached |
| Phone upload (`capture-api.ts`, `backup-ledger.ts`, `media-source.ts`) | saved sessions, receipts | uploadFile, startOrResume, markBackedUp | edits meanwhile, lost answers, expired sessions, failed imports | a receipt proves the very bytes; nothing is taken up in vain for ever |
| Phone reclaim (`reclaim*.ts`, `free-up-space.tsx`) | the screen's list | verify, confirm, delete | what was verified changes before it is deleted | the last copy is never deleted |
| Phone cache (`mobile/src/lib/cache`, `library-api.ts`, `background-sync.ts`) | mirror, cursor, queue of edits | flush, syncChanges, mirror, enqueue | offline edits, reset of the feed, aborts, late requests | edits arrive in order and are settled; the mirror follows |
| Phone connection (`settings.ts`, `session.ts`, `connection-settings.ts`) | the credential, its epoch, the serial chain, "disconnected" | pair, change address, first run, resolve identity, 401, disconnect, reset | each asks a server between its read and its write | a credential stays with its server, and only what knew of it removes it |
| Web upload queue (`web/src/lib/upload-queue.ts`, `+layout.svelte`, `service-worker.ts`) | IndexedDB batches with leases, the sync registration | enqueue, claim, send, remove, release, wake | tabs and the service worker, accounts that change, closes | a batch lands, in its own library; one sender within the lease |
| Catalog features, configuration, interfaces | — | — | sequential | not modelled |

The parts meet in the database and the file system.  A browser upload or a
completed capture becomes a row of `jobs` and a directory of `staging/`; the
worker hands the directory to the importer, which fills `assets` and
`originals/` under the shared lock; the final transaction publishes the
receipts that the phone polls for, and the phone's reclaim trusts them.  Trash
and purge take rows and originals away again under the exclusive lock.  Every
change of a row adds an entry to `change_log`, which the phone's mirror follows;
edits made on the phone wait in a queue of its own.  The phone's backup, mirror
and queue work for the library that the stored connection leads to, and each
must notice that it leads elsewhere.

## 2. Plan

In the order of what losing it would cost the owner of the photos:

1. `ImportQueue` — staging, jobs, importer, receipts, recovery. *Done.*
   `Intake` — its abstract promise, and the refinement. *Done.*
   `ImportQueueSafety` — their proofs. *Done.*
2. `CaptureUpload` — the capture protocol and the sweep, on top of
   `ImportQueue`; `CaptureSafety` — its proofs. *Done.*
3. `Library` — lock, trash, expired purge, cleanup intents, import, backup,
   restore and verification. `Derivatives` — rebuilds and lazily rendered
   thumbnails on top of it. *Done.* `LibrarySafety` — the proofs of both. *Done.*
4. `BackupUpload` — one item of the phone, from the camera roll to its receipt
   and to the removal of the local copy; `BackupEngine` — which items a pass
   visits, and what starts and stops one; `BackupUploadSafety`,
   `BackupEngineSafety` — their proofs.  *Done.*
5. `MobileMirror` — the phone's mirror on the change feed, and its queue of
   edits.  `Connection` — the credential and who may change it.
   `MobileMirrorSafety`, `ConnectionSafety` — their proofs.  *Done.*
6. `WebUploads` — the browser's queue and its leases.  *Done.*
   `WebUploadsSafety` — its proofs.  *Done.*
7. Left: `MaintenanceQueue` and `MigrationRun`,
   small modules of one hazard each.

No module that carries proofs uses a RECURSIVE operator; every bound is a
CONSTANT with a named assumption.

## 3. Modules

### ImportQueue

One process of state: the tables and directories above, `run[i]` for the two
importers (`"worker"` is the goroutine of the server, `"cli"` a `kuraki import`
in a process of its own), `up` for the server, `migrating` for a `kuraki
migrate` process.  A file is its path, its content a value of `Content`; two
files with one content are the duplicates the importer recognises by hash.

| Code | Actions |
|---|---|
| `EnqueueUpload` (multipart parts, then the row, or removal) | StageUpload, EnqueueUpload, AbortUpload |
| `EnqueueStagedDirectory` | EnqueueCapture |
| `claim`, the ticker, the backoff of `fail` | Claim, BackoffElapses |
| `process`: Importer.Run | OpenRun, OpenFails, BeginFile, HashFile, WriteOriginal, InsertAsset, InsertConflict, MarkDone, FileFails, SourceGone, DiskFull, FinishRun |
| `process`: after the run | Finalize, FinalizeFails, Retry, FailUnrecorded, Sweep, Detect |
| its deferred `recover` | Panic, PanicUnrecorded |
| `Start`, the death of the server | Start, Crash |
| `App.Migrate` and its job row | TrackMigration, NameMigration, FinishMigration, MigrationDies |
| `kuraki import` | CliImport, RemoveSource, CliDies |
| `trash.Delete`, `Restore`, `purgeOne` | TrashAsset, RestoreAsset, PurgeAsset |

Each database statement or file operation whose effects another process, or the
next start, can see is an action.  Statements of one SQLite transaction are one
action.  `stored` is a history variable: the accepted files whose content has
been an asset at some time since.  A panic may come at any point of `process`,
after the job has succeeded too.  A statement whose error the code ignores or
only logs may fail: those of `fail` and of the panic's handler (`"record"`), the
final transaction (`"finalize"`), each of the two of `Start` (`"recover"`), and
the naming of a migration.  Files are visited in any order.  What is left out:
metadata, derivatives (one outcome, success or an error of the run), owners (all
of it is one owner's), progress counters, `job_errors`.

Operators that a comment calls "Wrong" are what a plausible bug would make of
the operator after them; nothing of the specification uses them.

### Intake

The promise: an accepted file is kept, as staged bytes and then as an asset.
`ImportQueue!KeepsPromise` is `Intake!Spec` under the mapping `Keeping`.

### CaptureUpload

EXTENDS `ImportQueue` with sessions, the bytes of their files, the requests in
progress and the sweep.  A request is a process: what it read of the row may be
stale when it writes.  `AppendRead / AppendWrite / AppendRecord` are the lookup,
the copy of the body and the UPDATE of `captureAppend`; `CompleteRead /
CompleteClaim / CompleteEnqueue / CompleteLink` the statements of
`captureComplete`.  `Disconnect` is the cancelled request context that all of
them share, `StatementFails` one of them that fails by itself; either way
nothing of the rest is done, the revert of a failed enqueue included, and `cut`
remembers a session that was left between its claim and its link.  In the sweep
`RemoveFails` and `DeleteFails` are the errors that it logs; a removal that
fails has removed nothing.  `ReceiptAnswer` is what `captureReceipt` replies.
The phone itself is any sequence of requests, so repeated, reordered and late
ones are all there.

### Library

Everything that takes originals away, and everything that needs them to stay,
around the one library lock.  An asset is a row with its status, the time it was
trashed, its derivatives' paths and their generation; a file is a path in one
of three directories (`originals/`, the older layout's `trash/`,
`derivatives/`).  `writer` is the exclusive holder's progress, `importer`,
`backup` and `verify` are the shared holders; every one may be a process of its
own, and may die at each step.

| Code | Actions |
|---|---|
| `setDeleted` | Delete, Restore |
| `PurgeExpired` (the list, then `purgeOne` for each) | ListExpired, PurgeListed, SkipListed, JanitorDies |
| `purgeOne` on demand | Purge |
| `Reconcile` | BeginReconcile, RecoverLegacy, then the drain |
| `DrainCleanup` | ReadIntents, RemoveFile, ForgetIntent, DrainEnds |
| any failure or death under the exclusive lock | WriterFails |
| `Importer.Run` | BeginImport, WriteOriginal, InsertAsset, WriteThumb, RecordThumb, EndImport |
| `backup.CreateLive` | BeginBackup (the snapshot), Validate, CopyFile, LeaveDir, Publish, BackupFails |
| `backup.Restore` | RestoreArchive |
| `Verifier.Run` | BeginVerify, CheckOne, EndVerify |

The walk of a backup visits the directories in the order of their names and may
or may not meet a file that appears after it entered the directory.  The initial
state is an upgraded library in which the older layout left originals in
`trash/`, in any of the states an interrupted move leaves behind.  The oldest
thousand intents of a drain are any `DrainLimit` of them, because `created_at`
has no order within a transaction.

Restore is `RestoreArchive`: the server is stopped and the old directory is
lost, so rows, intents and files all become the archive's.

Left out: owners, external assets (no file of theirs is ever touched), the
content of originals (ImportQueue has it), the backup's other files, a failure
in the transaction that retires a row (it changes nothing).  `deleted_at` is
compared as text by the listing and as a time by `purgeOne`; the clock of the
model is coarser than a second, where both orders agree.

### Derivatives

EXTENDS `Library` with `RebuildDerivatives` (BeginRebuild, RebuildWrite,
RebuildRecord, or RebuildSkips where either fails and the generation advances
all the same, RebuildCommit, RebuildList, RebuildRemove,
RebuildEnds, RebuildFails), which holds the exclusive lock, and with
`thumbs.Service`, which holds none: Ask is the read of `Get`, BeginFlight the
start of the one render of an asset and generation, WriteVariant and
RecordVariant its file and row, ServeThumb an answer that a client keeps for
ever because its URL carries the version.  One lazily rendered size stands for
both, and the thumbnail for posters and previews, which are rebuilt by the same
steps.  The bound of waiting renders is left out: it answers an error that
changes no state.  `Restarted` joins `RestoreArchive`: a restore wants an empty
directory (`backup.go:396`), so the server is stopped and its renders are gone;
what clients hold of the lost library is not followed (section 5).

### BackupUpload

One item and what becomes of it.  An item is bytes and metadata, and another app
may change either; a Live Photo has two components and one row in the ledger.
`up` is the upload of a pass, `rm` the free-up-space screen; both may be
interrupted at every await, and the app may be killed.

| Code | Actions |
|---|---|
| the loop of a pass, `resolveComponents` | List |
| `startOrResume`, the realignment of the offset | StartOrResume, Ask |
| `sendChunk` | SendChunk, ChunkUnanswered |
| complete, the missing session, `originalReceipt` | Complete, CompleteUnanswered, Poll |
| the second look at the item, `markBackedUp` | Mark |
| abort, kill, any error | Interrupted |
| free-up-space | Confirm, HashLocal, VerifyOriginal, Verified, Remove, Leave |
| `addPendingRemoval` and its flush | QueueRemoval, SendRemoval |
| the server, external | Import, ImportLeftOver, Expire, Change |

The server's original is named by the versions of the chunks it received, so a
mixture of two versions is an original of its own.  The first scan of the
free-up-space screen only fills the list and is left out; retries of one chunk
stay at the chunk; the limit of offset corrections is never reached, because
only this phone writes to its session.

### BackupEngine

When a pass runs and what it visits.  A page of the camera roll is one item, the
cursor of the media library is the item it stands behind, and the upload of an
item is a success, a failure or a wait for its receipt (BackupUpload has the
rest).  The code looks at its budget between pages of a hundred items, the model
between pages of one: that `attempts` stays within `Budget` says that it is
looked at before every page.  Items are added to the roll and none is deleted.
A retry timer that a later pass replaces loses its handle (`orphan`): stop does
not call it off.  A crash may come between the two writes of `setAlbums`; the
other writes of the state change one key only, or come to nothing without the
second.  Left out: a read of the stored state that fails, which the code turns
into the defaults, with the switch off (`backup-store.ts:47-51`).

| Code | Actions |
|---|---|
| `run`, `initialize`, `useLibrary` | Begin, Load, UseLibrary |
| `assetPages`, the loop over a page | Newest, Page, AfterNewest, Fetch, AfterPage, SweepEnds |
| the end of an aborted pass | Dying |
| the Backup screen | SetAuto, SetAlbums, BackUpNow |
| the end of the process | Crash |
| `_layout.tsx`: foreground effect, connection and network listeners | Return, Leave, Minute, Reconnected, Refused |
| the retry timer, the OS wake and its expiry | RetryFires, BackgroundWake, Abort |

### MobileMirror

The server's rows and log, the feed's pages with reset and pruning, the mirror
with its cursor, and the queue of edits.  The content of an asset is its
version, which every change advances, and a line of the log names the version it
tells of; a row of the mirror is the version that was read.  Trash, restore and
purge write their line in the transaction of the change; a favourite or an edit
writes it afterwards (`unlogged` until then), and may fail to.  The handler of
`/api/changes` reads what the log keeps in one statement and lists the changes
in another, so a prune may come in between.  `lane` is `orderedLibraryWork`; an
aborted caller leaves a request in `late` that the server may still handle.

| Code | Actions |
|---|---|
| the tap on the screen, `enqueueMutation` | Tap, Enqueue |
| `flushMutationsQueue` | BeginFlush, Served, Failed, LateRequest, Settle |
| `logAssetChange` | LogLine, LineLost |
| `changes`, the reply to the feed | GetFeed, ListFeed |
| `syncChanges` | RemoveRow, FetchAsset, WriteRow, SaveCursor, ClearRows |
| a list read for a screen and mirrored | ReadPage, MirrorPage |
| the web, `PruneChangeLog` | WebEdit, Prune |

### Connection

The stored connection, the serial chain of operations that write it, and the
flows that ask a server between reading and writing it.  A flow is where it is,
what it will store, the credential it saw, and whether its epoch has been
overtaken: of the code's counter only "none given", "current" and "past" can be
told apart, so the model keeps these and no number.  Steps that follow each
other without I/O (microtasks) are one action.

### WebUploads

Pages and the service worker as contexts that walk through
`resumeQueuedUploads` and `drainUploads`; the rows of IndexedDB with their
leases; the cookie, which all pages share, and the account each page shows; the
Background Sync registration.  A batch is `accepted` when the server has answered
its POST; what the import makes of it is ImportQueue's.  A sign-in starts a drain
and then aborts it (section 5).  The lease is a countdown that `Tick` advances.

### MC modules

Small sets of files, directories, contents, libraries and items for TLC.

## 4. Runs

| Run | Question | Instance |
|---|---|---|
| import_queue | safety of the queue, and the refinement of `Intake` | an upload of two files, a capture that copies one of them, two jobs, two faults of eleven kinds, a migration |
| import_live | two importers, and jobs end | copies of one file in an upload and in a directory of `kuraki import`; two faults other than of the statements that record a job's end |
| capture | safety of the protocol | one session, two requests at a time, two chunks, two faults of eleven kinds |
| capture_live | uploads are answered, copies get their receipts | two sessions, two requests, two faults: hang-ups, failing statements, crashes, failing walks |
| library | safety of the library, and intents are carried out | one asset, all three readers, time 0 to 2 with a retention of 1, so that an asset is trashed, listed, restored and trashed again around one cutoff |
| derivatives | rows, files, late renders | one asset, an importer, two generations, failing encoders, rows and commits, deaths of a rebuild |
| web_uploads | a queued photo lands, in its own library | a page and the worker, two batches of which one is refused, two accounts, two events: mishaps, the account changed elsewhere, sign-ins and sign-outs |
| backup_upload | receipts, reclaim, and the item is backed up | a Live Photo of two and one chunks, two libraries, one restart, two events of twelve kinds |
| backup_engine | the sweep skips nothing, and reaches everything | albums of three and of one item, two of the four failing always, two libraries, a budget of two, two pages in a pass, three events |
| mobile_mirror | edits in order, the mirror follows, both at last | two assets, two edits of the phone, three events, a log of one entry, pages of two |
| connection | the credential and its loss | two libraries at one server and one at another, two pairings beside all other flows, two tokens, three events |
| capture_swept | an expiry during complete | violated: the finding of section 5 |

Bounds.  Two jobs are the least for which one may be claimed while another
waits, backs off or has ended, and the worker has one job at a time, so a third
adds no new pair.  `MaxAttempts` is 2, the least that has a retry and a last
attempt; the schema's 3 repeats the former.  Three originals leave room for one
orphan per fault.  Two faults let a failure hit the recovery from another.  Two
chunks give an offset that is neither the start nor the end; two requests are
the least that race.  A purge records three or four intents and a drain takes
two, so that one drain never suffices.  Two generations are what a late render
and a stale copy need.  One asset is enough for Library because no action reads
the rows of two: what two would share is the lock, the intents, the sweep's list
and the archive, and the shares of one asset and of its paths already interleave
there.  Two assets with the backup as the only reader (`Asset = {a1, a2}`,
symmetric, no time; 594 thousand states) showed nothing else.

In the clients' modules one bound counts all faults and outside events together.
Two of them are the least for a fault during the recovery from another, and
three what a sweep needs that two passes share while a switch is flipped back.
Two edits are the least that have an order, two assets the least of which one is
left behind while the cursor passes it, a log of one entry the least that loses
one, and two pages of the feed the least that have an abort between them.
A budget of two with two items that fail in every pass uses it up before the
item behind them.  A third account, library or page repeats the second: every
comparison in the code is between what a flow saw and what is stored now.
Larger instances of them (a second page or a third event in WebUploads, an
item behind a content provider in BackupUpload, a fourth event in BackupEngine)
grow past what TLC checks in minutes.  Runs stop when the bounds are used up, so
deadlock is not checked: `CHECK_DEADLOCK FALSE`.

Fairness.  The worker is a goroutine that runs on until it has finished a job
and is woken by a three-second ticker (`queue.go`, Start); a handler runs on
until it has answered; the container is started again (`docker-compose.yml:22`,
`restart: unless-stopped`).  Every such step has weak fairness (the line of the
log that a handler has still to write, in MobileMirror, too).  Nothing is
assumed of clients, of the trash, or of faults, and no step of the server needs
strong fairness: a purge is never required to get its lock.

In the clients, an awaited call returns or fails, so a pass, a drain, a flush or
an operation of the chain has weak fairness as a whole, stated once over the
disjunction of its steps.  The phone's foreground effects, retry timer and
background task come again (`background.ts`; `_layout.tsx`), a page is opened
again, and the browser fires a Background Sync that is registered, which is its
promise.  Strong fairness stands where a wake comes again and again and meets
the lane free in between: `List` of each item in BackupUpload (the loop of
every pass), `BeginFlush` and the first `GetFeed` in MobileMirror.  No user is
required to do anything:  UploadsDrain excepts the cases that wait for the
user's next wake (in a browser without Background Sync, a mishap or a sign-in,
and in any, a drain whose error handler failed in the store).  The account that
is changed elsewhere is not changed back elsewhere: a registered sync that fires
for the other account in between is used up, and the batch would wait for the
next wake of its own account's page.

`FairLibrary` lets the goroutine that holds the lock run on, and `Reconcile`
come again (`startTrashJanitor`: at every start and daily).  The lock is polled
and has no order, so readers that overlap without end may keep Reconcile out for
ever; `CleanupCompletes` therefore assumes that readers come to an end, that no
drain or recovery fails midway for ever, and that the library is not replaced by
an archive for ever.  A drain that ends as it should meets the assumption
(`WriterFails` needs something that is left to do), so it is met by a server that
works from some time on, whatever went wrong before.

## 5. Findings

One run shows a disagreement between the code and what the repository says:

*Swept upload* (capture_swept).  A session completed while the sweep removes its
directory has an accepted job without a file.  The window is short: the session
must have expired and be completed in the same moment.

### Known divergences without a run

Properties that are kept in the modules, fail as soon as the named ingredient is
added to a configuration, and are documented here.

Server:

- *Resume hint* (`ResumeHintNamesRun`; add it to `MCImportQueue.cfg`).
  `App.Migrate` tracks the job with the id `pending` and writes the real one after
  the engine has returned (`app.go:169-185`), so the command that recovery puts
  into an interrupted migration's row cannot resume it.
- *Stuck session.*  A phone that hangs up during complete leaves the session
  `queueing` for ever: the statement that hands it back runs under the cancelled
  context (`capture.go:383`), against README.md:89.  So do a crash between the
  claim (357) and the enqueue (381) and a revert that fails; and after a link that
  fails (387), or is cut off, the session has no job, so a failure of its import is
  never told.  `Stranded` names these sessions, and `UploadsResolve` excepts them;
  without that exception it fails in capture_live.
- *Stale thumbnail* (`NoStaleCopy`; add it to `MCDerivatives.cfg`).  A rebuild
  publishes the row of its new thumbnail before the generation that changes its
  URL (`importer.go:752`); if that transaction fails, clients keep the old picture
  under the URL of the new one (`assets.go:230`).  The next rebuild that commits
  ends this, which `ServedIsRight` checks.  A restore has the same effect: an older
  archive takes the generation back, and a later rebuild gives a version out again
  (`naming.go:79-82` makes it of id, generation and format) under which clients may
  hold a picture of the lost library.  `copies` therefore begins anew there.
- *Orphaned variant* (`DerivativesErased`; add it to `MCDerivatives.cfg`).
  `thumbs.Service.render` takes no library lock (`service.go:249`).  A render under
  way when its asset is purged leaves a file that no intent, row or sweep names,
  against `USER_GUIDE.md:496`.
- *Stuck row* (`JobsSettle`; add `"finalize"`, `"record"` or `"recover"` to the
  faults of `MCImportLive.cfg`).  A final transaction that fails (`queue.go:304`)
  is logged, and the row says running until the next start; the same comes of a
  failing statement of `fail` (378, 384), whose error is ignored, or of the
  panic's handler (270).  When the recovery itself fails (207-216), until the
  start after that.
- *Failed success.*  A panic in the stack or trip detection (`queue.go:352-363`),
  after the job has succeeded and its directory is gone, reports it as failed
  (270): nothing is lost, but the Activity view says otherwise.
  `EndedStaysEnded` allows this one step.
- *Leaked directory* (`NoLeakedStaging`; add `"crash"` and `"expire"` and the
  property to `MCCaptureLive.cfg`).  A crash between directory and row in
  captureStart (`capture.go:223`) leaves a directory that no sweep finds.

Clients:

- *Unseen prune.*  `changes` reads the oldest entry (`changes.go:69`) and lists the
  changes (99) in two statements: a prune in between takes entries away that the
  client has not seen, without the reset that the comment at 63-67 promises.  The
  cursor goes past them and the mirror keeps the old rows.  `MirrorFollows`
  excepts them, and rows older than what was pruned before a new phone's first
  page; `NoResurrection` fails by it, too.
- *Missing entry.*  An update whose log entry fails to be written
  (`favorites.go:52`; `changes.go:12-14` says so) is not mirrored until the asset
  changes again: `MirrorFollows` speaks of what the log tells.
- *Resurrected row* (`NoResurrection`; add it to `MCMobileMirror.cfg`).  A page
  read for a screen is mirrored by a call nobody awaits (`library-api.ts:197`);
  a catch-up may remove a trashed asset's row and save its cursor in between,
  and the row comes back for good, against `cache/assets.ts:80-82`.
  `MirrorFollows` excepts such rows and says the rest.
- *Trashed on the server, kept on the phone.*  Such an item has a receipt whose
  original is in the trash; each pass uploads it again, against
  `background.ts:9-10`.  `BackedUp` therefore excepts items in the trash.
- *First-run step.*  `server.tsx:28-29` loads the connection and saves it with the
  new address and the token it read, without an epoch.  A pairing or a clear that
  is queued ahead of that save is overwritten: the older token comes back, under
  another origin (`settings.ts:168-169` says what is meant).  The history variable
  `blind` excepts it.
- *Failed removal.*  When the secure store fails in the second step of a clear or
  reset, the connection has changed and neither the epoch nor "disconnected" says
  so; `blind` excepts it, too.
- *Pairing overtaken.*  A late 401 that clears an older token, or the engine's
  identity, bumps the epoch while a code is being claimed; the claimed code then
  fails as stale.  The server has an active device, the app says "Not paired":
  the symptom `session.ts:34-37` describes.  No credential is lost by it, so no
  property is violated.
- *Late copy.*  A request of an aborted flush may reach the server after the edit
  made next (`library-api.ts:795-796` promises otherwise); FirstInOrder says only
  that no edit is met for the first time after a later one.
- *Lost answer.*  The repetition of an edit that was carried out may be answered
  409 and is then reported as rejected.  A rejected trash leaves the row hidden in
  the mirror until the asset changes again.
- *A crash between tap and enqueue* forgets the edit the user has seen carried
  out.
- *Dying pass.*  `run()` returns the pass that is being stopped
  (`backup-engine.ts:308`), so a switch that is flipped back at once may start
  none (`_layout.tsx:192-193`); the next wake does.
- *Old preferences.*  `useLibrary` replaces the state it read before a `setAuto`
  persisted its own (`backup-engine.ts:227-240`); later persists write the old
  value back.
- *Outlived lease.*  A sender that outlived its lease may release a row that
  another has removed or holds, and the batch is sent again.  UploadsLand allows
  the repetition, which the importer recognises by its hash.
- *Aborted sign-in.*  `submitAuth` starts the drain of the account's queue
  (`+layout.svelte:135`), and the reactive block that sees the new account then
  aborts it (96), because `uploadAbort` is by now the new drain's (194).  Its first
  batch is released as `account_changed` (201).  With Background Sync the
  registration sends it; without, it waits for the next wake (`online`, another
  upload, a reload), against what line 135 is for.  `UploadsDrain` excepts it.
- *Failed sign-out.*  It aborts the upload and does not resume it.

## 6. Proofs

The theorems hold for every value of the constants, finite or infinite.

### ImportQueue

For any sets of files, directories and contents, any number of jobs, originals
and faults, from `ImportQueueAssumption` alone: the bounds are naturals, the
directories of captures and of the command line are disjoint, a capture
directory holds one file.

`ImportQueueSafety` first proves `Shape`, the type invariant with what makes it
inductive: a row is queued or running only with attempts left (`JobsOK`), the
worker's job is an import row that says running (`WorkerOK`), each run is at a
file of its own directory (`RunsOK`), the migration's row is a migration
(`MigrationOK`), uploads in progress have no job yet (`UploadsOK`).  `TypeOK`
alone is not inductive: `Retry` adds one to the attempts and stays in range only
because the row was running.  Theorems: `TypeCorrect`, `NeverMigrates`.

It adds, on top of `Shape`:

- `RowHasOriginal /\ OriginalWritten`: between Write and insertAsset the
  importer's own original is in place, and a purge cannot run then because it
  needs the exclusive lock.  Theorem `OriginalsKept`.
- `Accounts`: the history keeps up with `assets` and `import_state`
  (`StoredOK`), and a run without errors has stored every file it is done with
  (`RunAccounts`).  That is what makes a retry, which skips files, report a
  complete job.  Theorems `AcceptedIsKept`, `SuccessIsComplete`.
- `ReceiptNamesAsset` by itself, from `Shape` and `RowHasOriginal`.  Theorems
  `ReceiptsNameAssets`, `ReceiptsArePublishedLive`.
- `EndedIsFinal`: an action property, from `WorkerOK`: the row of an ended job
  changes only by a migration that is still at work, or by a panic of the run
  that has just ended it, from succeeded to failed and in nothing else
  (`FailsAfterSuccess`).

The refinement, `QueueKeepsPromise`, is a step simulation: `EnqueueUpload` and
`EnqueueCapture` are `Intake!Accept`, the `InsertAsset` that stores a file is
`Intake!Store`, and every other step leaves `Keeping` as it was, because no step
takes a job of a directory away (`JobsStay`) and `AcceptedKept` says that an
accepted file is staged or stored.  The proof attempt showed that `Keeping` had
been a CASE whose arms overlap, which TLC reads in their order and a prover may
not; it is an IF now, as are `ReceiptAnswer` and `Connection!Done`.

TLC checked the conjunction of all these parts as an invariant of the
import_queue instance, and of one with three copies of one file and two
importers, before it was proved.  `NeverMigrates`, `ReceiptsNameAssets`,
`EndedIsFinal` and (below) `SweepsSpareRecent` state definitions that no run
checks any more: TLC confirmed them before they were proved, and the proofs now
stand for them.

### CaptureUpload

For any number of sessions, requests in progress, bytes and faults.
`CaptureSafety` takes `Shape`, `OriginalsKept` and `ReceiptNamesAsset` over from
`ImportQueueSafety` (the steps of the queue keep them, and the protocol's own
steps are shown to) and adds:

- `SessionOK`: a session has received no more than its file holds, and one with a
  job is past its claim and has the whole file; one without a row has nothing.
- `HandlerOK`: what a handler read before it was overtaken is still so, or more
  of it.  `OneJobPerSession` fails without it at `CompleteEnqueue`.
- `Alone`: one handler at most creates a session and one at most is past its
  claim.  The guarded UPDATE of the claim is what gives it.
- `RunProcessed`: a run that met no error has dealt with each file it is done
  with, and `import_state` says so, also for a file that another session brought
  first.

`Accounts` of the queue is not among them: a sweep takes staged files of a live
session (finding capture_swept).  Theorems: `CaptureTypeCorrect`,
`SessionsAreSound`, `CompletionsStay`, `SuccessesHaveReceipts`.  TLC checked the
conjunction on the capture instance, on one with two sessions, and on that of
capture_live, before it was proved.

### Library

For any set of assets, any readers, times, retention and drain limit, from
`LibraryAssumption` alone: the bounds are naturals, the drain takes at least
one intent, the readers are those of the code.  `LibrarySafety` proves
`LibraryInv`, whose safety parts (`RowServed`, `PurgedIsErased`,
`ArchiveServed`, `NoFalseAlarm`) say nothing of what an actor in the middle
of its work still holds, and so are not inductive.  What is added says it:

- `LockOK`: while somebody holds the lock exclusively, no import, backup or
  verification is at work.  It is what every other part leans on.
- `WriterOK` and `IntentsOK`: what the writer is about to remove, and every
  intent, is for a purged row.  Rows do not change under the exclusive lock, and
  a purged row does not come back, so a drain takes no file of a row that is
  left.  Without it `RowServed` fails at `RemoveFile`.
- `ImportOK`: an original just written is there when its row is inserted, a
  thumbnail just rendered when its row is.  It needs `LockOK`: no purge comes
  in between.
- `BackupOK`: `Held` is what the backup has copied, will copy from the
  directory it is in, and has yet to reach.  No file goes while it holds the
  shared lock, so `Held` only grows, and it covers what the snapshot names from
  `Validate` on.  At `Publish` nothing is left to copy, hence `ArchiveServed`.
- `ArchiveOK`: the same of the archive's own rows and intents, so that
  restoring one gives `PurgedIsErased` back.
- `VerifyOK`: what verification still has to look at, or has reported, has a
  row, so no import writes its original meanwhile.
- `SweepOK`: a list's cutoff lies at least the retention before now.

`RowServed` and `ArchiveServed` speak of what is served of a row (`Servable`: its
thumbnail, and the variant of its own generation), because a late render leaves
rows that name an older variant whose file a rebuild has removed; with rebuilds,
`RowHasFile` is false.  The library alone has none: `FirstThumbs` says that its
rows name only first thumbnails, and `AllServed` gives `RowHasFile` and
`ArchiveComplete` back from both.

Theorems: `LibraryTypeCorrect`, `RowsHaveFiles`, `PurgedAreErased`,
`ArchivesAreComplete`, `NoFalseAlarms`, and `SweepsSpareRecent`, an action
property: `WhoChanges` leaves only `PurgeListed` as a purge of the sweep, whose
guard and `SweepOK` give the age.

TLC checked `LibraryInv` on the instance of the library run, and on a larger one
with two assets, before it was proved.

### Derivatives

`LibrarySafety` also proves `DerivativesInv`, for any rebuild faults, from
`DerivativesAssumption` besides.  A rebuild or a render is a step `Beside` the
library: it changes what rows name and derivatives' files, never a status or an
original, and removes only under the exclusive lock; `BesideStep` shows once that
such a step keeps `LibraryInv` if it keeps `RowServed`.  Added to `LibraryInv` are:

- `Tiers`: a row names one derivative of a kind and no variant newer than itself,
  in the catalog, in a snapshot and in the archive, from which it may come back.
- `RebuildOK`: a rebuild in progress is the writer, of one live row.  What it has
  listed to remove is an older variant or a thumbnail that the row no longer names;
  before the list is cut down it may be the current thumbnail, which is why a
  rebuild that fails before must not remove.
- `RendersOK`: what a request, a render or a client has read of a generation is
  not ahead of the row, so a late render cannot be newer than it; one that has
  written for the row's own generation still has its file.
- `CommitRefreshes`, the half of `ServedIsRight` that is inductive beside these.

Theorems:  `DerivativesTypeCorrect`, `ServedAreRight`, `LateRendersLose` (an
action property).  TLC checked `DerivativesInv` with an importer and a verifier;
with an importer and a backup the instance is too large to finish, and was only
simulated.  That simulation showed that renders must end with a restore: before
`Restarted`, a render of the lost library was recorded in the older one.

### BackupUpload

For any items, libraries, chunks and events; an item is not 0, which stands for
none.  `BackupUploadSafety` proves `Sound`.  Nothing that is read of an item
during its upload is known to be of the version listed, so `ReceiptIsTrue` is
not inductive; what is, is a statement in the version:

- `PhoneOK`: versions and bytes only grow, together unless an edit was silent.
- `SessionsOK`: if the item still has the version the session was opened for, all
  that the session received is of it; and the phone never counts more than the
  session received.
- `UpOK`: the same of the pass's copy of a Live Photo's part and of its proofs.
  At `Mark` the second look at the item supplies the hypothesis.
- `RmOK`: a part that free-up-space has gone past is a live original that nobody
  is about to trash, unless something came after the check (`late`).

Theorems: `BackupTypeCorrect`, `ReceiptsAreTrue`, `ReclaimsKeepOriginals` (an
action property).  TLC checked `Sound` on 713,429 states.

### BackupEngine

For any camera roll, albums, selections, libraries and budget.  A selection is a
non-empty sequence of albums, as the screen ensures; a position's page number
may be any, which the proof needs and the code allows.  `BackupEngineSafety`
proves `Sound`:

- `MemoryOK`: the engine's scan is the stored one of the library it was loaded
  for (`scope`), which may not be the connected one.
- `PassOK`: a pass that is not aborted works for the connected library, and
  sweeps only when the engine was loaded for that one.
- `HistoryOK`: whatever lies behind a stored position was visited in that sweep,
  for every library; `SweepOK` says the same of the pass's own position, of the
  page it has read and of the newest page that is looked at first.

Theorems: `BackupEngineTypeCorrect`, `SweepsAreSound`.  TLC checked
`Sound` on the instance of the backup_engine run before it was proved.

### MobileMirror

For any assets, and any sizes of pages, batches and logs.  `MobileMirrorSafety`
proves `Sound`:

- `Edits`: the queue is in the order of the edits; the lane has in hand the first
  rows of it, which nobody else takes; the outcome it will settle is what the
  server did; a late request follows nothing that the server has not met.
- `ServerTypes`: no line of the log, written or still to be, tells of a version that
  is not there.  With it goes `ServerGrows`: versions and the log only grow.
- `PageOK`: the ids of a page follow each other, from what the mirror has been
  brought to, or from what was pruned (`lane.pruned`), up to the cursor stored
  after them.  A version that was fetched is not older than any line of its asset
  up to the one it was fetched for: the line is written after the change.
- `RowsOK`: a row that is there is not older than any change the mirror was told
  of (`Heeded`), but for rows in `stale` and, until the page is saved, for what was
  pruned before a new phone's first page or between the feed's two statements
  (`Unknown`), of which nobody tells it.  `SaveCursor` makes such rows `stale`, so
  `MirrorFollows` needs no further exception.

Theorems: `MobileMirrorTypeCorrect`, `EditsKeepTheirOrder`, `MirrorsFollow`.  TLC
checked `Sound` on the instance of the mobile_mirror run before it was proved.

### Connection

For any servers, libraries, pairings and events; a pairing is not one of the
code's other flows.  `ConnectionSafety` proves `Sound`:

- `LineOK`: only the head of the chain is at work, and a flow waits for one save.
- `SeenIsStored`: while no operation is between its write and its publication, a
  flow that has not been overtaken has seen the credential that is stored now.
  It is what the epoch is for, and why a write much later is safe.
- `FlowOK`, `StoreOK`, `RequestOK`: what a flow will store, what is stored and what
  a request carries was issued by the server at that address, for the library
  of that identity.
- `WriteOK`: what the head has written and not yet published.

`blind` is set by the one write of which the epoch does not tell (the known
divergences of section 5); the parts hold until then.  Theorems:
`ConnectionTypeCorrect`, `ConnectionsAreSound`, `CredentialsOutliveOlder` (an
action property).  TLC checked `Sound` on 1,150,040 states.

### WebUploads

For any accounts, pages, and numbers of batches and events, from
`WebUploadsAssumption` alone: the bounds are naturals, the service worker is not
a page, "signed out" is not an account.  `WebUploadsSafety` proves `Landing`.
Its safety part `UploadsLand` says nothing of the copy of a batch that a sender
has in memory, and so is not inductive by itself; the rest of `Landing` is:

- `SendersOK`: between claim and removal, a context holds a batch of the account
  it drains for, though the cookie, the page's account and the row itself may
  have changed; what it is about to remove as uploaded is in that account's
  library, what it is about to drop was refused.  It is what makes `Remove` safe,
  and `Release`, which writes the row again from memory.
- `RowsOK`: a row belongs to the account its batch was queued for.
- `MadeOK`: ids are given out in order, so a new batch never replaces one.

Most steps move one context and give it nothing new to hold; `OneMoves` shows
once that these keep `Landing`.  Theorems: `WebUploadsTypeCorrect`,
`QueuedUploadsLand`.  TLC checked `Landing` on the instance of the web_uploads
run.

`Leases` adds `HoldOK`: the row of a batch that a context holds says "sending",
with the context's own lease, which has not run out, unless a sender of that
batch has outlived its lease.  A claim asks for a row that is not being sent or
whose lease has run out; hence `OneSenderWithinLease`, theorem `OneSenderHolds`.
TLC checked `Leases` there, too.

### Model-checked only

Liveness under fairness (`JobsSettle`, `UploadsResolve`, `CleanupCompletes`,
`UploadsDrain`, `BackedUp`, `CatchesUp`, `Synchronizes`, `RevocationIsNoticed`),
because ENABLED is out of TLAPS' reach.  Every safety property of a passing run
is a theorem.

## 7. Not modelled, and why

- *Server.*  The response cache (a lifetime of five seconds bounds what a late
  fill can show), users and sessions (a check and an act in one handler:
  `users.go:166` reads whether another administrator is left, and two such
  requests at once may leave none), the rate limiter, the duplicate scan, the
  maintenance queue, the migration engine's own cursor, the SSE stream.  Each is
  one process with one table; what is known of their hazards is in PROJECT.json.
- *Phone and web.*  Screens, navigation, prefs, notifications, gestures, the
  viewer, search, places, trips, duplicates and the generated API clients
  (`api.gen.ts`, a quarter of the clients' lines) hold no state that outlives a
  render, or are types.  The map covers the client modules that do keep state:
  the queue, engine, ledger, cache and settings files of section 1.  That is why
  its share of all client lines is small.
- *Both.*  Metadata extraction, pixels, geography and stacks are computations
  over data with no protocol of their own.  Security mechanisms (hashing,
  tokens, cookies) are not modelled.
