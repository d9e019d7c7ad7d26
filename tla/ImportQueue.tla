----------------------------- MODULE ImportQueue -----------------------------
(***************************************************************************)
(* The background import queue of internal/queue, with the importer of     *)
(* internal/importer that it drives.                                       *)
(*                                                                         *)
(* An upload is staged in a directory and a row is added to the jobs       *)
(* table.  One worker claims rows, imports the files of the row's          *)
(* directory one after another under the shared library lock, publishes    *)
(* capture receipts in the transaction that ends the job, and removes the  *)
(* directory.  A failed job is retried after a backoff; a restart requeues *)
(* what was running.  `kuraki import` runs the same importer in a process  *)
(* of its own, and `kuraki migrate` only keeps a row of the jobs table.    *)
(*                                                                         *)
(* A file is its path; two files may hold the same content (ContentOf).    *)
(* Job ids are numbered in insertion order, the order of created_at.       *)
(* An original is a path under originals/; Write never reuses one in use.  *)
(***************************************************************************)
EXTENDS Naturals, FiniteSets

CONSTANTS
  File, Content,  \* paths of files to import, and what may be in them
  Dir,            \* directories to import from
  CaptureDir,     \* those staged by a capture session
  CliDir,         \* those given to `kuraki import`, outside staging
  DirOf,          \* the directory a file is in
  ContentOf,      \* the content of a file
  MaxJobs,        \* bound: rows of the jobs table
  MaxOriginals,   \* bound: room for originals on the disk
  MaxAttempts,    \* jobs.max_attempts (3 in the schema)
  MaxFaults,      \* bound: failures, panics and crashes in a behaviour
  FaultKinds      \* which of them a run injects

None == "none"
Job == 1 .. MaxJobs
Original == 1 .. MaxOriginals
Importer == {"worker", "cli"}
UploadDir == Dir \ (CaptureDir \cup CliDir)
FilesIn(d) == {f \in File : DirOf[f] = d}
FileOf(d) == CHOOSE f \in File : DirOf[f] = d  \* of a capture: its only file

ASSUME ImportQueueAssumption ==
  /\ MaxJobs \in Nat /\ MaxOriginals \in Nat /\ MaxFaults \in Nat
  /\ MaxAttempts \in Nat \ {0}
  /\ CaptureDir \subseteq Dir /\ CliDir \subseteq Dir
  /\ CaptureDir \cap CliDir = {}
  /\ DirOf \in [File -> Dir]
  /\ ContentOf \in [File -> Content]
  /\ \A d \in CaptureDir : \E f \in File : FilesIn(d) = {f}
  /\ None \notin File \cup Content \cup Dir
  /\ {"pending", "run"} \cap Dir = {}

VARIABLES
  up,           \* the server process runs
  jobs,         \* the jobs table; status None is a row not inserted yet
  staged,       \* the directories that exist
  uploading,    \* browser uploads staged by a request that has not answered
  importState,  \* the import_state table: status per file
  assets,       \* the assets table: per content, its state and original
  originals,    \* the files under originals/, and the content of each
  run,          \* the importer runs in progress
  receipts,     \* the capture_receipts table: the content received
  migrating,    \* the jobs row a live `kuraki migrate` process tracks, or 0
  stored,       \* history: accepted files whose content has been an asset since
  faults

vars == <<up, jobs, staged, uploading, importState, assets, originals, run,
          receipts, migrating, stored, faults>>

JobRow ==
  [status: {None, "queued", "running", "succeeded", "failed"},
   kind: {None, "upload", "capture", "migration"},
   source: Dir \cup {None, "pending", "run"},
   attempts: 0 .. MaxAttempts, due: BOOLEAN]

AssetRow == [state: {None, "live", "trashed"}, original: Original \cup {0}]

Run ==
  [pc: {"idle", "open", "next", "hash", "write", "insert", "mark", "finalize",
        "retry", "sweep", "detect"},
   job: Job \cup {0}, dir: Dir \cup {None}, file: File \cup {None},
   original: Original \cup {0}, todo: SUBSET File,
   errors: BOOLEAN, imported: BOOLEAN]

Idle == [pc |-> "idle", job |-> 0, dir |-> None, file |-> None, original |-> 0,
         todo |-> {}, errors |-> FALSE, imported |-> FALSE]

TypeOK ==
  /\ up \in BOOLEAN
  /\ jobs \in [Job -> JobRow]
  /\ staged \subseteq Dir
  /\ uploading \subseteq Dir
  /\ importState \in [File -> {None, "pending", "done", "skipped", "error"}]
  /\ assets \in [Content -> AssetRow]
  /\ originals \in [Original -> Content \cup {None}]
  /\ run \in [Importer -> Run]
  /\ receipts \in [CaptureDir -> Content \cup {None}]
  /\ migrating \in Job \cup {0}
  /\ stored \subseteq File
  /\ faults \in 0 .. MaxFaults

Init ==
  /\ up = TRUE
  /\ jobs = [j \in Job |-> [status |-> None, kind |-> None, source |-> None,
                            attempts |-> 0, due |-> FALSE]]
  /\ staged = CliDir
  /\ uploading = {}
  /\ importState = [f \in File |-> None]
  /\ assets = [c \in Content |-> [state |-> None, original |-> 0]]
  /\ originals = [o \in Original |-> None]
  /\ run = [i \in Importer |-> Idle]
  /\ receipts = [d \in CaptureDir |-> None]
  /\ migrating = 0
  /\ stored = {}
  /\ faults = 0

-----------------------------------------------------------------------------
(* Failures come out of one budget, so that every behaviour has few.       *)

Fault(kind) ==
  /\ kind \in FaultKinds
  /\ faults < MaxFaults
  /\ faults' = faults + 1

HasRow(c) == assets[c].state # None

-----------------------------------------------------------------------------
(* Adding rows to the jobs table.                                          *)

InsertJob(row) ==
  \E j \in Job :
    /\ jobs[j].status = None
    /\ \A k \in Job : k < j => jobs[k].status # None
    /\ jobs' = [jobs EXCEPT ![j] = row]

QueuedRow(kind, d) ==
  [status |-> "queued", kind |-> kind, source |-> d, attempts |-> 0,
   due |-> TRUE]

HasJob(d) == \E j \in Job : jobs[j].source = d

\* enqueueStagedDirectory: one row, runnable at once.
EnqueueDirectory(kind, d) ==
  /\ InsertJob(QueuedRow(kind, d))
  /\ stored' = stored \cup {f \in FilesIn(d) : HasRow(ContentOf[f])}

\* EnqueueUpload up to its call of enqueueStagedDirectory: every part of the
\* multipart request is written below the job's own directory.
StageUpload(d) ==
  /\ up
  /\ d \in UploadDir \ staged
  /\ ~HasJob(d)
  /\ staged' = staged \cup {d}
  /\ uploading' = uploading \cup {d}
  /\ UNCHANGED <<up, jobs, importState, assets, originals, run, receipts,
                 migrating, stored, faults>>

EnqueueUpload(d) ==
  /\ d \in uploading
  /\ EnqueueDirectory("upload", d)
  /\ uploading' = uploading \ {d}
  /\ UNCHANGED <<up, staged, importState, assets, originals, run, receipts,
                 migrating, faults>>

\* Staging or the insert fails: the directory is removed.
AbortUpload(d) ==
  /\ d \in uploading
  /\ Fault("upload")
  /\ staged' = staged \ {d}
  /\ uploading' = uploading \ {d}
  /\ UNCHANGED <<up, jobs, importState, assets, originals, run, receipts,
                 migrating, stored>>

\* EnqueueStagedDirectory, called for a capture directory already complete.
EnqueueCapture(d) ==
  /\ up
  /\ d \in CaptureDir
  /\ ~HasJob(d)
  /\ EnqueueDirectory("capture", d)
  /\ staged' = staged \cup {d}
  /\ UNCHANGED <<up, uploading, importState, assets, originals, run, receipts,
                 migrating, faults>>

\* The row of a migration starts out running; app.Migrate passes "pending" as
\* the run id and writes the real one only when the engine has returned.
TrackMigration ==
  /\ migrating = 0
  /\ ~HasJob("pending") /\ ~HasJob("run")
  /\ \E j \in Job :
       /\ jobs[j].status = None
       /\ \A k \in Job : k < j => jobs[k].status # None
       /\ jobs' = [jobs EXCEPT ![j] =
                     [status |-> "running", kind |-> "migration",
                      source |-> "pending", attempts |-> 0, due |-> TRUE]]
       /\ migrating' = j
  /\ UNCHANGED <<up, staged, uploading, importState, assets, originals, run,
                 receipts, stored, faults>>

\* The run has an id now, and the row is pointed at it (an error is ignored).
NameMigration ==
  /\ migrating # 0
  /\ jobs[migrating].source = "pending"
  /\ jobs' = [jobs EXCEPT ![migrating].source = "run"]
  /\ UNCHANGED <<up, staged, uploading, importState, assets, originals, run,
                 receipts, migrating, stored, faults>>

\* A run that failed before it had an id leaves "pending" behind, and so does
\* one whose naming failed.
FinishMigration(outcome) ==
  /\ migrating # 0
  /\ IF outcome = "succeeded" /\ jobs[migrating].source = "pending"
     THEN Fault("migration") ELSE UNCHANGED faults
  /\ jobs' = [jobs EXCEPT ![migrating].status = outcome]
  /\ migrating' = 0
  /\ UNCHANGED <<up, staged, uploading, importState, assets, originals, run,
                 receipts, stored>>

\* The migrating process is killed, or its last statement fails (which is only
\* logged): nobody tracks the row any more.
MigrationDies ==
  /\ migrating # 0
  /\ Fault("migration")
  /\ migrating' = 0
  /\ UNCHANGED <<up, jobs, staged, uploading, importState, assets, originals,
                 run, receipts, stored>>

-----------------------------------------------------------------------------
(* importer.Run.  Importer i holds the shared library lock from OpenRun to *)
(* FinishRun, and goes through the files it found, one at a time.          *)

Locked(i) == run[i].pc \in {"next", "hash", "write", "insert", "mark"}

\* The next state of a run that has dealt with its current file.
NextFile(i, failed) ==
  LET r == run[i] IN
  run' = [run EXCEPT ![i] =
             [r EXCEPT !.pc = "next", !.file = None, !.original = 0,
                       !.errors = r.errors \/ failed]]

\* alreadyProcessed skips a file an earlier attempt dealt with; any other is
\* marked pending.
BeginFile(i, f) ==
  LET r == run[i] IN
  /\ r.pc = "next"
  /\ f \in r.todo
  /\ r.dir \in staged
  /\ IF importState[f] \in {"done", "skipped"}
     THEN /\ run' = [run EXCEPT ![i] = [r EXCEPT !.todo = r.todo \ {f}]]
          /\ UNCHANGED importState
     ELSE /\ run' = [run EXCEPT ![i] = [r EXCEPT !.todo = r.todo \ {f},
                                                !.pc = "hash", !.file = f]]
          /\ importState' = [importState EXCEPT ![f] = "pending"]
  /\ UNCHANGED <<up, jobs, staged, uploading, assets, originals, receipts,
                 migrating, stored, faults>>

\* hashFile and assetExists, which also finds assets in the trash.
HashFile(i) ==
  LET f == run[i].file IN
  /\ run[i].pc = "hash"
  /\ run[i].dir \in staged
  /\ IF HasRow(ContentOf[f])
     THEN /\ importState' = [importState EXCEPT ![f] = "skipped"]
          /\ NextFile(i, FALSE)
     ELSE /\ run' = [run EXCEPT ![i].pc = "write"]
          /\ UNCHANGED importState
  /\ UNCHANGED <<up, jobs, staged, uploading, assets, originals, receipts,
                 migrating, stored, faults>>

\* Store.Write to a path that is new (the asset's uuid); which one is free
\* makes no difference, so the least is taken.
WriteOriginal(i, o) ==
  /\ run[i].pc = "write"
  /\ run[i].dir \in staged
  /\ originals[o] = None
  /\ \A p \in Original : p < o => originals[p] # None
  /\ originals' = [originals EXCEPT ![o] = ContentOf[run[i].file]]
  /\ run' = [run EXCEPT ![i] =
                [@ EXCEPT !.pc = "insert", !.original = o]]
  /\ UNCHANGED <<up, jobs, staged, uploading, importState, assets, receipts,
                 migrating, stored, faults>>

\* insertAsset.  The index on (owner_id, content_hash) refuses a second row.
InsertAsset(i) ==
  LET c == ContentOf[run[i].file] IN
  /\ run[i].pc = "insert"
  /\ ~HasRow(c)
  /\ assets' = [assets EXCEPT ![c] = [state |-> "live",
                                      original |-> run[i].original]]
  /\ stored' = stored \cup {f \in File : ContentOf[f] = c /\ HasJob(DirOf[f])}
  /\ run' = [run EXCEPT ![i].pc = "mark"]
  /\ UNCHANGED <<up, jobs, staged, uploading, importState, originals, receipts,
                 migrating, faults>>

\* Wrong: the conflict removes the original of the row that was there first.
ConflictRemoving(i) ==
  /\ run[i].pc = "insert"
  /\ HasRow(ContentOf[run[i].file])
  /\ importState' = [importState EXCEPT ![run[i].file] = "error"]
  /\ originals' = [originals EXCEPT
                     ![assets[ContentOf[run[i].file]].original] = None]
  /\ NextFile(i, TRUE)
  /\ UNCHANGED <<up, jobs, staged, uploading, assets, receipts, migrating,
                 stored, faults>>

InsertConflict(i) ==
  /\ run[i].pc = "insert"
  /\ HasRow(ContentOf[run[i].file])
  /\ importState' = [importState EXCEPT ![run[i].file] = "error"]
  /\ NextFile(i, TRUE)
  /\ UNCHANGED <<up, jobs, staged, uploading, assets, originals, receipts,
                 migrating, stored, faults>>

MarkDone(i) ==
  /\ run[i].pc = "mark"
  /\ importState' = [importState EXCEPT ![run[i].file] = "done"]
  /\ run' = [run EXCEPT ![i] =
                [@ EXCEPT !.pc = "next", !.file = None, !.original = 0,
                          !.imported = TRUE]]
  /\ UNCHANGED <<up, jobs, staged, uploading, assets, originals, receipts,
                 migrating, stored, faults>>

\* importFile returns an error after the pending mark: the deferred function
\* records it, and whatever was written or inserted stays.
FileFails(i) ==
  /\ run[i].pc \in {"hash", "write", "insert", "mark"}
  /\ Fault("file")
  /\ importState' = [importState EXCEPT ![run[i].file] = "error"]
  /\ NextFile(i, TRUE)
  /\ UNCHANGED <<up, jobs, staged, uploading, assets, originals, receipts,
                 migrating, stored>>

\* The file has gone since the walk.  A failing stat comes before the deferred
\* function, so it leaves no state behind.
SourceGone(i) ==
  /\ run[i].dir \notin staged
  /\ \/ /\ run[i].pc = "next"
        /\ \E f \in run[i].todo :
             run' = [run EXCEPT ![i] = [run[i] EXCEPT
                        !.todo = run[i].todo \ {f}, !.errors = TRUE]]
        /\ UNCHANGED importState
     \/ /\ run[i].pc \in {"hash", "write"}
        /\ importState' = [importState EXCEPT ![run[i].file] = "error"]
        /\ NextFile(i, TRUE)
  /\ UNCHANGED <<up, jobs, staged, uploading, assets, originals, receipts,
                 migrating, stored, faults>>

\* The disk has no room for one more original.
DiskFull(i) ==
  /\ run[i].pc = "write"
  /\ \A o \in Original : originals[o] # None
  /\ importState' = [importState EXCEPT ![run[i].file] = "error"]
  /\ NextFile(i, TRUE)
  /\ UNCHANGED <<up, jobs, staged, uploading, assets, originals, receipts,
                 migrating, stored, faults>>

\* The derivative workers run once the files are through; a thumbnail that
\* fails counts as an error of the run.  Returning releases the lock.
FinishRun(i) ==
  /\ run[i].pc = "next"
  /\ run[i].todo = {}
  /\ \E failed \in BOOLEAN :
       /\ IF failed THEN run[i].imported /\ Fault("derivative")
                    ELSE UNCHANGED faults
       /\ run' = [run EXCEPT ![i] =
                    IF i = "cli" THEN Idle
                    ELSE [run[i] EXCEPT !.pc = "finalize",
                                        !.errors = run[i].errors \/ failed]]
  /\ UNCHANGED <<up, jobs, staged, uploading, importState, assets, originals,
                 receipts, migrating, stored>>

\* `kuraki import <dir>`: the same Run, in a process that may be killed.
CliImport(d) ==
  /\ run["cli"].pc = "idle"
  /\ d \in CliDir \cap staged
  /\ run' = [run EXCEPT !["cli"] =
               [Idle EXCEPT !.pc = "next", !.dir = d, !.todo = FilesIn(d)]]
  /\ UNCHANGED <<up, jobs, staged, uploading, importState, assets, originals,
                 receipts, migrating, stored, faults>>

\* Whoever gave the directory takes it away, as Run may find out half way.
RemoveSource(d) ==
  /\ d \in CliDir \cap staged
  /\ staged' = staged \ {d}
  /\ UNCHANGED <<up, jobs, uploading, importState, assets, originals, run,
                 receipts, migrating, stored, faults>>

CliDies ==
  /\ run["cli"].pc # "idle"
  /\ Fault("cli")
  /\ run' = [run EXCEPT !["cli"] = Idle]
  /\ UNCHANGED <<up, jobs, staged, uploading, importState, assets, originals,
                 receipts, migrating, stored>>

-----------------------------------------------------------------------------
(* The worker: claim, process, fail.                                       *)

Runnable(j) == jobs[j].status = "queued" /\ jobs[j].due

Claim(j) ==
  /\ up
  /\ run["worker"].pc = "idle"
  /\ Runnable(j)
  /\ \A k \in Job : Runnable(k) => j <= k
  /\ jobs' = [jobs EXCEPT ![j].status = "running"]
  /\ run' = [run EXCEPT !["worker"] =
               [Idle EXCEPT !.pc = "open", !.job = j, !.dir = jobs[j].source]]
  /\ UNCHANGED <<up, staged, uploading, importState, assets, originals,
                 receipts, migrating, stored, faults>>

\* next_attempt_at has passed.
BackoffElapses(j) ==
  /\ jobs[j].status = "queued"
  /\ ~jobs[j].due
  /\ jobs' = [jobs EXCEPT ![j].due = TRUE]
  /\ UNCHANGED <<up, staged, uploading, importState, assets, originals, run,
                 receipts, migrating, stored, faults>>

\* Run takes the library lock and walks the directory.
OpenRun ==
  LET r == run["worker"] IN
  /\ r.pc = "open"
  /\ r.dir \in staged
  /\ run' = [run EXCEPT !["worker"] =
                [@ EXCEPT !.pc = "next", !.todo = FilesIn(r.dir)]]
  /\ UNCHANGED <<up, jobs, staged, uploading, importState, assets, originals,
                 receipts, migrating, stored, faults>>

\* Wrong: one attempt too many.
FailedRowLate(row) ==
  LET n == row.attempts + 1 IN
  IF n <= MaxAttempts
  THEN [row EXCEPT !.status = "queued", !.attempts = n, !.due = FALSE]
  ELSE [row EXCEPT !.status = "failed", !.attempts = n]

\* fail: back to the queue with a backoff, or failed for good.
FailedRow(row) ==
  LET n == row.attempts + 1 IN
  IF n < MaxAttempts
  THEN [row EXCEPT !.status = "queued", !.attempts = n, !.due = FALSE]
  ELSE [row EXCEPT !.status = "failed", !.attempts = n]

Fail(j) ==
  /\ jobs' = [jobs EXCEPT ![j] = FailedRow(jobs[j])]
  /\ run' = [run EXCEPT !["worker"] = Idle]

\* Wrong: process returns on an error without calling fail.
OpenFailsSilently ==
  /\ run["worker"].pc = "open"
  /\ Fault("open")
  /\ run' = [run EXCEPT !["worker"] = Idle]
  /\ UNCHANGED <<up, jobs, staged, uploading, importState, assets, originals,
                 receipts, migrating, stored>>

\* The directory or the owner is gone, or the walk fails: process calls fail.
OpenFails ==
  /\ run["worker"].pc = "open"
  /\ \/ run["worker"].dir \notin staged /\ UNCHANGED faults
     \/ Fault("open")
  /\ Fail(run["worker"].job)
  /\ UNCHANGED <<up, staged, uploading, importState, assets, originals,
                 receipts, migrating, stored>>

\* Wrong: assets in the trash count.
ReceiptsOfTrashed(d) ==
  [e \in CaptureDir |->
     IF /\ e = d /\ receipts[e] = None
        /\ importState[FileOf(e)] \in {"done", "skipped"}
        /\ HasRow(ContentOf[FileOf(e)])
     THEN ContentOf[FileOf(e)] ELSE receipts[e]]

\* Wrong: a file that was in the library already gets no receipt.
ReceiptsOfNew(d) ==
  [e \in CaptureDir |->
     IF /\ e = d /\ receipts[e] = None
        /\ importState[FileOf(e)] = "done"
        /\ assets[ContentOf[FileOf(e)]].state = "live"
     THEN ContentOf[FileOf(e)] ELSE receipts[e]]

\* Wrong: an attempt replaces the receipt by one for what it imported itself.
ReceiptsOfAttempt(d) ==
  [e \in CaptureDir |->
     IF e # d THEN receipts[e]
     ELSE IF run["worker"].imported THEN ContentOf[FileOf(e)] ELSE None]

\* recordCaptureReceipts: the session of this directory, joined with import_state
\* and the assets that are not in the trash; an earlier receipt is kept.
Receipts(d) ==
  [e \in CaptureDir |->
     IF /\ e = d /\ receipts[e] = None
        /\ importState[FileOf(e)] \in {"done", "skipped"}
        /\ assets[ContentOf[FileOf(e)]].state = "live"
     THEN ContentOf[FileOf(e)] ELSE receipts[e]]

\* Wrong: errors of single files do not count.
FinalizeAll ==
  LET r == run["worker"] IN
  /\ r.pc = "finalize"
  /\ jobs' = [jobs EXCEPT ![r.job].status = "succeeded"]
  /\ receipts' = Receipts(r.dir)
  /\ run' = [run EXCEPT !["worker"].pc = "sweep"]
  /\ UNCHANGED <<up, staged, uploading, importState, assets, originals,
                 migrating, stored, faults>>

\* Wrong: the directory is removed whether or not there were errors.
FinalizeSweeping ==
  LET r == run["worker"] IN
  /\ r.pc = "finalize"
  /\ jobs' = [jobs EXCEPT ![r.job].status =
                IF r.errors THEN "running" ELSE "succeeded"]
  /\ receipts' = Receipts(r.dir)
  /\ staged' = staged \ {r.dir}
  /\ run' = [run EXCEPT !["worker"].pc = IF r.errors THEN "retry" ELSE "sweep"]
  /\ UNCHANGED <<up, uploading, importState, assets, originals, migrating,
                 stored, faults>>

\* The transaction that ends a run: status, counters, job_errors and receipts.
\* A run with errors stays running until fail has been called.
Finalize ==
  LET r == run["worker"] IN
  /\ r.pc = "finalize"
  /\ jobs' = [jobs EXCEPT ![r.job].status =
                IF r.errors THEN "running" ELSE "succeeded"]
  /\ receipts' = Receipts(r.dir)
  /\ run' = [run EXCEPT !["worker"].pc = IF r.errors THEN "retry" ELSE "sweep"]
  /\ UNCHANGED <<up, staged, uploading, importState, assets, originals,
                 migrating, stored, faults>>

\* The worker drops its run, and the row stays as it is until a restart.
Unrecorded(kind) ==
  /\ Fault(kind)
  /\ run' = [run EXCEPT !["worker"] = Idle]
  /\ UNCHANGED <<up, jobs, staged, uploading, importState, assets, originals,
                 receipts, migrating, stored>>

\* The transaction fails: process logs it and returns.
FinalizeFails == run["worker"].pc = "finalize" /\ Unrecorded("finalize")

\* Called with an error, fail ignores one of its own statement.
FailUnrecorded ==
  run["worker"].pc \in {"open", "retry"} /\ Unrecorded("record")

Retry ==
  /\ run["worker"].pc = "retry"
  /\ Fail(run["worker"].job)
  /\ UNCHANGED <<up, staged, uploading, importState, assets, originals,
                 receipts, migrating, stored, faults>>

\* os.RemoveAll of the completed directory; an error is only logged.
Sweep ==
  /\ run["worker"].pc = "sweep"
  /\ \/ staged' = staged \ {run["worker"].dir} /\ UNCHANGED faults
     \/ UNCHANGED staged /\ Fault("sweep")
  /\ run' = [run EXCEPT !["worker"] =
               IF @.imported THEN [@ EXCEPT !.pc = "detect"] ELSE Idle]
  /\ UNCHANGED <<up, jobs, uploading, importState, assets, originals,
                 receipts, migrating, stored>>

\* stacks.Detect and trips.Detect, which touch nothing that is modelled here.
Detect ==
  /\ run["worker"].pc = "detect"
  /\ run' = [run EXCEPT !["worker"] = Idle]
  /\ UNCHANGED <<up, jobs, staged, uploading, importState, assets, originals,
                 receipts, migrating, stored, faults>>

\* Wrong: the panic handler cleans up the staging directory.
PanicSweeping ==
  /\ run["worker"].pc # "idle"
  /\ Fault("panic")
  /\ jobs' = [jobs EXCEPT ![run["worker"].job].status = "failed"]
  /\ staged' = staged \ {run["worker"].dir}
  /\ run' = [run EXCEPT !["worker"] = Idle]
  /\ UNCHANGED <<up, uploading, importState, assets, originals, receipts,
                 migrating, stored>>

\* A panic anywhere below process, after the job has succeeded too: the
\* deferred recover fails the job at once.
Panic ==
  /\ run["worker"].pc # "idle"
  /\ Fault("panic")
  /\ jobs' = [jobs EXCEPT ![run["worker"].job].status = "failed"]
  /\ run' = [run EXCEPT !["worker"] = Idle]
  /\ UNCHANGED <<up, staged, uploading, importState, assets, originals,
                 receipts, migrating, stored>>

\* The statement of that recover fails, which is only logged.
PanicUnrecorded == run["worker"].pc # "idle" /\ Unrecorded("record")

\* The server process dies, or is shut down: a cancelled run leaves its row.
Crash ==
  /\ up
  /\ Fault("crash")
  /\ up' = FALSE
  /\ run' = [run EXCEPT !["worker"] = Idle]
  /\ uploading' = {}
  /\ UNCHANGED <<jobs, staged, importState, assets, originals, receipts,
                 migrating, stored>>

\* Start: running migrations are failed, anything else running is requeued.  A
\* failure of either statement is only logged.
Start ==
  /\ ~up
  /\ up' = TRUE
  /\ \E kinds \in SUBSET {"import", "migration"} :
       /\ IF kinds = {"import", "migration"} THEN UNCHANGED faults
                                             ELSE Fault("recover")
       /\ jobs' = [j \in Job |->
            IF jobs[j].status # "running" THEN jobs[j]
            ELSE IF jobs[j].kind = "migration" /\ "migration" \in kinds
            THEN [jobs[j] EXCEPT !.status = "failed"]
            ELSE IF jobs[j].kind # "migration" /\ "import" \in kinds
            THEN [jobs[j] EXCEPT !.status = "queued"] ELSE jobs[j]]
  /\ UNCHANGED <<staged, uploading, importState, assets, originals, run,
                 receipts, migrating, stored>>

-----------------------------------------------------------------------------
(* The trash, as far as the queue can tell (Library has the whole of it).  *)

TrashAsset(c) ==
  /\ assets[c].state = "live"
  /\ assets' = [assets EXCEPT ![c].state = "trashed"]
  /\ UNCHANGED <<up, jobs, staged, uploading, importState, originals, run,
                 receipts, migrating, stored, faults>>

RestoreAsset(c) ==
  /\ assets[c].state = "trashed"
  /\ assets' = [assets EXCEPT ![c].state = "live"]
  /\ UNCHANGED <<up, jobs, staged, uploading, importState, originals, run,
                 receipts, migrating, stored, faults>>

\* purgeOne holds the exclusive lock, so no importer is in its run.  Receipts
\* of the asset go with it (ON DELETE CASCADE).
PurgeAsset(c) ==
  /\ assets[c].state = "trashed"
  /\ \A i \in Importer : ~Locked(i)
  /\ originals' = [originals EXCEPT ![assets[c].original] = None]
  /\ assets' = [assets EXCEPT ![c] = [state |-> None, original |-> 0]]
  /\ receipts' = [d \in CaptureDir |->
                    IF receipts[d] = c THEN None ELSE receipts[d]]
  /\ UNCHANGED <<up, jobs, staged, uploading, importState, run, migrating,
                 stored, faults>>

-----------------------------------------------------------------------------
Import(i) ==
  \/ \E f \in File : BeginFile(i, f)
  \/ HashFile(i)
  \/ \E o \in Original : WriteOriginal(i, o)
  \/ InsertAsset(i)
  \/ InsertConflict(i)
  \/ MarkDone(i)
  \/ FileFails(i)
  \/ SourceGone(i)
  \/ DiskFull(i)
  \/ FinishRun(i)

Worker ==
  \/ \E j \in Job : Claim(j) \/ BackoffElapses(j)
  \/ OpenRun
  \/ OpenFails
  \/ Finalize
  \/ FinalizeFails
  \/ Retry
  \/ FailUnrecorded
  \/ Sweep
  \/ Detect
  \/ Panic
  \/ PanicUnrecorded
  \/ Crash
  \/ Start

Trash == \E c \in Content : TrashAsset(c) \/ RestoreAsset(c) \/ PurgeAsset(c)

Migration ==
  \/ TrackMigration
  \/ NameMigration
  \/ \E outcome \in {"succeeded", "failed"} : FinishMigration(outcome)
  \/ MigrationDies

Next ==
  \/ \E d \in Dir : StageUpload(d) \/ EnqueueUpload(d) \/ AbortUpload(d)
                    \/ EnqueueCapture(d) \/ CliImport(d)
                    \/ RemoveSource(d)
  \/ \E i \in Importer : Import(i)
  \/ CliDies
  \/ Worker
  \/ Trash
  \/ Migration

Spec == Init /\ [][Next]_vars

\* The worker is one goroutine that never waits on anything it does not get:
\* the library lock is only held for the length of an operation, the ticker
\* fires every three seconds, and the container restarts (unless-stopped).
Fairness ==
  /\ WF_vars(Start)
  /\ \A i \in Importer : WF_vars(Import(i))
  /\ \A j \in Job : WF_vars(BackoffElapses(j)) /\ WF_vars(Claim(j))
  /\ WF_vars(OpenRun) /\ WF_vars(OpenFails) /\ WF_vars(Finalize)
  /\ WF_vars(Retry) /\ WF_vars(Sweep) /\ WF_vars(Detect)

FairSpec == Spec /\ Fairness

-----------------------------------------------------------------------------
(* Safety.                                                                 *)

\* Every row of the assets table, in the trash or not, points at a file under
\* originals/ that holds the content the row was hashed from.  The importer
\* writes the file before the row, and only a purge under the exclusive lock
\* removes it (importFile, purgeOne).
RowHasOriginal ==
  \A c \in Content : HasRow(c) => /\ assets[c].original \in Original
                                  /\ originals[assets[c].original] = c

\* What a job has accepted is never lost: until every file of its directory
\* has become an asset, the directory stays in staging, through failures,
\* retries, panics and crashes (process keeps source until it succeeded).
AcceptedKept ==
  \A j \in Job :
    jobs[j].source \in Dir =>
      jobs[j].source \in staged \/ FilesIn(jobs[j].source) \subseteq stored

\* A job reported as succeeded has imported, or found already imported, every
\* one of its files, whichever attempt dealt with each of them.
SucceededIsComplete ==
  \A j \in Job :
    jobs[j].status = "succeeded" /\ jobs[j].source \in Dir =>
      FilesIn(jobs[j].source) \subseteq stored

\* A capture receipt names an asset that still exists and holds the content of
\* the file its session uploaded (recordCaptureReceipts joins on the hash that
\* import_state recorded for the session's own path; a purge cascades).
ReceiptNamesAsset ==
  \A d \in CaptureDir :
    receipts[d] # None =>
      /\ HasRow(receipts[d])
      /\ \E f \in FilesIn(d) : ContentOf[f] = receipts[d]

\* At the moment a receipt is published the asset is out of the trash and its
\* original is on the disk: the phone may then count the item as backed up.
ReceiptIsPublishedLive ==
  [][\A d \in CaptureDir :
       receipts[d] = None /\ receipts'[d] # None =>
         /\ assets'[receipts'[d]].state = "live"
         /\ originals'[assets'[receipts'[d]].original] = receipts'[d]]_vars

\* The worker never runs a migration row: recovery fails such rows and never
\* requeues them (KindMigration in Start).
WorkerNeverMigrates ==
  /\ run["worker"].job # 0 => jobs[run["worker"].job].kind # "migration"
  /\ \A j \in Job : jobs[j].kind = "migration" => jobs[j].status # "queued"

\* What a panic does to the row of a job whose run has committed its success.
FailsAfterSuccess(j) ==
  /\ run["worker"].job = j /\ run["worker"].pc \in {"sweep", "detect"}
  /\ jobs[j].status = "succeeded"
  /\ jobs'[j] = [jobs[j] EXCEPT !.status = "failed"]

\* A row that has ended is never taken up again: no retry, no recovery and no
\* other job changes it.  A live migration, which recovery took for dead, may
\* still write its own; and a panic in the rest of the very run that succeeded
\* (the sweep, stacks.Detect, trips.Detect) reports the job as failed.
EndedStaysEnded ==
  [][\A j \in Job :
       jobs[j].status \in {"succeeded", "failed"} /\ j # migrating =>
         jobs'[j] = jobs[j] \/ FailsAfterSuccess(j)]_vars

-----------------------------------------------------------------------------
(* Refinement: the queue keeps the promise of Intake.                      *)

Uploaded == {f \in File : DirOf[f] \notin CliDir}

\* Where the server has an uploaded file; "lost" is no state of Intake.
Keeping ==
  [f \in Uploaded |-> IF ~HasJob(DirOf[f]) THEN "outside"
                      ELSE IF f \in stored THEN "stored"
                      ELSE IF DirOf[f] \in staged THEN "staged" ELSE "lost"]

Promise == INSTANCE Intake WITH Item <- Uploaded, keeping <- Keeping

\* Every step of the queue is a step of Intake, or none.
KeepsPromise == Promise!Spec

-----------------------------------------------------------------------------
(* Liveness, and what the documentation says of migrations.                *)

\* Every import that was queued is reported as succeeded or failed in the end.
JobsSettle ==
  \A j \in Job :
    jobs[j].status = "queued" ~> jobs[j].status \in {"succeeded", "failed"}

\* A migration that recovery marked failed can be resumed from the command in
\* its message, which carries the id of the run.
ResumeHintNamesRun ==
  [][\A j \in Job :
       /\ jobs[j].kind = "migration" /\ jobs[j].status = "running"
       /\ jobs'[j].status = "failed" /\ ~up /\ up'
       => jobs'[j].source = "run"]_vars

-----------------------------------------------------------------------------
(* What makes the safety properties inductive: how the jobs table, the     *)
(* importer runs and the files they have dealt with hang together.         *)

JobsOK ==
  \A j \in Job :
    /\ jobs[j].kind = None <=> jobs[j].status = None
    /\ jobs[j].kind \in {"upload", "capture"} =>
         jobs[j].source \in UploadDir \cup CaptureDir
    /\ jobs[j].kind \in {None, "migration"} => jobs[j].source \notin Dir
    /\ jobs[j].kind = "migration" => jobs[j].status # "queued"
    /\ jobs[j].status \in {"queued", "running"} => jobs[j].attempts < MaxAttempts

\* The worker's job is an import, whose row says running until it has succeeded.
WorkerOK ==
  IF run["worker"].pc = "idle" THEN run["worker"].job = 0
  ELSE /\ up
       /\ run["worker"].job \in Job
       /\ jobs[run["worker"].job].kind \in {"upload", "capture"}
       /\ run["worker"].dir = jobs[run["worker"].job].source
       /\ jobs[run["worker"].job].status =
            IF run["worker"].pc \in {"sweep", "detect"} THEN "succeeded"
                                                        ELSE "running"

CliOK == run["cli"].pc # "idle" => run["cli"].dir \in CliDir /\ Locked("cli")

RunsOK ==
  \A i \in Importer :
    /\ run[i].todo \subseteq FilesIn(run[i].dir)
    /\ run[i].pc \in {"hash", "write", "insert", "mark"} =>
         run[i].file \in FilesIn(run[i].dir)

MigrationOK == migrating # 0 => jobs[migrating].kind = "migration"

UploadsOK ==
  /\ uploading \subseteq UploadDir \cap staged
  /\ \A d \in uploading : ~HasJob(d)

Shape ==
  TypeOK /\ JobsOK /\ WorkerOK /\ CliOK /\ RunsOK /\ MigrationOK /\ UploadsOK

\* Between Write and insertAsset the original is there and holds the file.
OriginalWritten ==
  \A i \in Importer :
    run[i].pc = "insert" =>
      /\ run[i].original \in Original
      /\ originals[run[i].original] = ContentOf[run[i].file]

\* The history variable keeps up with the assets table and with import_state.
StoredOK ==
  /\ \A f \in File : HasRow(ContentOf[f]) /\ HasJob(DirOf[f]) => f \in stored
  /\ \A f \in File : /\ importState[f] \in {"done", "skipped"}
                     /\ DirOf[f] \notin CliDir
                     => f \in stored
  /\ run["worker"].pc = "mark" => run["worker"].file \in stored

\* A run that has met no error has stored every file it is done with.
Pending(r) ==
  r.todo \cup IF r.pc \in {"hash", "write", "insert", "mark"} THEN {r.file}
                                                            ELSE {}

RunAccounts ==
  LET r == run["worker"] IN
  /\ r.pc \in {"next", "hash", "write", "insert", "mark"} /\ ~r.errors =>
       FilesIn(r.dir) \subseteq stored \cup Pending(r)
  /\ r.pc = "finalize" /\ ~r.errors => FilesIn(r.dir) \subseteq stored
  /\ r.pc = "sweep" => FilesIn(r.dir) \subseteq stored
=============================================================================
