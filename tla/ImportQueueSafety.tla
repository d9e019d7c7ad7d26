------------------------- MODULE ImportQueueSafety -------------------------
(***************************************************************************)
(* Proofs about the import queue, for every choice of files, directories   *)
(* and bounds: rows have their originals, accepted files are kept until    *)
(* they are stored, a job that succeeded is complete, receipts name        *)
(* assets, and the queue implements Intake.                                *)
(*                                                                         *)
(* The types alone are not inductive: that an attempt stays below          *)
(* MaxAttempts, or that an importer has a file when it marks one, depends  *)
(* on how the jobs table and the importer runs hang together.  Shape says  *)
(* how, and is proved to be inductive, action by action.  A step of a run  *)
(* is described once by RunStep; what it leaves alone follows from that.   *)
(*                                                                         *)
(* On top of Shape the argument has two parts.  Originals: an original is  *)
(* written before its row and removed only under the exclusive lock, when  *)
(* no importer is between the two.  Accounts: every file of a job is       *)
(* staged, in the hands of the worker, or stored, and a run that has met   *)
(* no error has stored whatever it is done with.                           *)
(***************************************************************************)
EXTENDS ImportQueue, TLAPS

Statuses == {None, "queued", "running", "succeeded", "failed"}
States == {None, "pending", "done", "skipped", "error"}
WithFile == {"hash", "write", "insert", "mark"}
InLoop == {"next"} \cup WithFile

-----------------------------------------------------------------------------
(* Records of the model.                                                   *)

\* No run of the importer is a run record too.
LEMMA IdleRun ==
  /\ Idle \in Run
  /\ Idle.pc = "idle" /\ Idle.job = 0 /\ Idle.todo = {} /\ Idle.dir = None
  BY ImportQueueAssumption DEF Idle, Run

\* A capture directory holds one file, which FileOf names.
LEMMA FileOfCapture ==
  ASSUME NEW d \in CaptureDir
  PROVE  FileOf(d) \in File /\ FilesIn(d) = {FileOf(d)}
  BY ImportQueueAssumption DEF FileOf, FilesIn

\* Changing the status of a row keeps it a row.
LEMMA RowWithStatus ==
  ASSUME NEW row \in JobRow, NEW s \in Statuses
  PROVE  [row EXCEPT !.status = s] \in JobRow
  BY DEF JobRow, Statuses

\* An attempt that fails is counted, and the count stays within max_attempts.
LEMMA FailedRowType ==
  ASSUME NEW row \in JobRow, row.attempts < MaxAttempts
  PROVE  /\ FailedRow(row) \in JobRow
         /\ FailedRow(row).kind = row.kind
         /\ FailedRow(row).source = row.source
         /\ FailedRow(row).status \in {"queued", "failed"}
         /\ FailedRow(row).status = "queued" =>
              FailedRow(row).attempts < MaxAttempts
  <1>1. row.attempts + 1 \in 0 .. MaxAttempts
    BY ImportQueueAssumption DEF JobRow
  <1> QED BY <1>1 DEF FailedRow, JobRow

\* Replacing the run of one importer leaves that of the other.
LEMMA RunUpdate ==
  ASSUME TypeOK, NEW i \in Importer, NEW r \in Run,
         run' = [run EXCEPT ![i] = r]
  PROVE  /\ run' \in [Importer -> Run]
         /\ run'[i] = r
         /\ \A k \in Importer \ {i} : run'[k] = run[k]
  BY DEF TypeOK

\* Replacing one row of the jobs table leaves the others.
LEMMA JobUpdate ==
  ASSUME TypeOK, NEW j \in Job, NEW row \in JobRow,
         jobs' = [jobs EXCEPT ![j] = row]
  PROVE  /\ jobs' \in [Job -> JobRow]
         /\ jobs'[j] = row
         /\ \A k \in Job \ {j} : jobs'[k] = jobs[k]
  BY DEF TypeOK

-----------------------------------------------------------------------------
(* A run that stays in the loop over its files.                            *)

RunStep(i) ==
  /\ run' \in [Importer -> Run]
  /\ \A k \in Importer \ {i} : run'[k] = run[k]
  /\ run[i].pc \in InLoop /\ run'[i].pc \in InLoop
  /\ run'[i].job = run[i].job /\ run'[i].dir = run[i].dir
  /\ run'[i].todo \subseteq run[i].todo
  /\ run[i].errors => run'[i].errors
  /\ run'[i].pc \in WithFile => run'[i].file \in FilesIn(run[i].dir)

\* NextFile goes on with the next file, and keeps the errors seen so far.
LEMMA NextFileStep ==
  ASSUME Shape, NEW i \in Importer, NEW failed \in BOOLEAN,
         run[i].pc \in InLoop, NextFile(i, failed)
  PROVE  /\ RunStep(i)
         /\ run'[i].pc = "next" /\ run'[i].todo = run[i].todo
         /\ run'[i].errors = (run[i].errors \/ failed)
  <1> DEFINE r == [run[i] EXCEPT !.pc = "next", !.file = None, !.original = 0,
                                 !.errors = run[i].errors \/ failed]
  <1>1. TypeOK /\ run[i] \in Run
    BY DEF Shape, TypeOK
  <1>2. /\ r \in Run /\ r.pc = "next" /\ r.job = run[i].job
        /\ r.dir = run[i].dir /\ r.todo = run[i].todo
        /\ r.errors = (run[i].errors \/ failed)
    BY <1>1 DEF Run, None
  <1>3. run' = [run EXCEPT ![i] = r]
    BY DEF NextFile
  <1> HIDE DEF r
  <1>4. /\ run' \in [Importer -> Run] /\ run'[i] = r
        /\ \A k \in Importer \ {i} : run'[k] = run[k]
    BY <1>1, <1>2, <1>3, RunUpdate
  <1> QED BY <1>2, <1>4 DEF RunStep, InLoop, WithFile

LEMMA BeginFileStep ==
  ASSUME Shape, NEW i \in Importer, NEW f \in File, BeginFile(i, f)
  PROVE  /\ RunStep(i)
         /\ run[i].pc = "next" /\ f \in run[i].todo
         /\ run'[i].todo = run[i].todo \ {f} /\ run'[i].errors = run[i].errors
         /\ \/ /\ run'[i].pc = "next" /\ importState[f] \in {"done", "skipped"}
               /\ importState' = importState
            \/ /\ run'[i].pc = "hash" /\ run'[i].file = f
               /\ importState' = [importState EXCEPT ![f] = "pending"]
  <1>1. TypeOK /\ run[i] \in Run /\ run[i].pc = "next"
    BY DEF Shape, TypeOK, BeginFile
  <1>2. f \in run[i].todo /\ f \in FilesIn(run[i].dir)
    BY DEF Shape, RunsOK, BeginFile
  <1>3. CASE importState[f] \in {"done", "skipped"}
    <2> DEFINE r == [run[i] EXCEPT !.todo = run[i].todo \ {f}]
    <2>1. /\ r \in Run /\ r.job = run[i].job /\ r.dir = run[i].dir
          /\ r.todo = run[i].todo \ {f} /\ r.errors = run[i].errors
          /\ r.pc = "next"
      BY <1>1 DEF Run
    <2>2. run' = [run EXCEPT ![i] = r] /\ importState' = importState
      BY <1>3 DEF BeginFile
    <2> HIDE DEF r
    <2>3. /\ run' \in [Importer -> Run] /\ run'[i] = r
          /\ \A k \in Importer \ {i} : run'[k] = run[k]
      BY <1>1, <2>1, <2>2, RunUpdate
    <2> QED BY <1>1, <1>2, <1>3, <2>1, <2>2, <2>3 DEF RunStep, InLoop, WithFile
  <1>4. CASE importState[f] \notin {"done", "skipped"}
    <2> DEFINE r == [run[i] EXCEPT !.todo = run[i].todo \ {f},
                                   !.pc = "hash", !.file = f]
    <2>1. /\ r \in Run /\ r.job = run[i].job /\ r.dir = run[i].dir
          /\ r.todo = run[i].todo \ {f} /\ r.errors = run[i].errors
          /\ r.pc = "hash" /\ r.file = f
      BY <1>1 DEF Run
    <2>2. /\ run' = [run EXCEPT ![i] = r]
          /\ importState' = [importState EXCEPT ![f] = "pending"]
      BY <1>4 DEF BeginFile
    <2> HIDE DEF r
    <2>3. /\ run' \in [Importer -> Run] /\ run'[i] = r
          /\ \A k \in Importer \ {i} : run'[k] = run[k]
      BY <1>1, <2>1, <2>2, RunUpdate
    <2> QED BY <1>1, <1>2, <2>1, <2>2, <2>3 DEF RunStep, InLoop, WithFile
  <1> QED BY <1>3, <1>4

\* The current file of a run is one of its directory.
LEMMA CurrentFile ==
  ASSUME Shape, NEW i \in Importer, run[i].pc \in WithFile
  PROVE  /\ run[i].file \in File /\ run[i].file \in FilesIn(run[i].dir)
         /\ ContentOf[run[i].file] \in Content
  BY ImportQueueAssumption DEF Shape, RunsOK, FilesIn, WithFile

LEMMA HashFileStep ==
  ASSUME Shape, NEW i \in Importer, HashFile(i)
  PROVE  /\ RunStep(i) /\ run[i].pc = "hash"
         /\ run'[i].todo = run[i].todo /\ run'[i].errors = run[i].errors
         /\ \/ /\ run'[i].pc = "next" /\ HasRow(ContentOf[run[i].file])
               /\ importState' = [importState EXCEPT ![run[i].file] = "skipped"]
            \/ /\ run'[i].pc = "write" /\ run'[i].file = run[i].file
               /\ importState' = importState
  <1>1. TypeOK /\ run[i] \in Run /\ run[i].pc = "hash"
    BY DEF Shape, TypeOK, HashFile
  <1>2. run[i].pc \in InLoop /\ run[i].file \in FilesIn(run[i].dir)
    BY <1>1, CurrentFile DEF InLoop, WithFile
  <1>3. CASE HasRow(ContentOf[run[i].file])
    <2>1. /\ NextFile(i, FALSE) /\ run[i].errors \in BOOLEAN
          /\ importState' = [importState EXCEPT ![run[i].file] = "skipped"]
      BY <1>1, <1>3 DEF HashFile, Run
    <2> QED BY <1>1, <1>2, <1>3, <2>1, NextFileStep
  <1>4. CASE ~HasRow(ContentOf[run[i].file])
    <2> DEFINE r == [run[i] EXCEPT !.pc = "write"]
    <2>1. /\ r \in Run /\ r.job = run[i].job /\ r.dir = run[i].dir
          /\ r.todo = run[i].todo /\ r.errors = run[i].errors
          /\ r.pc = "write" /\ r.file = run[i].file
      BY <1>1 DEF Run
    <2>2. run' = [run EXCEPT ![i] = r] /\ importState' = importState
      BY <1>4 DEF HashFile
    <2> HIDE DEF r
    <2>3. /\ run' \in [Importer -> Run] /\ run'[i] = r
          /\ \A k \in Importer \ {i} : run'[k] = run[k]
      BY <1>1, <2>1, <2>2, RunUpdate
    <2> QED BY <1>1, <1>2, <2>1, <2>2, <2>3 DEF RunStep, InLoop, WithFile
  <1> QED BY <1>3, <1>4

LEMMA WriteOriginalStep ==
  ASSUME Shape, NEW i \in Importer, NEW o \in Original, WriteOriginal(i, o)
  PROVE  /\ RunStep(i) /\ run[i].pc = "write"
         /\ run'[i].todo = run[i].todo /\ run'[i].errors = run[i].errors
         /\ run'[i].pc = "insert" /\ run'[i].file = run[i].file
         /\ run'[i].original = o
  <1> DEFINE r == [run[i] EXCEPT !.pc = "insert", !.original = o]
  <1>1. TypeOK /\ run[i] \in Run /\ run[i].pc = "write"
    BY DEF Shape, TypeOK, WriteOriginal
  <1>2. /\ r \in Run /\ r.job = run[i].job /\ r.dir = run[i].dir
        /\ r.todo = run[i].todo /\ r.errors = run[i].errors
        /\ r.file = run[i].file /\ r.pc = "insert" /\ r.original = o
    BY <1>1 DEF Run
  <1>3. run' = [run EXCEPT ![i] = r]
    BY DEF WriteOriginal
  <1> HIDE DEF r
  <1>4. /\ run' \in [Importer -> Run] /\ run'[i] = r
        /\ \A k \in Importer \ {i} : run'[k] = run[k]
    BY <1>1, <1>2, <1>3, RunUpdate
  <1>5. run[i].file \in FilesIn(run[i].dir)
    BY <1>1, CurrentFile DEF WithFile
  <1> QED BY <1>1, <1>2, <1>4, <1>5 DEF RunStep, InLoop, WithFile

LEMMA InsertAssetStep ==
  ASSUME Shape, NEW i \in Importer, InsertAsset(i)
  PROVE  /\ RunStep(i) /\ run[i].pc = "insert"
         /\ run'[i].todo = run[i].todo /\ run'[i].errors = run[i].errors
         /\ run'[i].pc = "mark" /\ run'[i].file = run[i].file
  <1> DEFINE r == [run[i] EXCEPT !.pc = "mark"]
  <1>1. TypeOK /\ run[i] \in Run /\ run[i].pc = "insert"
    BY DEF Shape, TypeOK, InsertAsset
  <1>2. /\ r \in Run /\ r.job = run[i].job /\ r.dir = run[i].dir
        /\ r.todo = run[i].todo /\ r.errors = run[i].errors
        /\ r.file = run[i].file /\ r.pc = "mark"
    BY <1>1 DEF Run
  <1>3. run' = [run EXCEPT ![i] = r]
    BY DEF InsertAsset
  <1> HIDE DEF r
  <1>4. /\ run' \in [Importer -> Run] /\ run'[i] = r
        /\ \A k \in Importer \ {i} : run'[k] = run[k]
    BY <1>1, <1>2, <1>3, RunUpdate
  <1>5. run[i].file \in FilesIn(run[i].dir)
    BY <1>1, CurrentFile DEF WithFile
  <1> QED BY <1>1, <1>2, <1>4, <1>5 DEF RunStep, InLoop, WithFile

LEMMA MarkDoneStep ==
  ASSUME Shape, NEW i \in Importer, MarkDone(i)
  PROVE  /\ RunStep(i) /\ run[i].pc = "mark"
         /\ run'[i].todo = run[i].todo /\ run'[i].errors = run[i].errors
         /\ run'[i].pc = "next"
  <1> DEFINE r == [run[i] EXCEPT !.pc = "next", !.file = None, !.original = 0,
                                 !.imported = TRUE]
  <1>1. TypeOK /\ run[i] \in Run /\ run[i].pc = "mark"
    BY DEF Shape, TypeOK, MarkDone
  <1>2. /\ r \in Run /\ r.job = run[i].job /\ r.dir = run[i].dir
        /\ r.todo = run[i].todo /\ r.errors = run[i].errors /\ r.pc = "next"
    BY <1>1 DEF Run, None
  <1>3. run' = [run EXCEPT ![i] = r]
    BY DEF MarkDone
  <1> HIDE DEF r
  <1>4. /\ run' \in [Importer -> Run] /\ run'[i] = r
        /\ \A k \in Importer \ {i} : run'[k] = run[k]
    BY <1>1, <1>2, <1>3, RunUpdate
  <1> QED BY <1>1, <1>2, <1>4 DEF RunStep, InLoop, WithFile

\* What the steps that give up on the current file have in common.
GivesUp(i) ==
  /\ RunStep(i) /\ run'[i].pc = "next" /\ run'[i].errors
  /\ \/ importState' = importState
     \/ /\ run[i].pc \in WithFile
        /\ importState' = [importState EXCEPT ![run[i].file] = "error"]

LEMMA GivesUpNext ==
  ASSUME Shape, NEW i \in Importer, run[i].pc \in WithFile, NextFile(i, TRUE),
         importState' = [importState EXCEPT ![run[i].file] = "error"]
  PROVE  GivesUp(i)
  <1>1. run[i].pc \in InLoop /\ (run[i].errors \/ TRUE)
    BY DEF InLoop
  <1> QED BY <1>1, NextFileStep DEF GivesUp

LEMMA InsertConflictStep ==
  ASSUME Shape, NEW i \in Importer, InsertConflict(i)
  PROVE  GivesUp(i)
  BY GivesUpNext DEF InsertConflict, WithFile

LEMMA FileFailsStep ==
  ASSUME Shape, NEW i \in Importer, FileFails(i)
  PROVE  GivesUp(i)
  BY GivesUpNext DEF FileFails, WithFile

LEMMA DiskFullStep ==
  ASSUME Shape, NEW i \in Importer, DiskFull(i)
  PROVE  GivesUp(i)
  BY GivesUpNext DEF DiskFull, WithFile

LEMMA SourceGoneStep ==
  ASSUME Shape, NEW i \in Importer, SourceGone(i)
  PROVE  GivesUp(i)
  <1>1. TypeOK /\ run[i] \in Run
    BY DEF Shape, TypeOK
  <1>2. CASE run[i].pc \in {"hash", "write"}
    <2>1. /\ NextFile(i, TRUE) /\ run[i].pc \in WithFile
          /\ importState' = [importState EXCEPT ![run[i].file] = "error"]
      BY <1>2 DEF SourceGone, WithFile
    <2> QED BY <2>1, GivesUpNext
  <1>3. CASE run[i].pc = "next"
    <2>1. PICK f \in run[i].todo :
            run' = [run EXCEPT ![i] = [run[i] EXCEPT
                      !.todo = run[i].todo \ {f}, !.errors = TRUE]]
      BY <1>3 DEF SourceGone
    <2> DEFINE r == [run[i] EXCEPT !.todo = run[i].todo \ {f}, !.errors = TRUE]
    <2>2. /\ r \in Run /\ r.job = run[i].job /\ r.dir = run[i].dir
          /\ r.todo \subseteq run[i].todo /\ r.errors /\ r.pc = "next"
      BY <1>1, <1>3 DEF Run
    <2>3. run' = [run EXCEPT ![i] = r] /\ importState' = importState
      BY <1>3, <2>1 DEF SourceGone
    <2> HIDE DEF r
    <2>4. /\ run' \in [Importer -> Run] /\ run'[i] = r
          /\ \A k \in Importer \ {i} : run'[k] = run[k]
      BY <1>1, <2>2, <2>3, RunUpdate
    <2> QED BY <1>3, <2>2, <2>3, <2>4 DEF GivesUp, RunStep, InLoop, WithFile
  <1> QED BY <1>2, <1>3 DEF SourceGone

\* A step in the loop keeps everything of Shape but the types.
LEMMA LoopShape ==
  ASSUME Shape, NEW i \in Importer, RunStep(i),
         UNCHANGED <<up, jobs, staged, uploading, migrating>>
  PROVE  JobsOK' /\ WorkerOK' /\ CliOK' /\ RunsOK' /\ MigrationOK' /\ UploadsOK'
  <1>1. JobsOK' /\ MigrationOK' /\ UploadsOK'
    BY DEF Shape, JobsOK, MigrationOK, UploadsOK, HasJob
  <1>2. WorkerOK'
    BY DEF Shape, WorkerOK, RunStep, InLoop, WithFile, Importer
  <1>3. CliOK'
    BY DEF Shape, CliOK, Locked, RunStep, InLoop, WithFile, Importer
  <1>4. RunsOK'
    BY DEF Shape, RunsOK, RunStep, WithFile, Importer
  <1> QED BY <1>1, <1>2, <1>3, <1>4

-----------------------------------------------------------------------------
(* Shape is kept by the steps of an importer.                              *)

LEMMA BeginFileShape ==
  ASSUME Shape, NEW i \in Importer, NEW f \in File, BeginFile(i, f)
  PROVE  Shape'
  <1>1. RunStep(i)
    BY BeginFileStep
  <1>2. importState' \in [File -> States]
    BY DEF Shape, TypeOK, BeginFile, States
  <1>3. TypeOK'
    BY <1>1, <1>2 DEF Shape, TypeOK, BeginFile, RunStep, States
  <1>4. UNCHANGED <<up, jobs, staged, uploading, migrating>>
    BY DEF BeginFile
  <1> QED BY <1>1, <1>3, <1>4, LoopShape DEF Shape

LEMMA HashFileShape ==
  ASSUME Shape, NEW i \in Importer, HashFile(i)
  PROVE  Shape'
  <1>1. RunStep(i)
    BY HashFileStep
  <1>2. importState' \in [File -> States]
    BY HashFileStep DEF Shape, TypeOK, States
  <1>3. TypeOK'
    BY <1>1, <1>2 DEF Shape, TypeOK, HashFile, RunStep, States
  <1>4. UNCHANGED <<up, jobs, staged, uploading, migrating>>
    BY DEF HashFile
  <1> QED BY <1>1, <1>3, <1>4, LoopShape DEF Shape

LEMMA WriteOriginalShape ==
  ASSUME Shape, NEW i \in Importer, NEW o \in Original, WriteOriginal(i, o)
  PROVE  Shape'
  <1>1. RunStep(i) /\ run[i].pc \in WithFile
    BY WriteOriginalStep DEF WithFile
  <1>2. originals' \in [Original -> Content \cup {None}]
    BY <1>1, CurrentFile DEF Shape, TypeOK, WriteOriginal
  <1>3. TypeOK'
    BY <1>1, <1>2 DEF Shape, TypeOK, WriteOriginal, RunStep
  <1>4. UNCHANGED <<up, jobs, staged, uploading, migrating>>
    BY DEF WriteOriginal
  <1> QED BY <1>1, <1>3, <1>4, LoopShape DEF Shape

LEMMA InsertAssetShape ==
  ASSUME Shape, NEW i \in Importer, InsertAsset(i)
  PROVE  Shape'
  <1>1. RunStep(i) /\ run[i].pc \in WithFile
    BY InsertAssetStep DEF WithFile
  <1>2. run[i].original \in Original \cup {0}
    BY DEF Shape, TypeOK, Run
  <1>3. assets' \in [Content -> AssetRow]
    <2>1. [state |-> "live", original |-> run[i].original] \in AssetRow
      BY <1>2 DEF AssetRow
    <2> QED BY <1>1, <2>1, CurrentFile DEF Shape, TypeOK, InsertAsset
  <1>4. stored' \subseteq File
    BY DEF Shape, TypeOK, InsertAsset
  <1>5. TypeOK'
    BY <1>1, <1>3, <1>4 DEF Shape, TypeOK, InsertAsset, RunStep
  <1>6. UNCHANGED <<up, jobs, staged, uploading, migrating>>
    BY DEF InsertAsset
  <1> QED BY <1>1, <1>5, <1>6, LoopShape DEF Shape

LEMMA MarkDoneShape ==
  ASSUME Shape, NEW i \in Importer, MarkDone(i)
  PROVE  Shape'
  <1>1. RunStep(i) /\ run[i].pc \in WithFile
    BY MarkDoneStep DEF WithFile
  <1>2. importState' \in [File -> States]
    BY <1>1, CurrentFile DEF Shape, TypeOK, MarkDone, States
  <1>3. TypeOK'
    BY <1>1, <1>2 DEF Shape, TypeOK, MarkDone, RunStep, States
  <1>4. UNCHANGED <<up, jobs, staged, uploading, migrating>>
    BY DEF MarkDone
  <1> QED BY <1>1, <1>3, <1>4, LoopShape DEF Shape

\* The four ways of giving up on a file.
LEMMA GivesUpShape ==
  ASSUME Shape, NEW i \in Importer,
         InsertConflict(i) \/ FileFails(i) \/ DiskFull(i) \/ SourceGone(i)
  PROVE  Shape'
  <1>1. GivesUp(i) /\ RunStep(i)
    BY InsertConflictStep, FileFailsStep, DiskFullStep, SourceGoneStep
       DEF GivesUp
  <1>2. importState' \in [File -> States]
    BY <1>1, CurrentFile DEF Shape, TypeOK, GivesUp, States
  <1>3. UNCHANGED <<up, jobs, staged, uploading, assets, originals, receipts,
                    migrating, stored>>
    BY DEF InsertConflict, FileFails, DiskFull, SourceGone
  <1>4. faults' \in 0 .. MaxFaults
    <2>1. FileFails(i) \/ faults' = faults
      BY DEF InsertConflict, DiskFull, SourceGone
    <2>2. faults' = faults \/ (faults < MaxFaults /\ faults' = faults + 1)
      BY <2>1 DEF FileFails, Fault
    <2> QED BY <2>2, ImportQueueAssumption DEF Shape, TypeOK
  <1>5. TypeOK'
    BY <1>1, <1>2, <1>3, <1>4 DEF Shape, TypeOK, RunStep, States
  <1> QED BY <1>1, <1>3, <1>5, LoopShape DEF Shape

\* A fault leaves the budget within its bound.
LEMMA FaultType ==
  ASSUME TypeOK, NEW kind, Fault(kind)
  PROVE  faults' \in 0 .. MaxFaults
  BY ImportQueueAssumption DEF TypeOK, Fault

\* A run that has ended, or has gone through its files.
LEMMA FinishRunStep ==
  ASSUME Shape, NEW i \in Importer, FinishRun(i)
  PROVE  /\ run' \in [Importer -> Run]
         /\ \A k \in Importer \ {i} : run'[k] = run[k]
         /\ run[i].pc = "next" /\ run[i].todo = {}
         /\ i = "cli" => run'[i] = Idle
         /\ i = "worker" =>
              /\ run'[i].job = run[i].job /\ run'[i].dir = run[i].dir
              /\ run'[i].todo = run[i].todo /\ run'[i].pc = "finalize"
              /\ run[i].errors => run'[i].errors
  <1>1. PICK failed \in BOOLEAN :
          run' = [run EXCEPT ![i] =
                    IF i = "cli" THEN Idle
                    ELSE [run[i] EXCEPT !.pc = "finalize",
                                        !.errors = run[i].errors \/ failed]]
    BY DEF FinishRun
  <1>2. TypeOK /\ run[i] \in Run /\ run[i].pc = "next" /\ run[i].todo = {}
    BY DEF Shape, TypeOK, FinishRun
  <1>3. CASE i = "cli"
    <2>1. run' = [run EXCEPT ![i] = Idle]
      BY <1>1, <1>3
    <2> QED BY <1>2, <1>3, <2>1, IdleRun, RunUpdate
  <1>4. CASE i = "worker"
    <2> DEFINE r == [run[i] EXCEPT !.pc = "finalize",
                                   !.errors = run[i].errors \/ failed]
    <2>1. /\ r \in Run /\ r.job = run[i].job /\ r.dir = run[i].dir
          /\ r.todo = run[i].todo /\ r.pc = "finalize"
          /\ run[i].errors => r.errors
      BY <1>2 DEF Run
    <2>2. run' = [run EXCEPT ![i] = r]
      BY <1>1, <1>4
    <2> HIDE DEF r
    <2>3. /\ run' \in [Importer -> Run] /\ run'[i] = r
          /\ \A k \in Importer \ {i} : run'[k] = run[k]
      BY <1>2, <2>1, <2>2, RunUpdate
    <2> QED BY <1>2, <1>4, <2>1, <2>3
  <1> QED BY <1>3, <1>4 DEF Importer

LEMMA FinishRunShape ==
  ASSUME Shape, NEW i \in Importer, FinishRun(i)
  PROVE  Shape'
  <1>1. UNCHANGED <<up, jobs, staged, uploading, importState, assets,
                    originals, receipts, migrating, stored>>
    BY DEF FinishRun
  <1>2. faults' \in 0 .. MaxFaults
    <2>1. faults' = faults \/ Fault("derivative")
      BY DEF FinishRun
    <2> QED BY <2>1, FaultType DEF Shape, TypeOK
  <1>3. TypeOK'
    BY <1>1, <1>2, FinishRunStep DEF Shape, TypeOK
  <1>4. JobsOK' /\ MigrationOK' /\ UploadsOK'
    BY <1>1 DEF Shape, JobsOK, MigrationOK, UploadsOK, HasJob
  <1>5. WorkerOK'
    BY <1>1, FinishRunStep DEF Shape, WorkerOK, Importer
  <1>6. CliOK'
    BY <1>1, FinishRunStep, IdleRun DEF Shape, CliOK, Locked, Importer
  <1>7. RunsOK'
    BY <1>1, FinishRunStep, IdleRun DEF Shape, RunsOK, Importer
  <1> QED BY <1>3, <1>4, <1>5, <1>6, <1>7 DEF Shape

-----------------------------------------------------------------------------
(* Shape is kept by the worker and by `kuraki import`.                     *)

\* A change to the row of one import that leaves its kind and its directory.
JobStep(j) ==
  /\ jobs' \in [Job -> JobRow]
  /\ \A k \in Job \ {j} : jobs'[k] = jobs[k]
  /\ jobs[j].kind \in {"upload", "capture"}
  /\ jobs'[j].kind = jobs[j].kind /\ jobs'[j].source = jobs[j].source
  /\ jobs'[j].status # None
  /\ jobs'[j].status \in {"queued", "running"} => jobs'[j].attempts < MaxAttempts

LEMMA JobStepShape ==
  ASSUME Shape, NEW j \in Job, JobStep(j),
         UNCHANGED <<staged, uploading, migrating>>
  PROVE  JobsOK' /\ MigrationOK' /\ UploadsOK'
  <1>1. JobsOK'
    BY DEF Shape, JobsOK, JobStep, None
  <1>2. MigrationOK'
    BY DEF Shape, TypeOK, MigrationOK, JobStep
  <1>3. UploadsOK'
    BY DEF Shape, UploadsOK, HasJob, JobStep
  <1> QED BY <1>1, <1>2, <1>3

\* The job of the worker is an import that has attempts left until it ended.
LEMMA WorkerJob ==
  ASSUME Shape, run["worker"].pc # "idle"
  PROVE  /\ up /\ run["worker"].job \in Job
         /\ jobs[run["worker"].job] \in JobRow
         /\ jobs[run["worker"].job].kind \in {"upload", "capture"}
         /\ run["worker"].dir = jobs[run["worker"].job].source
         /\ run["worker"].dir \in UploadDir \cup CaptureDir
         /\ IF run["worker"].pc \in {"sweep", "detect"}
            THEN jobs[run["worker"].job].status = "succeeded"
            ELSE /\ jobs[run["worker"].job].status = "running"
                 /\ jobs[run["worker"].job].attempts < MaxAttempts
  BY DEF Shape, TypeOK, WorkerOK, JobsOK

\* The worker drops its run.
LEMMA WorkerStops ==
  ASSUME Shape, run' = [run EXCEPT !["worker"] = Idle]
  PROVE  /\ run' \in [Importer -> Run]
         /\ run'["worker"] = Idle /\ run'["cli"] = run["cli"]
         /\ WorkerOK' /\ CliOK' /\ RunsOK'
  <1>1. /\ run' \in [Importer -> Run]
        /\ run'["worker"] = Idle /\ run'["cli"] = run["cli"]
    BY IdleRun, RunUpdate DEF Shape, Importer
  <1>2. WorkerOK'
    BY <1>1, IdleRun DEF WorkerOK
  <1>3. CliOK'
    BY <1>1 DEF Shape, CliOK, Locked
  <1>4. RunsOK'
    BY <1>1, IdleRun DEF Shape, RunsOK, Importer
  <1> QED BY <1>1, <1>2, <1>3, <1>4

LEMMA CliImportShape ==
  ASSUME Shape, NEW d \in Dir, CliImport(d)
  PROVE  Shape'
  <1> DEFINE r == [Idle EXCEPT !.pc = "next", !.dir = d, !.todo = FilesIn(d)]
  <1>1. r \in Run /\ r.pc = "next" /\ r.dir = d /\ r.todo = FilesIn(d)
    BY DEF Idle, Run, FilesIn
  <1>2. run' = [run EXCEPT !["cli"] = r] /\ d \in CliDir
    BY DEF CliImport
  <1> HIDE DEF r
  <1>3. /\ run' \in [Importer -> Run]
        /\ run'["cli"] = r /\ run'["worker"] = run["worker"]
    BY <1>1, <1>2, RunUpdate DEF Shape, Importer
  <1>4. UNCHANGED <<up, jobs, staged, uploading, importState, assets,
                    originals, receipts, migrating, stored, faults>>
    BY DEF CliImport
  <1>5. TypeOK'
    BY <1>3, <1>4 DEF Shape, TypeOK
  <1>6. JobsOK' /\ MigrationOK' /\ UploadsOK'
    BY <1>4 DEF Shape, JobsOK, MigrationOK, UploadsOK, HasJob
  <1>7. WorkerOK'
    BY <1>3, <1>4 DEF Shape, WorkerOK
  <1>8. CliOK' /\ RunsOK'
    BY <1>1, <1>2, <1>3 DEF Shape, CliOK, RunsOK, Locked, Importer
  <1> QED BY <1>5, <1>6, <1>7, <1>8 DEF Shape

LEMMA CliDiesShape ==
  ASSUME Shape, CliDies
  PROVE  Shape'
  <1>1. /\ run' \in [Importer -> Run]
        /\ run'["cli"] = Idle /\ run'["worker"] = run["worker"]
    BY IdleRun, RunUpdate DEF Shape, CliDies, Importer
  <1>2. UNCHANGED <<up, jobs, staged, uploading, importState, assets,
                    originals, receipts, migrating, stored>>
    BY DEF CliDies
  <1>3. TypeOK'
    BY <1>1, <1>2, FaultType DEF Shape, TypeOK, CliDies
  <1>4. JobsOK' /\ MigrationOK' /\ UploadsOK'
    BY <1>2 DEF Shape, JobsOK, MigrationOK, UploadsOK, HasJob
  <1>5. WorkerOK'
    BY <1>1, <1>2 DEF Shape, WorkerOK
  <1>6. CliOK' /\ RunsOK'
    BY <1>1, IdleRun DEF Shape, CliOK, RunsOK, Locked, Importer
  <1> QED BY <1>3, <1>4, <1>5, <1>6 DEF Shape

\* What Claim does to the row and to the run.
LEMMA ClaimStep ==
  ASSUME Shape, NEW j \in Job, Claim(j)
  PROVE  /\ JobStep(j) /\ jobs[j].status = "queued"
         /\ jobs'[j].status = "running"
         /\ run' \in [Importer -> Run] /\ run'["cli"] = run["cli"]
         /\ run["worker"].pc = "idle"
         /\ run'["worker"].pc = "open" /\ run'["worker"].job = j
         /\ run'["worker"].dir = jobs[j].source /\ run'["worker"].todo = {}
  <1>1. jobs[j] \in JobRow /\ jobs[j].status = "queued" /\ jobs[j].kind # None
    BY DEF Shape, TypeOK, JobsOK, Claim, Runnable, None
  <1>2. /\ jobs[j].kind \in {"upload", "capture"} /\ jobs[j].source \in Dir
        /\ jobs[j].attempts < MaxAttempts
    BY <1>1, ImportQueueAssumption DEF Shape, JobsOK, JobRow, UploadDir
  <1>3. JobStep(j) /\ jobs'[j].status = "running"
    <2> DEFINE row == [jobs[j] EXCEPT !.status = "running"]
    <2>1. /\ row \in JobRow /\ row.status = "running"
          /\ row.kind = jobs[j].kind /\ row.source = jobs[j].source
          /\ row.attempts = jobs[j].attempts
      BY <1>1 DEF JobRow
    <2>2. jobs' = [jobs EXCEPT ![j] = row]
      BY DEF Claim
    <2> HIDE DEF row
    <2>3. /\ jobs' \in [Job -> JobRow] /\ jobs'[j] = row
          /\ \A k \in Job \ {j} : jobs'[k] = jobs[k]
      BY <2>1, <2>2, JobUpdate DEF Shape
    <2> QED BY <1>2, <2>1, <2>3 DEF JobStep, None
  <1>4. /\ run' \in [Importer -> Run] /\ run'["cli"] = run["cli"]
        /\ run'["worker"].pc = "open" /\ run'["worker"].job = j
        /\ run'["worker"].dir = jobs[j].source /\ run'["worker"].todo = {}
    <2> DEFINE r == [Idle EXCEPT !.pc = "open", !.job = j,
                                 !.dir = jobs[j].source]
    <2>1. /\ r \in Run /\ r.pc = "open" /\ r.job = j
          /\ r.dir = jobs[j].source /\ r.todo = {}
      BY <1>2 DEF Idle, Run
    <2>2. run' = [run EXCEPT !["worker"] = r]
      BY DEF Claim
    <2> HIDE DEF r
    <2> QED BY <2>1, <2>2, RunUpdate DEF Shape, Importer
  <1> QED BY <1>1, <1>3, <1>4 DEF Claim

LEMMA ClaimShape ==
  ASSUME Shape, NEW j \in Job, Claim(j)
  PROVE  Shape'
  <1>1. UNCHANGED <<up, staged, uploading, importState, assets, originals,
                    receipts, migrating, stored, faults>>
    BY DEF Claim
  <1>2. TypeOK'
    BY <1>1, ClaimStep DEF Shape, TypeOK, JobStep
  <1>3. JobsOK' /\ MigrationOK' /\ UploadsOK'
    BY <1>1, ClaimStep, JobStepShape
  <1>4. WorkerOK'
    <2>1. up'
      BY <1>1 DEF Claim
    <2>2. /\ jobs'[j].kind \in {"upload", "capture"}
          /\ jobs'[j].source = jobs[j].source
      BY ClaimStep DEF JobStep
    <2> QED BY <2>1, <2>2, ClaimStep DEF WorkerOK
  <1>5. CliOK' /\ RunsOK'
    BY ClaimStep DEF Shape, CliOK, RunsOK, Locked, Importer
  <1> QED BY <1>2, <1>3, <1>4, <1>5 DEF Shape

\* BackoffElapses touches nothing but the due time.
LEMMA BackoffStep ==
  ASSUME Shape, NEW j \in Job, BackoffElapses(j)
  PROVE  /\ JobStep(j) /\ jobs[j].status = "queued"
         /\ jobs'[j].status = "queued"
  <1> DEFINE row == [jobs[j] EXCEPT !.due = TRUE]
  <1>1. jobs[j] \in JobRow /\ jobs[j].status = "queued"
    BY DEF Shape, TypeOK, BackoffElapses
  <1>2. jobs[j].kind \in {"upload", "capture"} /\ jobs[j].attempts < MaxAttempts
    BY <1>1 DEF Shape, JobsOK, JobRow, None
  <1>3. /\ row \in JobRow /\ row.status = "queued" /\ row.kind = jobs[j].kind
        /\ row.source = jobs[j].source /\ row.attempts = jobs[j].attempts
    BY <1>1 DEF JobRow
  <1>4. jobs' = [jobs EXCEPT ![j] = row]
    BY DEF BackoffElapses
  <1> HIDE DEF row
  <1>5. /\ jobs' \in [Job -> JobRow] /\ jobs'[j] = row
        /\ \A k \in Job \ {j} : jobs'[k] = jobs[k]
    BY <1>3, <1>4, JobUpdate DEF Shape
  <1> QED BY <1>1, <1>2, <1>3, <1>5 DEF JobStep, None

LEMMA BackoffElapsesShape ==
  ASSUME Shape, NEW j \in Job, BackoffElapses(j)
  PROVE  Shape'
  <1>1. UNCHANGED <<up, staged, uploading, importState, assets, originals,
                    run, receipts, migrating, stored, faults>>
    BY DEF BackoffElapses
  <1>2. TypeOK'
    BY <1>1, BackoffStep DEF Shape, TypeOK, JobStep
  <1>3. JobsOK' /\ MigrationOK' /\ UploadsOK'
    BY <1>1, BackoffStep, JobStepShape
  <1>4. WorkerOK'
    BY <1>1, BackoffStep DEF Shape, WorkerOK, JobStep
  <1>5. CliOK' /\ RunsOK'
    BY <1>1 DEF Shape, CliOK, RunsOK, Locked
  <1> QED BY <1>2, <1>3, <1>4, <1>5 DEF Shape

LEMMA OpenRunStep ==
  ASSUME Shape, OpenRun
  PROVE  /\ run' \in [Importer -> Run] /\ run'["cli"] = run["cli"]
         /\ run["worker"].pc = "open" /\ run'["worker"].pc = "next"
         /\ run'["worker"].job = run["worker"].job
         /\ run'["worker"].dir = run["worker"].dir
         /\ run'["worker"].todo = FilesIn(run["worker"].dir)
  <1> DEFINE r == [run["worker"] EXCEPT !.pc = "next",
                                        !.todo = FilesIn(run["worker"].dir)]
  <1>1. TypeOK /\ run["worker"] \in Run /\ run["worker"].pc = "open"
    BY DEF Shape, TypeOK, Importer, OpenRun
  <1>2. /\ r \in Run /\ r.job = run["worker"].job /\ r.dir = run["worker"].dir
        /\ r.todo = FilesIn(run["worker"].dir) /\ r.pc = "next"
    BY <1>1 DEF Run, FilesIn
  <1>3. run' = [run EXCEPT !["worker"] = r]
    BY DEF OpenRun
  <1> HIDE DEF r
  <1> QED BY <1>1, <1>2, <1>3, RunUpdate DEF Importer

LEMMA OpenRunShape ==
  ASSUME Shape, OpenRun
  PROVE  Shape'
  <1>1. UNCHANGED <<up, jobs, staged, uploading, importState, assets,
                    originals, receipts, migrating, stored, faults>>
    BY DEF OpenRun
  <1>2. TypeOK'
    BY <1>1, OpenRunStep DEF Shape, TypeOK
  <1>3. JobsOK' /\ MigrationOK' /\ UploadsOK'
    BY <1>1 DEF Shape, JobsOK, MigrationOK, UploadsOK, HasJob
  <1>4. WorkerOK'
    BY <1>1, OpenRunStep DEF Shape, WorkerOK
  <1>5. CliOK' /\ RunsOK'
    BY OpenRunStep DEF Shape, CliOK, RunsOK, Locked, Importer
  <1> QED BY <1>2, <1>3, <1>4, <1>5 DEF Shape

\* fail: the attempt is counted and the worker is free again.
LEMMA FailStep ==
  ASSUME Shape, run["worker"].pc \notin {"idle", "sweep", "detect"},
         Fail(run["worker"].job)
  PROVE  /\ JobStep(run["worker"].job)
         /\ jobs'[run["worker"].job].status \in {"queued", "failed"}
         /\ run' = [run EXCEPT !["worker"] = Idle]
  <1> DEFINE j == run["worker"].job
             row == FailedRow(jobs[j])
  <1>1. /\ j \in Job /\ jobs[j] \in JobRow /\ jobs[j].attempts < MaxAttempts
        /\ jobs[j].kind \in {"upload", "capture"}
    BY WorkerJob
  <1>2. /\ row \in JobRow /\ row.kind = jobs[j].kind
        /\ row.source = jobs[j].source /\ row.status \in {"queued", "failed"}
        /\ row.status = "queued" => row.attempts < MaxAttempts
    BY <1>1, FailedRowType
  <1>3. jobs' = [jobs EXCEPT ![j] = row] /\ run' = [run EXCEPT !["worker"] = Idle]
    BY DEF Fail
  <1> HIDE DEF row, j
  <1>4. /\ jobs' \in [Job -> JobRow] /\ jobs'[j] = row
        /\ \A k \in Job \ {j} : jobs'[k] = jobs[k]
    BY <1>1, <1>2, <1>3, JobUpdate DEF Shape
  <1>5. JobStep(j) /\ jobs'[j].status \in {"queued", "failed"}
    BY <1>1, <1>2, <1>4 DEF JobStep, None
  <1> QED BY <1>3, <1>5 DEF j

LEMMA OpenFailsShape ==
  ASSUME Shape, OpenFails
  PROVE  Shape'
  <1>1. UNCHANGED <<up, staged, uploading, importState, assets, originals,
                    receipts, migrating, stored>>
    BY DEF OpenFails
  <1>2. /\ run["worker"].job \in Job /\ JobStep(run["worker"].job)
        /\ run' = [run EXCEPT !["worker"] = Idle]
    BY WorkerJob, FailStep DEF OpenFails
  <1>3. faults' \in 0 .. MaxFaults
    <2>1. faults' = faults \/ Fault("open")
      BY DEF OpenFails
    <2> QED BY <2>1, FaultType DEF Shape, TypeOK
  <1>4. TypeOK'
    BY <1>1, <1>2, <1>3, WorkerStops DEF Shape, TypeOK, JobStep
  <1> QED BY <1>1, <1>2, <1>4, JobStepShape, WorkerStops DEF Shape

LEMMA RetryShape ==
  ASSUME Shape, Retry
  PROVE  Shape'
  <1>1. UNCHANGED <<up, staged, uploading, importState, assets, originals,
                    receipts, migrating, stored, faults>>
    BY DEF Retry
  <1>2. /\ run["worker"].job \in Job /\ JobStep(run["worker"].job)
        /\ run' = [run EXCEPT !["worker"] = Idle]
    BY WorkerJob, FailStep DEF Retry
  <1>3. TypeOK'
    BY <1>1, <1>2, WorkerStops DEF Shape, TypeOK, JobStep
  <1> QED BY <1>1, <1>2, <1>3, JobStepShape, WorkerStops DEF Shape

\* Finalize sets the status of the worker's job by the errors of its run.
LEMMA FinalizeStep ==
  ASSUME Shape, Finalize
  PROVE  /\ JobStep(run["worker"].job)
         /\ run["worker"].pc = "finalize"
         /\ run' \in [Importer -> Run] /\ run'["cli"] = run["cli"]
         /\ run'["worker"].job = run["worker"].job
         /\ run'["worker"].dir = run["worker"].dir
         /\ run'["worker"].todo = run["worker"].todo
         /\ IF run["worker"].errors
            THEN /\ jobs'[run["worker"].job].status = "running"
                 /\ run'["worker"].pc = "retry"
            ELSE /\ jobs'[run["worker"].job].status = "succeeded"
                 /\ run'["worker"].pc = "sweep"
  <1> DEFINE j == run["worker"].job
             s == IF run["worker"].errors THEN "running" ELSE "succeeded"
             p == IF run["worker"].errors THEN "retry" ELSE "sweep"
             row == [jobs[j] EXCEPT !.status = s]
             r == [run["worker"] EXCEPT !.pc = p]
  <1>1. /\ j \in Job /\ jobs[j] \in JobRow /\ jobs[j].attempts < MaxAttempts
        /\ jobs[j].kind \in {"upload", "capture"}
        /\ run["worker"] \in Run /\ run["worker"].pc = "finalize"
    BY WorkerJob DEF Shape, TypeOK, Importer, Finalize
  <1>2. /\ row \in JobRow /\ row.kind = jobs[j].kind /\ row.status = s
        /\ row.source = jobs[j].source /\ row.attempts = jobs[j].attempts
    BY <1>1 DEF JobRow
  <1>3. /\ r \in Run /\ r.pc = p /\ r.job = j /\ r.dir = run["worker"].dir
        /\ r.todo = run["worker"].todo
    BY <1>1 DEF Run
  <1>4. jobs' = [jobs EXCEPT ![j] = row] /\ run' = [run EXCEPT !["worker"] = r]
    BY DEF Finalize
  <1> HIDE DEF row, r
  <1>5. /\ jobs' \in [Job -> JobRow] /\ jobs'[j] = row
        /\ \A k \in Job \ {j} : jobs'[k] = jobs[k]
    BY <1>1, <1>2, <1>4, JobUpdate DEF Shape
  <1>6. /\ run' \in [Importer -> Run] /\ run'["worker"] = r
        /\ run'["cli"] = run["cli"]
    BY <1>3, <1>4, RunUpdate DEF Shape, Importer
  <1>7. JobStep(j)
    BY <1>1, <1>2, <1>5 DEF JobStep, None
  <1> QED BY <1>1, <1>2, <1>3, <1>5, <1>6, <1>7

LEMMA FinalizeShape ==
  ASSUME Shape, Finalize
  PROVE  Shape'
  <1>1. UNCHANGED <<up, staged, uploading, importState, assets, originals,
                    migrating, stored, faults>>
    BY DEF Finalize
  <1>2. run["worker"].job \in Job
    BY FinalizeStep, WorkerJob
  <1>3. receipts' \in [CaptureDir -> Content \cup {None}]
    <2>1. \A e \in CaptureDir : ContentOf[FileOf(e)] \in Content
      BY FileOfCapture, ImportQueueAssumption
    <2> QED BY <2>1 DEF Shape, TypeOK, Finalize, Receipts
  <1>4. TypeOK'
    BY <1>1, <1>3, FinalizeStep DEF Shape, TypeOK, JobStep
  <1>5. JobsOK' /\ MigrationOK' /\ UploadsOK'
    BY <1>1, <1>2, FinalizeStep, JobStepShape
  <1>6. WorkerOK'
    BY <1>1, <1>2, FinalizeStep, WorkerJob DEF WorkerOK, JobStep
  <1>7. CliOK' /\ RunsOK'
    BY FinalizeStep DEF Shape, CliOK, RunsOK, Locked, Importer
  <1> QED BY <1>4, <1>5, <1>6, <1>7 DEF Shape

\* Nothing changes but that the worker has dropped its run.
Stops ==
  \/ FinalizeFails \/ FailUnrecorded \/ PanicUnrecorded \/ Detect

LEMMA StopsStep ==
  ASSUME Shape, Stops
  PROVE  /\ UNCHANGED <<up, jobs, staged, uploading, importState, assets,
                        originals, receipts, migrating, stored>>
         /\ run' = [run EXCEPT !["worker"] = Idle]
         /\ faults' \in 0 .. MaxFaults
  <1>1. ASSUME NEW kind, Unrecorded(kind)
        PROVE  /\ UNCHANGED <<up, jobs, staged, uploading, importState, assets,
                              originals, receipts, migrating, stored>>
               /\ run' = [run EXCEPT !["worker"] = Idle]
               /\ faults' \in 0 .. MaxFaults
    BY <1>1, FaultType DEF Unrecorded, Shape
  <1>2. CASE Detect
    BY <1>2 DEF Detect, Shape, TypeOK
  <1> QED BY <1>1, <1>2 DEF Stops, FinalizeFails, FailUnrecorded,
          PanicUnrecorded

LEMMA StopsShape ==
  ASSUME Shape, Stops
  PROVE  Shape'
  <1>1. TypeOK'
    BY StopsStep, WorkerStops DEF Shape, TypeOK
  <1>2. JobsOK' /\ MigrationOK' /\ UploadsOK'
    BY StopsStep DEF Shape, JobsOK, MigrationOK, UploadsOK, HasJob
  <1> QED BY <1>1, <1>2, StopsStep, WorkerStops DEF Shape

\* After the sweep the worker is free, or goes on to the detection.
LEMMA SweepStep ==
  ASSUME Shape, Sweep
  PROVE  /\ run' \in [Importer -> Run] /\ run'["cli"] = run["cli"]
         /\ run'["worker"].pc \in {"idle", "detect"}
         /\ run'["worker"].job \in {0, run["worker"].job}
         /\ WorkerOK' /\ CliOK' /\ RunsOK'
  <1> DEFINE r == [run["worker"] EXCEPT !.pc = "detect"]
  <1>1. /\ UNCHANGED <<up, jobs>> /\ run["worker"].pc = "sweep"
        /\ \/ run' = [run EXCEPT !["worker"] = Idle]
           \/ run' = [run EXCEPT !["worker"] = r]
    BY DEF Sweep, Shape, TypeOK, Importer
  <1>2. /\ r \in Run /\ r.pc = "detect" /\ r.job = run["worker"].job
        /\ r.dir = run["worker"].dir /\ r.todo = run["worker"].todo
    BY DEF Shape, TypeOK, Importer, Run
  <1> HIDE DEF r
  <1>3. CASE run' = [run EXCEPT !["worker"] = Idle]
    BY <1>3, WorkerStops, IdleRun
  <1>4. CASE run' = [run EXCEPT !["worker"] = r]
    <2>1. /\ run' \in [Importer -> Run] /\ run'["worker"] = r
          /\ run'["cli"] = run["cli"]
      BY <1>2, <1>4, RunUpdate DEF Shape, Importer
    <2>2. WorkerOK'
      BY <1>1, <1>2, <2>1 DEF Shape, WorkerOK
    <2>3. CliOK' /\ RunsOK'
      BY <1>2, <2>1 DEF Shape, CliOK, RunsOK, Locked, Importer
    <2> QED BY <1>2, <2>1, <2>2, <2>3
  <1> QED BY <1>1, <1>3, <1>4

LEMMA SweepShape ==
  ASSUME Shape, Sweep
  PROVE  Shape'
  <1>1. UNCHANGED <<up, jobs, uploading, importState, assets, originals,
                    receipts, migrating, stored>>
    BY DEF Sweep
  <1>2. /\ staged' \subseteq staged
        /\ run["worker"].pc # "idle"
        /\ \A d \in staged : d # run["worker"].dir => d \in staged'
    BY DEF Sweep
  <1>3. faults' \in 0 .. MaxFaults
    <2>1. faults' = faults \/ Fault("sweep")
      BY DEF Sweep
    <2> QED BY <2>1, FaultType DEF Shape, TypeOK
  <1>4. TypeOK'
    BY <1>1, <1>2, <1>3, SweepStep DEF Shape, TypeOK
  <1>5. JobsOK' /\ MigrationOK'
    BY <1>1 DEF Shape, JobsOK, MigrationOK
  <1>6. UploadsOK'
    <2>1. HasJob(run["worker"].dir)
      BY <1>2, WorkerJob DEF HasJob
    <2> QED BY <1>1, <1>2, <2>1 DEF Shape, UploadsOK, HasJob
  <1> QED BY <1>4, <1>5, <1>6, SweepStep DEF Shape

\* A panic fails the worker's job.
LEMMA PanicStep ==
  ASSUME Shape, Panic
  PROVE  /\ JobStep(run["worker"].job)
         /\ jobs'[run["worker"].job].status = "failed"
         /\ jobs'[run["worker"].job] =
              [jobs[run["worker"].job] EXCEPT !.status = "failed"]
         /\ run' = [run EXCEPT !["worker"] = Idle]
  <1> DEFINE j == run["worker"].job
             row == [jobs[j] EXCEPT !.status = "failed"]
  <1>1. /\ j \in Job /\ jobs[j] \in JobRow
        /\ jobs[j].kind \in {"upload", "capture"}
    BY WorkerJob DEF Panic
  <1>2. /\ row \in JobRow /\ row.kind = jobs[j].kind /\ row.status = "failed"
        /\ row.source = jobs[j].source
    BY <1>1 DEF JobRow
  <1>3. jobs' = [jobs EXCEPT ![j] = row] /\ run' = [run EXCEPT !["worker"] = Idle]
    BY DEF Panic
  <1> HIDE DEF row
  <1>4. /\ jobs' \in [Job -> JobRow] /\ jobs'[j] = row
        /\ \A k \in Job \ {j} : jobs'[k] = jobs[k]
    BY <1>1, <1>2, <1>3, JobUpdate DEF Shape
  <1>5. JobStep(j) /\ jobs'[j].status = "failed"
    BY <1>1, <1>2, <1>4 DEF JobStep, None
  <1> QED BY <1>3, <1>4, <1>5 DEF row

LEMMA PanicShape ==
  ASSUME Shape, Panic
  PROVE  Shape'
  <1>1. UNCHANGED <<up, staged, uploading, importState, assets, originals,
                    receipts, migrating, stored>>
    BY DEF Panic
  <1>2. run["worker"].job \in Job /\ faults' \in 0 .. MaxFaults
    BY WorkerJob, FaultType DEF Shape, Panic
  <1>3. TypeOK'
    BY <1>1, <1>2, PanicStep, WorkerStops DEF Shape, TypeOK, JobStep
  <1> QED BY <1>1, <1>2, <1>3, PanicStep, JobStepShape, WorkerStops DEF Shape

LEMMA CrashShape ==
  ASSUME Shape, Crash
  PROVE  Shape'
  <1>1. UNCHANGED <<jobs, staged, importState, assets, originals, receipts,
                    migrating, stored>>
    BY DEF Crash
  <1>2. /\ run' = [run EXCEPT !["worker"] = Idle] /\ faults' \in 0 .. MaxFaults
        /\ up' = FALSE /\ uploading' = {}
    BY FaultType DEF Shape, Crash
  <1>3. TypeOK'
    BY <1>1, <1>2, WorkerStops DEF Shape, TypeOK
  <1>4. JobsOK' /\ MigrationOK' /\ UploadsOK'
    BY <1>1, <1>2 DEF Shape, JobsOK, MigrationOK, UploadsOK, HasJob
  <1> QED BY <1>2, <1>3, <1>4, WorkerStops DEF Shape

\* What recovery does to every row: nothing, or a status no run belongs to.
LEMMA StartStep ==
  ASSUME Shape, Start
  PROVE  /\ jobs' \in [Job -> JobRow] /\ up'
         /\ \A j \in Job :
              \/ jobs'[j] = jobs[j]
              \/ /\ jobs[j].status = "running"
                 /\ jobs'[j].status = IF jobs[j].kind = "migration"
                                      THEN "failed" ELSE "queued"
                 /\ jobs'[j].kind = jobs[j].kind
                 /\ jobs'[j].source = jobs[j].source
                 /\ jobs'[j].attempts = jobs[j].attempts
  <1> DEFINE To(row, st) == [row EXCEPT !.status = st]
  <1>1. \A row \in JobRow, st \in Statuses :
          /\ To(row, st) \in JobRow /\ To(row, st).status = st
          /\ To(row, st).kind = row.kind /\ To(row, st).source = row.source
          /\ To(row, st).attempts = row.attempts
    BY RowWithStatus DEF JobRow
  <1>2. PICK kinds \in SUBSET {"import", "migration"} :
          jobs' = [j \in Job |->
            IF jobs[j].status # "running" THEN jobs[j]
            ELSE IF jobs[j].kind = "migration" /\ "migration" \in kinds
            THEN To(jobs[j], "failed")
            ELSE IF jobs[j].kind # "migration" /\ "import" \in kinds
            THEN To(jobs[j], "queued") ELSE jobs[j]]
    BY DEF Start
  <1> HIDE DEF To
  <1>3. \A j \in Job :
          \/ jobs'[j] = jobs[j]
          \/ /\ jobs[j].status = "running"
             /\ jobs'[j] = To(jobs[j], IF jobs[j].kind = "migration"
                                       THEN "failed" ELSE "queued")
    BY <1>2
  <1>4. \A j \in Job : jobs[j] \in JobRow
    BY DEF Shape, TypeOK
  <1>5. \A j \in Job : jobs'[j] \in JobRow
    BY <1>1, <1>3, <1>4 DEF Statuses
  <1>6. jobs' \in [Job -> JobRow]
    BY <1>2, <1>5
  <1>7. up'
    BY DEF Start
  <1> QED BY <1>1, <1>3, <1>4, <1>6, <1>7 DEF Statuses

LEMMA StartShape ==
  ASSUME Shape, Start
  PROVE  Shape'
  <1>1. UNCHANGED <<staged, uploading, importState, assets, originals, run,
                    receipts, migrating, stored>> /\ ~up
    BY DEF Start
  <1>2. faults' \in 0 .. MaxFaults
    <2>1. faults' = faults \/ Fault("recover")
      BY DEF Start
    <2> QED BY <2>1, FaultType DEF Shape, TypeOK
  <1>3. TypeOK'
    BY <1>1, <1>2, StartStep DEF Shape, TypeOK
  <1>4. JobsOK'
    BY StartStep DEF Shape, JobsOK, None
  <1>5. MigrationOK'
    BY <1>1, StartStep DEF Shape, TypeOK, MigrationOK
  <1>6. UploadsOK'
    BY <1>1, StartStep DEF Shape, UploadsOK, HasJob
  <1>7. WorkerOK'
    BY <1>1 DEF Shape, WorkerOK
  <1>8. CliOK' /\ RunsOK'
    BY <1>1 DEF Shape, CliOK, RunsOK, Locked
  <1> QED BY <1>3, <1>4, <1>5, <1>6, <1>7, <1>8 DEF Shape

-----------------------------------------------------------------------------
(* Shape is kept where rows are added, by migrations and by the trash.     *)

\* What InsertJob does to the table: a row that was free is taken.
LEMMA InsertStep ==
  ASSUME Shape, NEW row \in JobRow, InsertJob(row)
  PROVE  \E j \in Job :
           /\ jobs[j].status = None /\ jobs[j].kind = None
           /\ jobs[j].source \notin Dir
           /\ jobs' \in [Job -> JobRow] /\ jobs'[j] = row
           /\ \A k \in Job \ {j} : jobs'[k] = jobs[k]
  <1>1. PICK j \in Job : /\ jobs[j].status = None
                         /\ jobs' = [jobs EXCEPT ![j] = row]
    BY DEF InsertJob
  <1>2. jobs[j].kind = None /\ jobs[j].source \notin Dir
    BY <1>1 DEF Shape, JobsOK
  <1> QED BY <1>1, <1>2, JobUpdate DEF Shape

\* A queued import enters the table; staged may grow.
LEMMA EnqueueShape ==
  ASSUME Shape, NEW kind \in {"upload", "capture"},
         NEW d \in UploadDir \cup CaptureDir, EnqueueDirectory(kind, d),
         staged \subseteq staged', d \notin uploading',
         uploading' \subseteq uploading,
         UNCHANGED <<up, run, migrating>>
  PROVE  /\ jobs' \in [Job -> JobRow] /\ stored' \subseteq File
         /\ JobsOK' /\ WorkerOK' /\ CliOK' /\ RunsOK' /\ MigrationOK' /\ UploadsOK'
  <1> DEFINE row == QueuedRow(kind, d)
  <1>1. /\ row \in JobRow /\ row.kind = kind /\ row.source = d
        /\ row.status = "queued" /\ row.attempts = 0 /\ 0 < MaxAttempts
    BY ImportQueueAssumption DEF QueuedRow, JobRow, UploadDir
  <1>2. InsertJob(row)
    BY DEF EnqueueDirectory
  <1> HIDE DEF row
  <1>3. PICK j \in Job :
          /\ jobs[j].status = None /\ jobs[j].kind = None
          /\ jobs' \in [Job -> JobRow] /\ jobs'[j] = row
          /\ \A k \in Job \ {j} : jobs'[k] = jobs[k]
    BY <1>1, <1>2, InsertStep
  <1>4. stored' \subseteq File
    BY DEF EnqueueDirectory, Shape, TypeOK, FilesIn
  <1>5. JobsOK'
    BY <1>1, <1>3 DEF Shape, JobsOK, None
  <1>6. WorkerOK'
    BY <1>3 DEF Shape, WorkerOK, None
  <1>7. MigrationOK'
    BY <1>3 DEF Shape, TypeOK, MigrationOK, None
  <1>8. UploadsOK'
    BY <1>1, <1>3 DEF Shape, UploadsOK, HasJob
  <1>9. CliOK' /\ RunsOK'
    BY DEF Shape, CliOK, RunsOK, Locked
  <1> QED BY <1>3, <1>4, <1>5, <1>6, <1>7, <1>8, <1>9

LEMMA EnqueueUploadShape ==
  ASSUME Shape, NEW d \in Dir, EnqueueUpload(d)
  PROVE  Shape'
  <1>1. UNCHANGED <<up, staged, importState, assets, originals, run, receipts,
                    migrating, faults>>
    BY DEF EnqueueUpload
  <1>2. /\ d \in UploadDir /\ EnqueueDirectory("upload", d)
        /\ uploading' = uploading \ {d}
    BY DEF Shape, UploadsOK, EnqueueUpload
  <1>3. /\ jobs' \in [Job -> JobRow] /\ stored' \subseteq File
        /\ JobsOK' /\ WorkerOK' /\ CliOK' /\ RunsOK' /\ MigrationOK' /\ UploadsOK'
    BY <1>1, <1>2, EnqueueShape
  <1>4. TypeOK'
    BY <1>1, <1>2, <1>3 DEF Shape, TypeOK
  <1> QED BY <1>3, <1>4 DEF Shape

LEMMA EnqueueCaptureShape ==
  ASSUME Shape, NEW d \in Dir, EnqueueCapture(d)
  PROVE  Shape'
  <1>1. UNCHANGED <<up, uploading, importState, assets, originals, run,
                    receipts, migrating, faults>>
    BY DEF EnqueueCapture
  <1>2. /\ d \in CaptureDir /\ EnqueueDirectory("capture", d)
        /\ staged' = staged \cup {d}
    BY DEF EnqueueCapture
  <1>3. d \notin uploading'
    BY <1>1, <1>2 DEF Shape, UploadsOK, UploadDir
  <1>4. /\ jobs' \in [Job -> JobRow] /\ stored' \subseteq File
        /\ JobsOK' /\ WorkerOK' /\ CliOK' /\ RunsOK' /\ MigrationOK' /\ UploadsOK'
    BY <1>1, <1>2, <1>3, EnqueueShape
  <1>5. TypeOK'
    BY <1>1, <1>2, <1>4 DEF Shape, TypeOK
  <1> QED BY <1>4, <1>5 DEF Shape

\* Staging an upload, giving it up, or taking a source away concerns a directory without a job.
LEMMA StagingShape ==
  ASSUME Shape, NEW d \in Dir, StageUpload(d) \/ AbortUpload(d) \/ RemoveSource(d)
  PROVE  Shape'
  <1>1. UNCHANGED <<up, jobs, importState, assets, originals, run, receipts,
                    migrating, stored>>
    BY DEF StageUpload, AbortUpload, RemoveSource
  <1>2. faults' \in 0 .. MaxFaults
    <2>1. faults' = faults \/ Fault("upload")
      BY DEF StageUpload, AbortUpload, RemoveSource
    <2> QED BY <2>1, FaultType DEF Shape, TypeOK
  <1>3. TypeOK'
    BY <1>1, <1>2 DEF Shape, TypeOK, StageUpload, AbortUpload, RemoveSource
  <1>4. UploadsOK'
    BY <1>1 DEF Shape, UploadsOK, UploadDir, HasJob, StageUpload, AbortUpload,
       RemoveSource
  <1>5. JobsOK' /\ MigrationOK' /\ WorkerOK' /\ CliOK' /\ RunsOK'
    BY <1>1 DEF Shape, JobsOK, MigrationOK, WorkerOK, CliOK, RunsOK, Locked
  <1> QED BY <1>3, <1>4, <1>5 DEF Shape

LEMMA TrackMigrationStep ==
  ASSUME Shape, TrackMigration
  PROVE  \E j \in Job :
           /\ jobs[j].status = None /\ jobs[j].kind = None
           /\ jobs[j].source \notin Dir /\ migrating' = j
           /\ jobs' \in [Job -> JobRow]
           /\ \A k \in Job \ {j} : jobs'[k] = jobs[k]
           /\ jobs'[j].kind = "migration" /\ jobs'[j].status = "running"
           /\ jobs'[j].source = "pending" /\ jobs'[j].attempts = 0
  <1> DEFINE row == [status |-> "running", kind |-> "migration",
                     source |-> "pending", attempts |-> 0, due |-> TRUE]
  <1>1. PICK j \in Job : /\ jobs[j].status = None /\ migrating' = j
                         /\ jobs' = [jobs EXCEPT ![j] = row]
    BY DEF TrackMigration
  <1>2. /\ row \in JobRow /\ row.kind = "migration" /\ row.status = "running"
        /\ row.source = "pending" /\ row.attempts = 0
    BY ImportQueueAssumption DEF JobRow
  <1> HIDE DEF row
  <1>3. jobs[j].kind = None /\ jobs[j].source \notin Dir
    BY <1>1 DEF Shape, JobsOK
  <1> QED BY <1>1, <1>2, <1>3, JobUpdate DEF Shape

LEMMA TrackMigrationShape ==
  ASSUME Shape, TrackMigration
  PROVE  Shape'
  <1>1. UNCHANGED <<up, staged, uploading, importState, assets, originals,
                    run, receipts, stored, faults>>
    BY DEF TrackMigration
  <1>2. PICK j \in Job :
          /\ jobs[j].status = None /\ jobs[j].kind = None /\ migrating' = j
          /\ jobs' \in [Job -> JobRow]
          /\ \A k \in Job \ {j} : jobs'[k] = jobs[k]
          /\ jobs'[j].kind = "migration" /\ jobs'[j].status = "running"
          /\ jobs'[j].source = "pending" /\ jobs'[j].attempts = 0
    BY TrackMigrationStep
  <1>3. "pending" \notin Dir /\ 0 < MaxAttempts
    BY ImportQueueAssumption
  <1>4. TypeOK'
    BY <1>1, <1>2 DEF Shape, TypeOK
  <1>5. JobsOK'
    BY <1>2, <1>3 DEF Shape, JobsOK, None
  <1>6. MigrationOK'
    BY <1>2 DEF MigrationOK
  <1>7. WorkerOK'
    BY <1>1, <1>2 DEF Shape, WorkerOK, None
  <1>8. UploadsOK'
    BY <1>1, <1>2, <1>3 DEF Shape, TypeOK, UploadsOK, HasJob
  <1>9. CliOK' /\ RunsOK'
    BY <1>1 DEF Shape, CliOK, RunsOK, Locked
  <1> QED BY <1>4, <1>5, <1>6, <1>7, <1>8, <1>9 DEF Shape

\* What the migrating process writes: the status or the source of its own row.
LEMMA MigrationStep ==
  ASSUME Shape,
         NameMigration \/ \E o \in {"succeeded", "failed"} : FinishMigration(o)
  PROVE  /\ migrating \in Job /\ migrating' \in {0, migrating}
         /\ jobs[migrating].kind = "migration"
         /\ jobs' \in [Job -> JobRow]
         /\ \A k \in Job \ {migrating} : jobs'[k] = jobs[k]
         /\ jobs'[migrating].kind = "migration"
         /\ jobs'[migrating].status \in
              {jobs[migrating].status, "succeeded", "failed"}
         /\ jobs'[migrating].source \notin Dir
         /\ jobs'[migrating].attempts = jobs[migrating].attempts
  <1> DEFINE old == jobs[migrating]
  <1>1. migrating \in Job /\ old.kind = "migration" /\ old.source \notin Dir
    BY DEF Shape, TypeOK, MigrationOK, JobsOK, NameMigration, FinishMigration
  <1>2. old \in JobRow
    BY <1>1 DEF Shape, TypeOK
  <1>3. PICK row : /\ row \in JobRow /\ row.kind = "migration"
                   /\ row.status \in {old.status, "succeeded", "failed"}
                   /\ row.source \notin Dir /\ row.attempts = old.attempts
                   /\ jobs' = [jobs EXCEPT ![migrating] = row]
    <2>1. CASE NameMigration
      <3> DEFINE row == [old EXCEPT !.source = "run"]
      <3>1. /\ row \in JobRow /\ row.kind = "migration"
            /\ row.status = old.status /\ row.source = "run"
            /\ row.attempts = old.attempts
        BY <1>1, <1>2 DEF JobRow
      <3>2. jobs' = [jobs EXCEPT ![migrating] = row]
        BY <2>1 DEF NameMigration
      <3> QED BY <3>1, <3>2, ImportQueueAssumption
    <2>2. ASSUME NEW o \in {"succeeded", "failed"}, FinishMigration(o)
          PROVE  \E row : /\ row \in JobRow /\ row.kind = "migration"
                          /\ row.status \in {old.status, "succeeded", "failed"}
                          /\ row.source \notin Dir
                          /\ row.attempts = old.attempts
                          /\ jobs' = [jobs EXCEPT ![migrating] = row]
      <3> DEFINE row == [old EXCEPT !.status = o]
      <3>1. /\ row \in JobRow /\ row.kind = "migration"
            /\ row.status = o /\ row.source = old.source
            /\ row.attempts = old.attempts
        BY <1>1, <1>2 DEF JobRow
      <3>2. jobs' = [jobs EXCEPT ![migrating] = row]
        BY <2>2 DEF FinishMigration
      <3> QED BY <1>1, <3>1, <3>2
    <2> QED BY <2>1, <2>2
  <1>4. migrating' \in {0, migrating}
    BY DEF NameMigration, FinishMigration
  <1> HIDE DEF old
  <1>5. /\ jobs' \in [Job -> JobRow] /\ jobs'[migrating] = row
        /\ \A k \in Job \ {migrating} : jobs'[k] = jobs[k]
    BY <1>1, <1>3, JobUpdate DEF Shape
  <1> QED BY <1>1, <1>3, <1>4, <1>5 DEF old

LEMMA MigrationShape ==
  ASSUME Shape,
         NameMigration \/ \E o \in {"succeeded", "failed"} : FinishMigration(o)
  PROVE  Shape'
  <1>1. UNCHANGED <<up, staged, uploading, importState, assets, originals,
                    run, receipts, stored>>
    BY DEF NameMigration, FinishMigration
  <1>2. faults' \in 0 .. MaxFaults
    <2>1. faults' = faults \/ Fault("migration")
      BY DEF NameMigration, FinishMigration
    <2> QED BY <2>1, FaultType DEF Shape, TypeOK
  <1>3. TypeOK'
    BY <1>1, <1>2, MigrationStep DEF Shape, TypeOK
  <1>4. JobsOK'
    BY MigrationStep DEF Shape, JobsOK, None
  <1>5. MigrationOK'
    BY MigrationStep DEF MigrationOK
  <1>6. WorkerOK'
    BY <1>1, MigrationStep DEF Shape, WorkerOK
  <1>7. UploadsOK'
    BY <1>1, MigrationStep DEF Shape, TypeOK, UploadsOK, HasJob
  <1>8. CliOK' /\ RunsOK'
    BY <1>1 DEF Shape, CliOK, RunsOK, Locked
  <1> QED BY <1>3, <1>4, <1>5, <1>6, <1>7, <1>8 DEF Shape

LEMMA MigrationDiesShape ==
  ASSUME Shape, MigrationDies
  PROVE  Shape'
  <1>1. UNCHANGED <<up, jobs, staged, uploading, importState, assets,
                    originals, run, receipts, stored>>
    BY DEF MigrationDies
  <1>2. migrating' = 0 /\ faults' \in 0 .. MaxFaults
    BY FaultType DEF Shape, MigrationDies
  <1>3. TypeOK'
    BY <1>1, <1>2 DEF Shape, TypeOK
  <1>4. MigrationOK'
    BY <1>2 DEF MigrationOK
  <1>5. JobsOK' /\ WorkerOK' /\ CliOK' /\ RunsOK' /\ UploadsOK'
    BY <1>1 DEF Shape, JobsOK, WorkerOK, CliOK, RunsOK, UploadsOK, HasJob,
       Locked
  <1> QED BY <1>3, <1>4, <1>5 DEF Shape

\* The trash leaves jobs, directories and runs alone.
LEMMA TrashShape ==
  ASSUME Shape, NEW c \in Content,
         TrashAsset(c) \/ RestoreAsset(c) \/ PurgeAsset(c)
  PROVE  Shape'
  <1>1. UNCHANGED <<up, jobs, staged, uploading, importState, run, migrating,
                    stored, faults>>
    BY DEF TrashAsset, RestoreAsset, PurgeAsset
  <1>2. assets' \in [Content -> AssetRow]
    <2>1. assets[c] \in AssetRow
      BY DEF Shape, TypeOK
    <2>2. /\ [state |-> None, original |-> 0] \in AssetRow
          /\ [assets[c] EXCEPT !.state = "trashed"] \in AssetRow
          /\ [assets[c] EXCEPT !.state = "live"] \in AssetRow
      BY <2>1 DEF AssetRow
    <2> QED BY <2>2 DEF Shape, TypeOK, TrashAsset, RestoreAsset, PurgeAsset
  <1>3. originals' \in [Original -> Content \cup {None}]
    BY DEF Shape, TypeOK, TrashAsset, RestoreAsset, PurgeAsset
  <1>4. receipts' \in [CaptureDir -> Content \cup {None}]
    BY DEF Shape, TypeOK, TrashAsset, RestoreAsset, PurgeAsset
  <1>5. TypeOK'
    BY <1>1, <1>2, <1>3, <1>4 DEF Shape, TypeOK
  <1>6. JobsOK' /\ WorkerOK' /\ CliOK' /\ RunsOK' /\ MigrationOK' /\ UploadsOK'
    BY <1>1 DEF Shape, JobsOK, WorkerOK, CliOK, RunsOK, MigrationOK,
       UploadsOK, HasJob, Locked
  <1> QED BY <1>5, <1>6 DEF Shape

-----------------------------------------------------------------------------
(* The theorem.                                                            *)

LEMMA ShapeInit == Init => Shape
  <1> SUFFICES ASSUME Init PROVE Shape
    OBVIOUS
  <1>1. TypeOK
    <2>1. [status |-> None, kind |-> None, source |-> None, attempts |-> 0,
           due |-> FALSE] \in JobRow
      BY ImportQueueAssumption DEF JobRow
    <2>2. [state |-> None, original |-> 0] \in AssetRow
      BY DEF AssetRow
    <2> QED BY <2>1, <2>2, IdleRun, ImportQueueAssumption DEF Init, TypeOK
  <1>2. JobsOK
    BY ImportQueueAssumption DEF Init, JobsOK, None
  <1>3. WorkerOK /\ CliOK /\ RunsOK
    BY IdleRun DEF Init, WorkerOK, CliOK, RunsOK, Importer
  <1>4. MigrationOK /\ UploadsOK
    BY DEF Init, MigrationOK, UploadsOK
  <1> QED BY <1>1, <1>2, <1>3, <1>4 DEF Shape

LEMMA ShapeStutter ==
  ASSUME Shape, UNCHANGED vars
  PROVE  Shape'
  BY DEF vars, Shape, TypeOK, JobsOK, WorkerOK, CliOK, RunsOK, MigrationOK,
     UploadsOK, HasJob, Locked

\* Every action keeps Shape.
LEMMA ShapeNext ==
  ASSUME Shape, [Next]_vars
  PROVE  Shape'
  <1>1. ASSUME NEW d \in Dir,
               \/ StageUpload(d) \/ EnqueueUpload(d) \/ AbortUpload(d)
               \/ EnqueueCapture(d) \/ CliImport(d) \/ RemoveSource(d)
        PROVE  Shape'
    BY <1>1, StagingShape, EnqueueUploadShape, EnqueueCaptureShape,
       CliImportShape
  <1>2. ASSUME NEW i \in Importer, Import(i)
        PROVE  Shape'
    BY <1>2, BeginFileShape, HashFileShape, WriteOriginalShape,
       InsertAssetShape, MarkDoneShape, GivesUpShape, FinishRunShape DEF Import
  <1>3. ASSUME Worker
        PROVE  Shape'
    BY <1>3, ClaimShape, BackoffElapsesShape, OpenRunShape, OpenFailsShape,
       FinalizeShape, StopsShape, RetryShape, SweepShape, PanicShape,
       CrashShape, StartShape DEF Worker, Stops
  <1>4. ASSUME Trash
        PROVE  Shape'
    BY <1>4, TrashShape DEF Trash
  <1>5. ASSUME Migration
        PROVE  Shape'
    BY <1>5, TrackMigrationShape, MigrationShape, MigrationDiesShape
       DEF Migration
  <1> QED BY <1>1, <1>2, <1>3, <1>4, <1>5, CliDiesShape, ShapeStutter DEF Next

\* The jobs table and the importer runs hang together in every state.
THEOREM ShapeHolds == Spec => []Shape
  <1>1. Shape /\ [Next]_vars => Shape'
    BY ShapeNext
  <1> QED BY ShapeInit, <1>1, PTL DEF Spec

\* Every state of the queue has the types of TypeOK.  In particular a job never
\* counts more attempts than max_attempts, whatever fails and how often.
THEOREM TypeCorrect == Spec => []TypeOK
  <1>1. Shape => TypeOK
    BY DEF Shape
  <1> QED BY <1>1, ShapeHolds, PTL

\* The worker never runs a migration, and no migration row is ever queued: not
\* even recovery, which requeues whatever else was running, hands one to it.
THEOREM NeverMigrates == Spec => []WorkerNeverMigrates
  <1>1. Shape => WorkerNeverMigrates
    BY DEF Shape, TypeOK, WorkerOK, JobsOK, WorkerNeverMigrates
  <1> QED BY <1>1, ShapeHolds, PTL

-----------------------------------------------------------------------------
(* Originals.                                                              *)

Originals == OriginalWritten /\ RowHasOriginal

\* What most steps do: no asset, no original, and no run comes to its insert.
OriginalsCalm ==
  /\ assets' = assets /\ originals' = originals
  /\ \A i \in Importer : run'[i].pc = "insert" => run'[i] = run[i]

LEMMA OriginalsCalmKeeps ==
  ASSUME Originals, OriginalsCalm
  PROVE  Originals'
  <1>1. RowHasOriginal'
    BY DEF Originals, OriginalsCalm, RowHasOriginal, HasRow
  <1>2. OriginalWritten'
    BY DEF Originals, OriginalsCalm, OriginalWritten
  <1> QED BY <1>1, <1>2 DEF Originals

\* Write takes a path that is free, so no row loses its original.
LEMMA WriteOriginalOriginals ==
  ASSUME Shape, Originals, NEW i \in Importer, NEW o \in Original,
         WriteOriginal(i, o)
  PROVE  Originals'
  <1>1. /\ originals[o] = None /\ assets' = assets
        /\ originals' = [originals EXCEPT ![o] = ContentOf[run[i].file]]
    BY DEF WriteOriginal
  <1>2. /\ run'[i].original = o /\ run'[i].file = run[i].file
        /\ \A k \in Importer \ {i} : run'[k] = run[k]
        /\ ContentOf[run[i].file] \in Content
    BY WriteOriginalStep, CurrentFile DEF RunStep, WithFile
  <1>3. originals' \in [Original -> Content \cup {None}]
        /\ originals \in [Original -> Content \cup {None}]
    BY WriteOriginalShape DEF Shape, TypeOK
  <1>4. /\ originals'[o] = ContentOf[run[i].file]
        /\ \A p \in Original : originals[p] # None => originals'[p] = originals[p]
    BY <1>1, <1>3
  <1>5. \A c \in Content : c # None
    BY ImportQueueAssumption
  <1>6. RowHasOriginal'
    BY <1>1, <1>4, <1>5 DEF Originals, RowHasOriginal, HasRow
  <1>7. OriginalWritten'
    <2> SUFFICES ASSUME NEW k \in Importer, run'[k].pc = "insert"
                 PROVE  /\ run'[k].original \in Original
                        /\ originals'[run'[k].original] = ContentOf[run'[k].file]
      BY DEF OriginalWritten
    <2>1. CASE k = i
      BY <1>2, <1>4, <2>1
    <2>2. CASE k # i
      <3>1. /\ run'[k] = run[k] /\ run[k].original \in Original
            /\ originals[run[k].original] = ContentOf[run[k].file]
        BY <1>2, <2>2 DEF Originals, OriginalWritten
      <3>2. ContentOf[run[k].file] \in Content
        BY <3>1, CurrentFile DEF WithFile
      <3> QED BY <1>4, <1>5, <3>1, <3>2
    <2> QED BY <2>1, <2>2
  <1> QED BY <1>6, <1>7 DEF Originals

\* The row that insertAsset adds points at the original just written.
LEMMA InsertAssetOriginals ==
  ASSUME Shape, Originals, NEW i \in Importer, InsertAsset(i)
  PROVE  Originals'
  <1> DEFINE c == ContentOf[run[i].file]
             row == [state |-> "live", original |-> run[i].original]
  <1>1. /\ run[i].original \in Original /\ originals[run[i].original] = c
        /\ originals' = originals
    BY DEF Originals, OriginalWritten, InsertAsset
  <1>2. assets' = [assets EXCEPT ![c] = row]
    BY DEF InsertAsset
  <1>3. \A e \in Content : assets'[e] = IF e = c THEN row ELSE assets[e]
    BY <1>2 DEF Shape, TypeOK
  <1>4. RowHasOriginal'
    BY <1>1, <1>3 DEF Originals, RowHasOriginal, HasRow
  <1>5. OriginalWritten'
    BY <1>1, InsertAssetStep DEF Originals, OriginalWritten, RunStep, Importer
  <1> QED BY <1>4, <1>5 DEF Originals

\* Moving an asset to the trash and back keeps its original.
LEMMA TrashOriginals ==
  ASSUME Shape, Originals, NEW c \in Content, TrashAsset(c) \/ RestoreAsset(c)
  PROVE  Originals'
  <1>1. originals' = originals /\ run' = run /\ HasRow(c)
    BY DEF TrashAsset, RestoreAsset, HasRow, None
  <1>2. \A e \in Content : assets'[e].original = assets[e].original
                           /\ (e # c => assets'[e] = assets[e])
    BY DEF Shape, TypeOK, AssetRow, TrashAsset, RestoreAsset
  <1>3. RowHasOriginal'
    BY <1>1, <1>2 DEF Originals, RowHasOriginal, HasRow
  <1>4. OriginalWritten'
    BY <1>1 DEF Originals, OriginalWritten
  <1> QED BY <1>3, <1>4 DEF Originals

\* A purge takes the row with its original, and two rows never share one.  No
\* importer is at its insert, for it would hold the lock.
LEMMA PurgeOriginals ==
  ASSUME Shape, Originals, NEW c \in Content, PurgeAsset(c)
  PROVE  Originals'
  <1> DEFINE o == assets[c].original
  <1>1. /\ run' = run /\ HasRow(c)
        /\ originals' = [originals EXCEPT ![o] = None]
        /\ assets' = [assets EXCEPT ![c] = [state |-> None, original |-> 0]]
        /\ \A i \in Importer : run[i].pc # "insert"
    BY DEF PurgeAsset, HasRow, Locked, None
  <1>2. o \in Original /\ originals[o] = c
    BY <1>1 DEF Originals, RowHasOriginal
  <1>3. OriginalWritten'
    BY <1>1 DEF OriginalWritten
  <1>4. RowHasOriginal'
    <2> SUFFICES ASSUME NEW e \in Content, HasRow(e)'
                 PROVE  /\ assets'[e].original \in Original
                        /\ originals'[assets'[e].original] = e
      BY DEF RowHasOriginal
    <2>1. e # c /\ assets'[e] = assets[e]
      BY <1>1 DEF Shape, TypeOK, HasRow
    <2>2. assets[e].original \in Original /\ originals[assets[e].original] = e
      BY <2>1 DEF Originals, RowHasOriginal, HasRow
    <2> QED BY <1>1, <1>2, <2>1, <2>2 DEF Shape, TypeOK
  <1> QED BY <1>3, <1>4 DEF Originals

\* The other steps of an importer.
LEMMA LoopOriginals ==
  ASSUME Shape, NEW i \in Importer,
         \/ \E f \in File : BeginFile(i, f)
         \/ HashFile(i) \/ MarkDone(i) \/ InsertConflict(i) \/ FileFails(i)
         \/ DiskFull(i) \/ SourceGone(i) \/ FinishRun(i)
  PROVE  OriginalsCalm
  <1>1. assets' = assets /\ originals' = originals
    BY DEF BeginFile, HashFile, MarkDone, InsertConflict, FileFails, DiskFull,
       SourceGone, FinishRun
  <1>2. \/ GivesUp(i) \/ FinishRun(i) \/ MarkDone(i) \/ HashFile(i)
        \/ \E f \in File : BeginFile(i, f)
    BY InsertConflictStep, FileFailsStep, DiskFullStep, SourceGoneStep
  <1>3. run'[i].pc # "insert" /\ \A k \in Importer \ {i} : run'[k] = run[k]
    BY <1>2, FinishRunStep, MarkDoneStep, HashFileStep, BeginFileStep, IdleRun
       DEF GivesUp, RunStep, Importer
  <1> QED BY <1>1, <1>3 DEF OriginalsCalm

LEMMA WorkerOriginals ==
  ASSUME Shape, Worker
  PROVE  OriginalsCalm
  <1>1. assets' = assets /\ originals' = originals
    BY DEF Worker, Claim, BackoffElapses, OpenRun, OpenFails, Finalize,
       FinalizeFails, FailUnrecorded, PanicUnrecorded, Unrecorded, Detect,
       Retry, Sweep, Panic, Crash, Start
  <1> DEFINE Elsewhere ==
               \/ run' = [run EXCEPT !["worker"] = Idle]
               \/ run' = run
               \/ run'["worker"].pc # "insert" /\ run'["cli"] = run["cli"]
  <1>2. Elsewhere
    <2>1. ASSUME NEW j \in Job, Claim(j) \/ BackoffElapses(j) PROVE Elsewhere
      BY <2>1, ClaimStep DEF BackoffElapses
    <2>2. ASSUME OpenRun \/ Finalize \/ Sweep PROVE Elsewhere
      BY <2>2, OpenRunStep, FinalizeStep, SweepStep
    <2>3. ASSUME OpenFails \/ Stops \/ Retry \/ Panic \/ Crash \/ Start
          PROVE  Elsewhere
      BY <2>3, StopsStep DEF OpenFails, Retry, Panic, Crash, Start, Fail
    <2> QED BY <2>1, <2>2, <2>3 DEF Worker, Stops
  <1>3. \A i \in Importer : run'[i].pc = "insert" => run'[i] = run[i]
    BY <1>2, WorkerStops, IdleRun DEF Importer
  <1> QED BY <1>1, <1>3 DEF OriginalsCalm

LEMMA OriginalsNext ==
  ASSUME Shape, Originals, [Next]_vars
  PROVE  Originals'
  <1>1. ASSUME NEW d \in Dir,
               \/ StageUpload(d) \/ EnqueueUpload(d) \/ AbortUpload(d)
               \/ EnqueueCapture(d) \/ RemoveSource(d)
        PROVE  OriginalsCalm
    BY <1>1 DEF StageUpload, EnqueueUpload, AbortUpload, EnqueueCapture,
       RemoveSource, OriginalsCalm
  <1>2. ASSUME NEW d \in Dir, CliImport(d)
        PROVE  OriginalsCalm
    BY <1>2, CliImportShape DEF CliImport, OriginalsCalm, Idle, Importer, Shape,
       TypeOK
  <1>3. ASSUME CliDies
        PROVE  OriginalsCalm
    BY <1>3, IdleRun DEF CliDies, OriginalsCalm, Importer, Shape, TypeOK
  <1>4. ASSUME NEW i \in Importer, Import(i)
        PROVE  Originals'
    BY <1>4, LoopOriginals, OriginalsCalmKeeps, WriteOriginalOriginals,
       InsertAssetOriginals DEF Import
  <1>5. ASSUME Trash
        PROVE  Originals'
    BY <1>5, TrashOriginals, PurgeOriginals DEF Trash
  <1>6. ASSUME Migration \/ UNCHANGED vars
        PROVE  OriginalsCalm
    BY <1>6 DEF Migration, TrackMigration, NameMigration, FinishMigration, MigrationDies, vars,
       OriginalsCalm
  <1> QED BY <1>1, <1>2, <1>3, <1>4, <1>5, <1>6, WorkerOriginals,
          OriginalsCalmKeeps DEF Next

\* In every state every row of the assets table has its original, with the
\* content it was hashed from, whatever importers, purges and crashes do.
THEOREM OriginalsKept == Spec => []RowHasOriginal
  <1>1. Init => Originals
    BY IdleRun DEF Init, Originals, OriginalWritten, RowHasOriginal, HasRow
  <1>2. Shape /\ Originals /\ [Next]_vars => Originals'
    BY OriginalsNext
  <1>3. Originals => RowHasOriginal
    BY DEF Originals
  <1> QED BY ShapeHolds, <1>1, <1>2, <1>3, PTL DEF Spec

-----------------------------------------------------------------------------
(* Accounts.                                                               *)

Accounts == StoredOK /\ RunAccounts /\ SucceededIsComplete /\ AcceptedKept

\* The files in the hands of the worker were uploaded, and their job is there.
LEMMA WorkerFile ==
  ASSUME Shape, run["worker"].pc # "idle",
         NEW f \in FilesIn(run["worker"].dir)
  PROVE  f \in File /\ DirOf[f] \notin CliDir /\ HasJob(DirOf[f])
  <1>1. /\ run["worker"].dir \notin CliDir /\ run["worker"].job \in Job
        /\ jobs[run["worker"].job].source = run["worker"].dir
    BY WorkerJob, ImportQueueAssumption DEF UploadDir
  <1> QED BY <1>1 DEF FilesIn, HasJob

\* Those of `kuraki import` were not.
LEMMA CliFile ==
  ASSUME Shape, run["cli"].pc # "idle", NEW f \in FilesIn(run["cli"].dir)
  PROVE  f \in File /\ DirOf[f] \in CliDir
  BY DEF Shape, CliOK, FilesIn

\* Steps that queue no import, end none as succeeded and sweep nothing.
JobsCalm ==
  /\ staged \subseteq staged'
  /\ \A j \in Job :
       jobs'[j].source \in Dir =>
         /\ jobs[j].source = jobs'[j].source
         /\ jobs'[j].status = "succeeded" => jobs[j].status = "succeeded"

LEMMA JobsCalmKeeps ==
  ASSUME SucceededIsComplete, AcceptedKept, JobsCalm, stored \subseteq stored'
  PROVE  /\ SucceededIsComplete' /\ AcceptedKept'
         /\ \A d \in Dir : HasJob(d)' => HasJob(d)
  <1>1. SucceededIsComplete'
    BY DEF JobsCalm, SucceededIsComplete
  <1>2. AcceptedKept'
    BY DEF JobsCalm, AcceptedKept
  <1>3. \A d \in Dir : HasJob(d)' => HasJob(d)
    BY DEF JobsCalm, HasJob
  <1> QED BY <1>1, <1>2, <1>3

\* Steps that leave the worker's files alone.
RunCalm ==
  \/ run'["worker"].pc \in {"idle", "open", "retry"}
  \/ run'["worker"] = run["worker"]

LEMMA CalmKeeps ==
  ASSUME Accounts, JobsCalm, RunCalm,
         importState' = importState, stored' = stored,
         \A c \in Content : HasRow(c)' => HasRow(c)
  PROVE  Accounts'
  <1>1. /\ SucceededIsComplete' /\ AcceptedKept'
        /\ \A d \in Dir : HasJob(d)' => HasJob(d)
    BY JobsCalmKeeps DEF Accounts
  <1>2. \A f \in File : DirOf[f] \in Dir /\ ContentOf[f] \in Content
    BY ImportQueueAssumption
  <1>3. StoredOK'
    BY <1>1, <1>2 DEF Accounts, StoredOK, RunCalm
  <1>4. RunAccounts'
    BY DEF Accounts, RunAccounts, RunCalm, Pending
  <1> QED BY <1>1, <1>3, <1>4 DEF Accounts

\* A step in the loop: what it has dealt with is stored, or it is an error.
LEMMA LoopKeeps ==
  ASSUME Shape, Accounts, NEW i \in Importer, RunStep(i),
         UNCHANGED <<jobs, staged>>, stored \subseteq stored',
         \A f \in File : HasRow(ContentOf[f])' /\ HasJob(DirOf[f]) => f \in stored',
         \A f \in File : /\ importState'[f] \in {"done", "skipped"}
                         /\ DirOf[f] \notin CliDir
                         => f \in stored',
         i = "worker" =>
           /\ run'[i].pc = "mark" => run'[i].file \in stored'
           /\ ~run'[i].errors =>
                \A f \in Pending(run[i]) : f \in stored' \cup Pending(run'[i])
  PROVE  Accounts'
  <1>1. SucceededIsComplete' /\ AcceptedKept'
    BY DEF Accounts, SucceededIsComplete, AcceptedKept
  <1>2. StoredOK'
    <2>1. \A f \in File : HasJob(DirOf[f])' => HasJob(DirOf[f])
      BY DEF HasJob
    <2>2. run'["worker"].pc = "mark" => run'["worker"].file \in stored'
      BY DEF Accounts, StoredOK, RunStep, Importer
    <2> QED BY <2>1, <2>2 DEF StoredOK
  <1>3. RunAccounts'
    <2>1. CASE i = "worker"
      <3>1. ~run'[i].errors =>
              FilesIn(run[i].dir) \subseteq stored' \cup Pending(run'[i])
        BY <2>1 DEF Accounts, RunAccounts, RunStep, InLoop, WithFile
      <3>2. run'[i].dir = run[i].dir /\ run'[i].pc \in InLoop
        BY DEF RunStep
      <3> QED BY <2>1, <3>1, <3>2 DEF RunAccounts, InLoop, WithFile
    <2>2. CASE i = "cli"
      <3>1. run'["worker"] = run["worker"]
        BY <2>2 DEF RunStep, Importer
      <3> QED BY <3>1 DEF Accounts, RunAccounts
    <2> QED BY <2>1, <2>2 DEF Importer
  <1> QED BY <1>1, <1>2, <1>3 DEF Accounts

LEMMA BeginFileAccounts ==
  ASSUME Shape, Accounts, NEW i \in Importer, NEW f \in File, BeginFile(i, f)
  PROVE  Accounts'
  <1>1. /\ RunStep(i) /\ run[i].pc = "next" /\ f \in run[i].todo
        /\ run'[i].todo = run[i].todo \ {f}
        /\ \/ /\ run'[i].pc = "next" /\ importState[f] \in {"done", "skipped"}
              /\ importState' = importState
           \/ /\ run'[i].pc = "hash" /\ run'[i].file = f
              /\ importState' = [importState EXCEPT ![f] = "pending"]
    BY BeginFileStep
  <1>2. UNCHANGED <<jobs, staged, assets, stored>>
    BY DEF BeginFile
  <1>3. \A g \in File : HasRow(ContentOf[g])' /\ HasJob(DirOf[g]) => g \in stored'
    BY <1>2 DEF Accounts, StoredOK, HasRow
  <1>4. \A g \in File : /\ importState'[g] \in {"done", "skipped"}
                        /\ DirOf[g] \notin CliDir
                        => g \in stored'
    BY <1>1, <1>2 DEF Accounts, StoredOK, Shape, TypeOK
  <1>5. i = "worker" /\ run'[i].pc = "next" => f \in stored'
    <2> SUFFICES ASSUME i = "worker", run'[i].pc = "next"
                 PROVE  f \in stored'
      OBVIOUS
    <2>1. f \in FilesIn(run["worker"].dir) /\ run["worker"].pc # "idle"
      BY <1>1 DEF Shape, RunsOK
    <2>2. DirOf[f] \notin CliDir
      BY <2>1, WorkerFile
    <2> QED BY <1>1, <1>2, <2>2 DEF Accounts, StoredOK
  <1>6. Pending(run[i]) = run[i].todo
    BY <1>1 DEF Pending
  <1>7. i = "worker" => \A g \in Pending(run[i]) : g \in stored' \cup Pending(run'[i])
    BY <1>1, <1>5, <1>6 DEF Pending
  <1> QED BY <1>1, <1>2, <1>3, <1>4, <1>7, LoopKeeps

\* HashFile skips a file whose content is an asset, which is therefore stored.
LEMMA HashFileAccounts ==
  ASSUME Shape, Accounts, NEW i \in Importer, HashFile(i)
  PROVE  Accounts'
  <1> DEFINE f == run[i].file
  <1>1. /\ RunStep(i) /\ run[i].pc = "hash" /\ run'[i].todo = run[i].todo
        /\ \/ /\ run'[i].pc = "next" /\ HasRow(ContentOf[f])
              /\ importState' = [importState EXCEPT ![f] = "skipped"]
           \/ /\ run'[i].pc = "write" /\ run'[i].file = f
              /\ importState' = importState
    BY HashFileStep
  <1>2. UNCHANGED <<jobs, staged, assets, stored>>
    BY DEF HashFile
  <1>3. f \in File /\ f \in FilesIn(run[i].dir)
    BY <1>1, CurrentFile DEF WithFile
  <1>4. HasRow(ContentOf[f]) /\ DirOf[f] \notin CliDir => f \in stored
    <2>1. i = "cli" => DirOf[f] \in CliDir
      BY <1>1, <1>3, CliFile
    <2>2. i = "worker" => HasJob(DirOf[f])
      BY <1>1, <1>3, WorkerFile
    <2> QED BY <1>3, <2>1, <2>2 DEF Accounts, StoredOK, Importer
  <1>5. i = "worker" => DirOf[f] \notin CliDir
    BY <1>1, <1>3, WorkerFile
  <1> HIDE DEF f
  <1>6. \A g \in File : HasRow(ContentOf[g])' /\ HasJob(DirOf[g]) => g \in stored'
    BY <1>2 DEF Accounts, StoredOK, HasRow
  <1>7. \A g \in File : /\ importState'[g] \in {"done", "skipped"}
                        /\ DirOf[g] \notin CliDir
                        => g \in stored'
    BY <1>1, <1>2, <1>4 DEF Accounts, StoredOK, Shape, TypeOK
  <1>8. Pending(run[i]) = run[i].todo \cup {f}
    BY <1>1 DEF Pending, f
  <1>9. i = "worker" => \A g \in Pending(run[i]) : g \in stored' \cup Pending(run'[i])
    BY <1>1, <1>2, <1>4, <1>5, <1>8 DEF Pending
  <1> QED BY <1>1, <1>2, <1>6, <1>7, <1>9, LoopKeeps

LEMMA WriteOriginalAccounts ==
  ASSUME Shape, Accounts, NEW i \in Importer, NEW o \in Original,
         WriteOriginal(i, o)
  PROVE  Accounts'
  <1>1. /\ RunStep(i) /\ run[i].pc = "write" /\ run'[i].todo = run[i].todo
        /\ run'[i].pc = "insert" /\ run'[i].file = run[i].file
    BY WriteOriginalStep
  <1>2. UNCHANGED <<jobs, staged, assets, stored, importState>>
    BY DEF WriteOriginal
  <1>3. Pending(run'[i]) = Pending(run[i])
    BY <1>1 DEF Pending
  <1> QED BY <1>1, <1>2, <1>3, LoopKeeps DEF Accounts, StoredOK, HasRow

\* insertAsset makes every uploaded file with this content a stored one.
LEMMA InsertAssetAccounts ==
  ASSUME Shape, Accounts, NEW i \in Importer, InsertAsset(i)
  PROVE  Accounts'
  <1> DEFINE c == ContentOf[run[i].file]
  <1>1. /\ RunStep(i) /\ run[i].pc = "insert" /\ run'[i].todo = run[i].todo
        /\ run'[i].pc = "mark" /\ run'[i].file = run[i].file
    BY InsertAssetStep
  <1>2. /\ UNCHANGED <<jobs, staged, importState>>
        /\ stored' = stored \cup {f \in File : ContentOf[f] = c /\ HasJob(DirOf[f])}
        /\ \A e \in Content : e # c => assets'[e] = assets[e]
    BY DEF InsertAsset, Shape, TypeOK
  <1>3. \A f \in File : HasRow(ContentOf[f])' /\ HasJob(DirOf[f]) => f \in stored'
    BY <1>2, ImportQueueAssumption DEF Accounts, StoredOK, HasRow
  <1>4. i = "worker" => run[i].file \in stored'
    <2>1. run[i].file \in File /\ run[i].file \in FilesIn(run[i].dir)
      BY <1>1, CurrentFile DEF WithFile
    <2>2. i = "worker" => HasJob(DirOf[run[i].file])
      BY <1>1, <2>1, WorkerFile
    <2> QED BY <1>2, <2>1, <2>2
  <1> HIDE DEF c
  <1>5. Pending(run'[i]) = Pending(run[i])
    BY <1>1 DEF Pending
  <1> QED BY <1>1, <1>2, <1>3, <1>4, <1>5, LoopKeeps DEF Accounts, StoredOK

LEMMA MarkDoneAccounts ==
  ASSUME Shape, Accounts, NEW i \in Importer, MarkDone(i)
  PROVE  Accounts'
  <1> DEFINE f == run[i].file
  <1>1. /\ RunStep(i) /\ run[i].pc = "mark" /\ run'[i].todo = run[i].todo
        /\ run'[i].pc = "next"
    BY MarkDoneStep
  <1>2. /\ UNCHANGED <<jobs, staged, assets, stored>>
        /\ importState' = [importState EXCEPT ![f] = "done"]
    BY DEF MarkDone
  <1>3. i = "worker" => f \in stored
    BY <1>1 DEF Accounts, StoredOK
  <1>4. i = "cli" => DirOf[f] \in CliDir
    BY <1>1, CurrentFile, CliFile DEF WithFile
  <1> HIDE DEF f
  <1>5. \A g \in File : HasRow(ContentOf[g])' /\ HasJob(DirOf[g]) => g \in stored'
    BY <1>2 DEF Accounts, StoredOK, HasRow
  <1>6. \A g \in File : /\ importState'[g] \in {"done", "skipped"}
                        /\ DirOf[g] \notin CliDir
                        => g \in stored'
    BY <1>2, <1>3, <1>4 DEF Accounts, StoredOK, Shape, TypeOK, Importer
  <1>7. Pending(run[i]) = run[i].todo \cup {f}
    BY <1>1 DEF Pending, f
  <1>8. i = "worker" => \A g \in Pending(run[i]) : g \in stored' \cup Pending(run'[i])
    BY <1>1, <1>2, <1>3, <1>7 DEF Pending
  <1> QED BY <1>1, <1>2, <1>5, <1>6, <1>8, LoopKeeps

\* Giving up on a file leaves an error in the run.
LEMMA GivesUpAccounts ==
  ASSUME Shape, Accounts, NEW i \in Importer,
         InsertConflict(i) \/ FileFails(i) \/ DiskFull(i) \/ SourceGone(i)
  PROVE  Accounts'
  <1>1. /\ RunStep(i) /\ run'[i].pc = "next" /\ run'[i].errors
        /\ \/ importState' = importState
           \/ importState' = [importState EXCEPT ![run[i].file] = "error"]
    BY InsertConflictStep, FileFailsStep, DiskFullStep, SourceGoneStep
       DEF GivesUp
  <1>2. UNCHANGED <<jobs, staged, assets, stored>>
    BY DEF InsertConflict, FileFails, DiskFull, SourceGone
  <1>3. \A g \in File : HasRow(ContentOf[g])' /\ HasJob(DirOf[g]) => g \in stored'
    BY <1>2 DEF Accounts, StoredOK, HasRow
  <1>4. \A g \in File : /\ importState'[g] \in {"done", "skipped"}
                        /\ DirOf[g] \notin CliDir
                        => g \in stored'
    BY <1>1, <1>2 DEF Accounts, StoredOK, Shape, TypeOK
  <1> QED BY <1>1, <1>2, <1>3, <1>4, LoopKeeps

LEMMA FinishRunAccounts ==
  ASSUME Shape, Accounts, NEW i \in Importer, FinishRun(i)
  PROVE  Accounts'
  <1>1. UNCHANGED <<jobs, staged, importState, assets, stored>>
    BY DEF FinishRun
  <1>2. JobsCalm /\ \A c \in Content : HasRow(c)' => HasRow(c)
    BY <1>1 DEF JobsCalm, HasRow
  <1>3. CASE i = "cli"
    <2>1. RunCalm
      BY <1>3, FinishRunStep DEF RunCalm, Importer
    <2> QED BY <1>1, <1>2, <2>1, CalmKeeps
  <1>4. CASE i = "worker"
    <2>1. /\ run["worker"].pc = "next" /\ run["worker"].todo = {}
          /\ run'["worker"].pc = "finalize"
          /\ run'["worker"].dir = run["worker"].dir
          /\ run["worker"].errors => run'["worker"].errors
      BY <1>4, FinishRunStep
    <2>2. ~run["worker"].errors => FilesIn(run["worker"].dir) \subseteq stored
      BY <2>1 DEF Accounts, RunAccounts, Pending
    <2>3. RunAccounts'
      BY <1>1, <2>1, <2>2 DEF RunAccounts
    <2>4. StoredOK'
      BY <1>1, <2>1 DEF Accounts, StoredOK, HasRow, HasJob
    <2>5. SucceededIsComplete' /\ AcceptedKept'
      BY <1>1 DEF Accounts, SucceededIsComplete, AcceptedKept
    <2> QED BY <2>3, <2>4, <2>5 DEF Accounts
  <1> QED BY <1>3, <1>4 DEF Importer

LEMMA OpenRunAccounts ==
  ASSUME Shape, Accounts, OpenRun
  PROVE  Accounts'
  <1>1. UNCHANGED <<jobs, staged, importState, assets, stored>>
    BY DEF OpenRun
  <1>2. StoredOK'
    BY <1>1, OpenRunStep DEF Accounts, StoredOK, HasRow, HasJob
  <1>3. RunAccounts'
    BY <1>1, OpenRunStep DEF RunAccounts, Pending
  <1>4. SucceededIsComplete' /\ AcceptedKept'
    BY <1>1 DEF Accounts, SucceededIsComplete, AcceptedKept
  <1> QED BY <1>2, <1>3, <1>4 DEF Accounts

\* Only a run without errors ends its job as succeeded, and that run has stored
\* all of it.
LEMMA FinalizeAccounts ==
  ASSUME Shape, Accounts, Finalize
  PROVE  Accounts'
  <1> DEFINE j == run["worker"].job
             d == run["worker"].dir
  <1>1. UNCHANGED <<staged, importState, assets, stored>>
    BY DEF Finalize
  <1>2. /\ j \in Job /\ jobs[j].source = d /\ run["worker"].pc = "finalize"
        /\ jobs'[j].source = d /\ run'["worker"].dir = d
        /\ \A k \in Job \ {j} : jobs'[k] = jobs[k]
    BY FinalizeStep, WorkerJob DEF JobStep
  <1>3. CASE run["worker"].errors
    <2>1. /\ jobs'[j].status = "running" /\ run'["worker"].pc = "retry"
      BY <1>3, FinalizeStep
    <2>2. JobsCalm
      BY <1>1, <1>2, <2>1 DEF JobsCalm
    <2> QED BY <1>1, <2>1, <2>2, CalmKeeps DEF RunCalm, HasRow
  <1>4. CASE ~run["worker"].errors
    <2>1. run'["worker"].pc = "sweep" /\ FilesIn(d) \subseteq stored
      BY <1>2, <1>4, FinalizeStep DEF Accounts, RunAccounts
    <2> HIDE DEF j, d
    <2>2. \A e \in Dir : HasJob(e)' => HasJob(e)
      BY <1>2 DEF HasJob
    <2>3. StoredOK'
      BY <1>1, <2>1, <2>2, ImportQueueAssumption DEF Accounts, StoredOK, HasRow
    <2>4. RunAccounts'
      BY <1>1, <1>2, <2>1 DEF RunAccounts
    <2>5. SucceededIsComplete'
      BY <1>1, <1>2, <2>1 DEF Accounts, SucceededIsComplete
    <2>6. AcceptedKept'
      BY <1>1, <1>2, <2>1 DEF Accounts, AcceptedKept
    <2> QED BY <2>3, <2>4, <2>5, <2>6 DEF Accounts
  <1> QED BY <1>3, <1>4

\* The directory that goes is one whose files are stored.
LEMMA SweepAccounts ==
  ASSUME Shape, Accounts, Sweep
  PROVE  Accounts'
  <1>1. UNCHANGED <<jobs, importState, assets, stored>>
    BY DEF Sweep
  <1>2. /\ run["worker"].pc = "sweep"
        /\ \A d \in staged : d # run["worker"].dir => d \in staged'
    BY DEF Sweep
  <1>3. FilesIn(run["worker"].dir) \subseteq stored
    BY <1>2 DEF Accounts, RunAccounts
  <1>4. run'["worker"].pc \in {"idle", "detect"}
    BY SweepStep
  <1>5. StoredOK' /\ RunAccounts'
    BY <1>1, <1>4 DEF Accounts, StoredOK, RunAccounts, HasRow, HasJob
  <1>6. AcceptedKept'
    BY <1>1, <1>2, <1>3 DEF Accounts, AcceptedKept
  <1>7. SucceededIsComplete'
    BY <1>1 DEF Accounts, SucceededIsComplete
  <1> QED BY <1>5, <1>6, <1>7 DEF Accounts

\* A directory is queued while it is staged, and files that are in the library
\* already count as stored from then on.
LEMMA EnqueueAccounts ==
  ASSUME Shape, Accounts, NEW d \in Dir, EnqueueUpload(d) \/ EnqueueCapture(d)
  PROVE  Accounts'
  <1>1. PICK kind \in {"upload", "capture"} : EnqueueDirectory(kind, d)
    BY DEF EnqueueUpload, EnqueueCapture
  <1>2. /\ UNCHANGED <<importState, assets, run>>
        /\ staged \subseteq staged' /\ d \in staged'
    BY DEF EnqueueUpload, EnqueueCapture, Shape, UploadsOK
  <1>3. stored' = stored \cup {f \in FilesIn(d) : HasRow(ContentOf[f])}
    BY <1>1 DEF EnqueueDirectory
  <1> DEFINE row == QueuedRow(kind, d)
  <1>4. /\ row \in JobRow /\ row.source = d /\ row.status = "queued"
    BY ImportQueueAssumption DEF QueuedRow, JobRow
  <1>5. InsertJob(row)
    BY <1>1 DEF EnqueueDirectory
  <1> HIDE DEF row
  <1>6. PICK j \in Job : /\ jobs'[j] = row
                         /\ \A k \in Job \ {j} : jobs'[k] = jobs[k]
    BY <1>4, <1>5, InsertStep
  <1>7. \A e \in Dir : HasJob(e)' => e = d \/ HasJob(e)
    BY <1>4, <1>6 DEF HasJob
  <1>8. \A f \in File : DirOf[f] \in Dir /\ (DirOf[f] = d => f \in FilesIn(d))
    BY ImportQueueAssumption DEF FilesIn
  <1>9. StoredOK'
    BY <1>2, <1>3, <1>7, <1>8 DEF Accounts, StoredOK, HasRow
  <1>10. RunAccounts'
    BY <1>2, <1>3 DEF Accounts, RunAccounts
  <1>11. SucceededIsComplete'
    BY <1>3, <1>4, <1>6 DEF Accounts, SucceededIsComplete
  <1>12. AcceptedKept'
    BY <1>2, <1>3, <1>4, <1>6 DEF Accounts, AcceptedKept
  <1> QED BY <1>9, <1>10, <1>11, <1>12 DEF Accounts

\* No job is at a directory of `kuraki import`.
LEMMA CliDirHasNoJob ==
  ASSUME Shape, NEW d \in CliDir
  PROVE  ~HasJob(d)
  <1> SUFFICES ASSUME NEW j \in Job, jobs[j].source = d PROVE FALSE
    BY DEF HasJob
  <1>1. d \in Dir /\ d \notin UploadDir \cup CaptureDir
    BY ImportQueueAssumption DEF UploadDir
  <1>2. jobs[j] \in JobRow
    BY DEF Shape, TypeOK
  <1>3. jobs[j].kind \in {None, "upload", "capture", "migration"}
    BY <1>2 DEF JobRow
  <1> QED BY <1>1, <1>3 DEF Shape, JobsOK

\* An upload that is given up was never accepted, and neither was a directory
\* that is taken away.
LEMMA AbortUploadAccounts ==
  ASSUME Shape, Accounts, NEW d \in Dir, AbortUpload(d) \/ RemoveSource(d)
  PROVE  Accounts'
  <1>1. /\ UNCHANGED <<jobs, importState, assets, run, stored>>
        /\ staged' = staged \ {d} /\ ~HasJob(d)
    BY CliDirHasNoJob DEF AbortUpload, RemoveSource, Shape, UploadsOK
  <1>2. StoredOK' /\ RunAccounts'
    BY <1>1 DEF Accounts, StoredOK, RunAccounts, HasRow, HasJob
  <1>3. AcceptedKept'
    BY <1>1 DEF Accounts, AcceptedKept, HasJob
  <1>4. SucceededIsComplete'
    BY <1>1 DEF Accounts, SucceededIsComplete
  <1> QED BY <1>2, <1>3, <1>4 DEF Accounts

\* Changes of a row that leave its directory and do not end it as succeeded.
LEMMA JobStepCalm ==
  ASSUME Shape, NEW j \in Job, JobStep(j), jobs'[j].status # "succeeded",
         staged' = staged
  PROVE  JobsCalm
  BY DEF JobsCalm, JobStep

LEMMA WorkerAccounts ==
  ASSUME Shape, Accounts, Worker
  PROVE  Accounts'
  <1>1. ASSUME NEW j \in Job, Claim(j)
        PROVE  Accounts'
    <2>1. UNCHANGED <<staged, importState, assets, stored>>
      BY <1>1 DEF Claim
    <2>2. JobStep(j) /\ jobs'[j].status # "succeeded"
      BY <1>1, ClaimStep
    <2>3. RunCalm
      BY <1>1, ClaimStep DEF RunCalm
    <2> QED BY <2>1, <2>2, <2>3, JobStepCalm, CalmKeeps DEF HasRow
  <1>2. ASSUME NEW j \in Job, BackoffElapses(j)
        PROVE  Accounts'
    <2>1. UNCHANGED <<staged, importState, assets, stored, run>>
      BY <1>2 DEF BackoffElapses
    <2>2. JobStep(j) /\ jobs'[j].status # "succeeded"
      BY <1>2, BackoffStep
    <2> QED BY <2>1, <2>2, JobStepCalm, CalmKeeps DEF HasRow, RunCalm
  <1>3. ASSUME OpenFails \/ Retry \/ Panic
        PROVE  Accounts'
    <2>1. UNCHANGED <<staged, importState, assets, stored>>
      BY <1>3 DEF OpenFails, Retry, Panic
    <2>2. /\ run["worker"].job \in Job
          /\ ~Panic => run["worker"].pc \notin {"idle", "sweep", "detect"}
      BY <1>3, WorkerJob DEF OpenFails, Retry, Panic
    <2>3. /\ JobStep(run["worker"].job)
          /\ jobs'[run["worker"].job].status # "succeeded"
          /\ run' = [run EXCEPT !["worker"] = Idle]
      BY <1>3, <2>2, FailStep, PanicStep DEF OpenFails, Retry
    <2>4. RunCalm
      BY <2>3, WorkerStops, IdleRun DEF RunCalm
    <2> QED BY <2>1, <2>2, <2>3, <2>4, JobStepCalm, CalmKeeps DEF HasRow
  <1>4. ASSUME Stops \/ Crash
        PROVE  Accounts'
    <2>1. /\ UNCHANGED <<jobs, staged, importState, assets, stored>>
          /\ run' = [run EXCEPT !["worker"] = Idle]
      BY <1>4, StopsStep DEF Crash
    <2>2. JobsCalm /\ RunCalm
      BY <2>1, WorkerStops, IdleRun DEF JobsCalm, RunCalm
    <2> QED BY <2>1, <2>2, CalmKeeps DEF HasRow
  <1>5. ASSUME Start
        PROVE  Accounts'
    <2>1. UNCHANGED <<staged, importState, assets, stored, run>>
      BY <1>5 DEF Start
    <2>2. JobsCalm /\ RunCalm
      BY <1>5, <2>1, StartStep DEF JobsCalm, RunCalm
    <2> QED BY <2>1, <2>2, CalmKeeps DEF HasRow
  <1> QED BY <1>1, <1>2, <1>3, <1>4, <1>5, OpenRunAccounts, FinalizeAccounts,
          SweepAccounts DEF Worker, Stops

LEMMA MigrationAccounts ==
  ASSUME Shape, Accounts, Migration
  PROVE  Accounts'
  <1>1. UNCHANGED <<staged, importState, assets, stored, run>>
    BY DEF Migration, TrackMigration, NameMigration, FinishMigration, MigrationDies
  <1>2. "pending" \notin Dir /\ "run" \notin Dir
    BY ImportQueueAssumption
  <1>3. CASE TrackMigration
    BY <1>1, <1>2, <1>3, TrackMigrationStep, CalmKeeps
       DEF JobsCalm, RunCalm, HasRow
  <1>4. CASE NameMigration \/ \E o \in {"succeeded", "failed"} : FinishMigration(o)
    BY <1>1, <1>2, <1>4, MigrationStep, CalmKeeps
       DEF JobsCalm, RunCalm, HasRow
  <1>5. CASE MigrationDies
    BY <1>1, <1>5, CalmKeeps DEF MigrationDies, JobsCalm, RunCalm, HasRow
  <1> QED BY <1>3, <1>4, <1>5 DEF Migration

LEMMA TrashAccounts ==
  ASSUME Shape, Accounts, Trash
  PROVE  Accounts'
  <1>1. UNCHANGED <<jobs, staged, importState, stored, run>>
    BY DEF Trash, TrashAsset, RestoreAsset, PurgeAsset
  <1>2. \A c \in Content : HasRow(c)' => HasRow(c)
    BY DEF Trash, TrashAsset, RestoreAsset, PurgeAsset, HasRow, Shape, TypeOK,
       AssetRow, None
  <1> QED BY <1>1, <1>2, CalmKeeps DEF JobsCalm, RunCalm

LEMMA AccountsNext ==
  ASSUME Shape, Accounts, [Next]_vars
  PROVE  Accounts'
  <1>1. ASSUME NEW d \in Dir,
               \/ StageUpload(d) \/ EnqueueUpload(d) \/ AbortUpload(d)
               \/ EnqueueCapture(d) \/ CliImport(d) \/ RemoveSource(d)
        PROVE  Accounts'
    <2>1. ASSUME StageUpload(d)
          PROVE  Accounts'
      BY <2>1, CalmKeeps DEF StageUpload, JobsCalm, RunCalm, HasRow
    <2>2. ASSUME CliImport(d)
          PROVE  Accounts'
      <3>1. /\ UNCHANGED <<jobs, staged, importState, assets, stored>>
            /\ run'["worker"] = run["worker"]
        BY <2>2 DEF CliImport, Shape, TypeOK, Importer
      <3> QED BY <3>1, CalmKeeps DEF JobsCalm, RunCalm, HasRow
    <2> QED BY <1>1, <2>1, <2>2, EnqueueAccounts, AbortUploadAccounts
  <1>2. ASSUME CliDies
        PROVE  Accounts'
    <2>1. /\ UNCHANGED <<jobs, staged, importState, assets, stored>>
          /\ run'["worker"] = run["worker"]
      BY <1>2 DEF CliDies, Shape, TypeOK, Importer
    <2> QED BY <2>1, CalmKeeps DEF JobsCalm, RunCalm, HasRow
  <1>3. ASSUME NEW i \in Importer, Import(i)
        PROVE  Accounts'
    BY <1>3, BeginFileAccounts, HashFileAccounts, WriteOriginalAccounts,
       InsertAssetAccounts, MarkDoneAccounts, GivesUpAccounts,
       FinishRunAccounts DEF Import
  <1>4. ASSUME UNCHANGED vars
        PROVE  Accounts'
    BY <1>4, CalmKeeps DEF vars, JobsCalm, RunCalm, HasRow
  <1> QED BY <1>1, <1>2, <1>3, <1>4, WorkerAccounts, TrashAccounts,
          MigrationAccounts DEF Next

LEMMA AccountsHold == Spec => []Accounts
  <1>1. ASSUME Init
        PROVE  Accounts
    <2>1. /\ \A f \in File : importState[f] = None
          /\ \A c \in Content : ~HasRow(c)
          /\ run["worker"].pc = "idle"
      BY <1>1, IdleRun DEF Init, HasRow, Importer
    <2>2. \A j \in Job : jobs[j].source = None /\ jobs[j].source \notin Dir
      BY <1>1, ImportQueueAssumption DEF Init
    <2>3. StoredOK
      BY <2>1, ImportQueueAssumption DEF StoredOK, None
    <2>4. RunAccounts
      BY <2>1 DEF RunAccounts
    <2>5. SucceededIsComplete /\ AcceptedKept
      BY <2>2 DEF SucceededIsComplete, AcceptedKept
    <2> QED BY <2>3, <2>4, <2>5 DEF Accounts
  <1>2. Shape /\ Accounts /\ [Next]_vars => Accounts'
    BY AccountsNext
  <1> QED BY ShapeHolds, <1>1, <1>2, PTL DEF Spec

\* No file of an accepted upload is ever without a copy: until all of them are
\* assets the staging directory stays, whatever fails, panics or crashes.
THEOREM AcceptedIsKept == Spec => []AcceptedKept
  <1>1. Accounts => AcceptedKept
    BY DEF Accounts
  <1> QED BY AccountsHold, <1>1, PTL

\* Every file of a job reported as succeeded has become an asset, whichever
\* attempt dealt with it.
THEOREM SuccessIsComplete == Spec => []SucceededIsComplete
  <1>1. Accounts => SucceededIsComplete
    BY DEF Accounts
  <1> QED BY AccountsHold, <1>1, PTL

-----------------------------------------------------------------------------
(* Receipts.                                                               *)

\* Receipts are published for assets that exist, with the content uploaded.
LEMMA FinalizeReceipts ==
  ASSUME Shape, ReceiptNamesAsset, Finalize
  PROVE  ReceiptNamesAsset'
  <1>1. receipts' = Receipts(run["worker"].dir) /\ assets' = assets
    BY DEF Finalize
  <1> SUFFICES ASSUME NEW d \in CaptureDir, receipts'[d] # None
               PROVE  /\ assets'[receipts'[d]].state # None
                      /\ \E f \in FilesIn(d) : ContentOf[f] = receipts'[d]
    BY DEF ReceiptNamesAsset, HasRow
  <1>2. CASE receipts'[d] = receipts[d]
    BY <1>1, <1>2 DEF ReceiptNamesAsset, HasRow
  <1>3. CASE receipts'[d] # receipts[d]
    <2>1. /\ receipts'[d] = ContentOf[FileOf(d)]
          /\ assets[ContentOf[FileOf(d)]].state = "live"
      BY <1>1, <1>3 DEF Receipts
    <2> QED BY <1>1, <2>1, FileOfCapture DEF HasRow, None
  <1> QED BY <1>2, <1>3

\* A purge takes the receipts of its asset with it.
LEMMA PurgeReceipts ==
  ASSUME Shape, ReceiptNamesAsset, NEW c \in Content, PurgeAsset(c)
  PROVE  ReceiptNamesAsset'
  <1>1. /\ \A d \in CaptureDir :
             receipts'[d] # None => receipts'[d] = receipts[d] /\ receipts[d] # c
        /\ \A e \in Content : e # c => assets'[e] = assets[e]
    BY DEF PurgeAsset, Shape, TypeOK
  <1>2. \A d \in CaptureDir : receipts[d] \in Content \cup {None}
    BY DEF Shape, TypeOK
  <1> QED BY <1>1, <1>2 DEF ReceiptNamesAsset, HasRow

\* The rest keeps the receipts, and every row.
LEMMA OtherReceipts ==
  ASSUME Shape, ReceiptNamesAsset, receipts' = receipts,
         \A c \in Content : HasRow(c) => HasRow(c)'
  PROVE  ReceiptNamesAsset'
  <1>1. \A d \in CaptureDir : receipts[d] \in Content \cup {None}
    BY DEF Shape, TypeOK
  <1> QED BY <1>1 DEF ReceiptNamesAsset, HasRow

LEMMA ReceiptsNext ==
  ASSUME Shape, ReceiptNamesAsset, [Next]_vars
  PROVE  ReceiptNamesAsset'
  <1>1. ASSUME NEW i \in Importer, InsertAsset(i)
        PROVE  ReceiptNamesAsset'
    <2>1. \A c \in Content : HasRow(c) => HasRow(c)'
      BY <1>1 DEF InsertAsset, HasRow, Shape, TypeOK, None
    <2> QED BY <1>1, <2>1, OtherReceipts DEF InsertAsset
  <1>2. ASSUME NEW c \in Content, TrashAsset(c) \/ RestoreAsset(c)
        PROVE  ReceiptNamesAsset'
    <2>1. \A e \in Content : HasRow(e) => HasRow(e)'
      BY <1>2 DEF TrashAsset, RestoreAsset, HasRow, Shape, TypeOK, AssetRow, None
    <2> QED BY <1>2, <2>1, OtherReceipts DEF TrashAsset, RestoreAsset
  <1>3. ASSUME assets' = assets, receipts' = receipts
        PROVE  ReceiptNamesAsset'
    BY <1>3, OtherReceipts DEF HasRow
  <1>4. ASSUME NEW i \in Importer, Import(i)
        PROVE  ReceiptNamesAsset'
    BY <1>1, <1>3, <1>4
       DEF Import, BeginFile, HashFile, WriteOriginal, InsertConflict, MarkDone,
           FileFails, SourceGone, DiskFull, FinishRun
  <1>5. ASSUME Worker
        PROVE  ReceiptNamesAsset'
    BY <1>3, <1>5, FinalizeReceipts
       DEF Worker, Claim, BackoffElapses, OpenRun, OpenFails, FinalizeFails,
           FailUnrecorded, PanicUnrecorded, Unrecorded, Detect, Retry, Sweep, Panic,
           Crash, Start
  <1>6. ASSUME NEW d \in Dir,
               \/ StageUpload(d) \/ EnqueueUpload(d) \/ AbortUpload(d)
               \/ EnqueueCapture(d) \/ CliImport(d) \/ RemoveSource(d)
        PROVE  ReceiptNamesAsset'
    BY <1>3, <1>6 DEF StageUpload, EnqueueUpload, AbortUpload, EnqueueCapture,
       CliImport, RemoveSource
  <1>7. ASSUME CliDies \/ Migration \/ UNCHANGED vars
        PROVE  ReceiptNamesAsset'
    BY <1>3, <1>7 DEF CliDies, Migration, TrackMigration, NameMigration, FinishMigration,
       MigrationDies, vars
  <1> QED BY <1>2, <1>4, <1>5, <1>6, <1>7, PurgeReceipts DEF Next, Trash

\* Every receipt names an asset that exists and holds what the session of the
\* receipt has uploaded.
THEOREM ReceiptsNameAssets == Spec => []ReceiptNamesAsset
  <1>1. Init => ReceiptNamesAsset
    BY DEF Init, ReceiptNamesAsset
  <1>2. Shape /\ ReceiptNamesAsset /\ [Next]_vars => ReceiptNamesAsset'
    BY ReceiptsNext
  <1> QED BY ShapeHolds, <1>1, <1>2, PTL DEF Spec

\* When a receipt appears its asset is out of the trash and its original is on
\* the disk, in that very state.
THEOREM ReceiptsArePublishedLive == Spec => ReceiptIsPublishedLive
  <1> DEFINE Published ==
        \A d \in CaptureDir :
          receipts[d] = None /\ receipts'[d] # None =>
            /\ assets'[receipts'[d]].state = "live"
            /\ originals'[assets'[receipts'[d]].original] = receipts'[d]
  <1>1. ASSUME Shape, RowHasOriginal, Finalize
        PROVE  Published
    <2> SUFFICES ASSUME NEW d \in CaptureDir,
                        receipts[d] = None, receipts'[d] # None
                 PROVE  /\ assets'[receipts'[d]].state = "live"
                        /\ originals'[assets'[receipts'[d]].original] = receipts'[d]
      OBVIOUS
    <2>1. /\ receipts'[d] = ContentOf[FileOf(d)]
          /\ assets[ContentOf[FileOf(d)]].state = "live"
          /\ assets' = assets /\ originals' = originals
      BY <1>1 DEF Finalize, Receipts
    <2>2. ContentOf[FileOf(d)] \in Content
      BY FileOfCapture, ImportQueueAssumption
    <2>3. HasRow(ContentOf[FileOf(d)])
      BY <2>1 DEF HasRow, None
    <2> QED BY <1>1, <2>1, <2>2, <2>3 DEF RowHasOriginal
  <1>2. ASSUME \A d \in CaptureDir : receipts'[d] \in {receipts[d], None}
        PROVE  Published
    BY <1>2
  <1>3. ASSUME Shape, RowHasOriginal, [Next]_vars
        PROVE  Published
    <2>1. ASSUME NEW i \in Importer, Import(i)
          PROVE  receipts' = receipts
      BY <2>1 DEF Import, BeginFile, HashFile, WriteOriginal, InsertAsset,
         InsertConflict, MarkDone, FileFails, SourceGone, DiskFull, FinishRun
    <2>2. ASSUME Worker
          PROVE  Finalize \/ receipts' = receipts
      BY <2>2 DEF Worker, Claim, BackoffElapses, OpenRun, OpenFails,
         FinalizeFails, FailUnrecorded, PanicUnrecorded, Unrecorded, Detect,
         Retry, Sweep, Panic, Crash, Start
    <2>3. ASSUME Trash
          PROVE  \A d \in CaptureDir : receipts'[d] \in {receipts[d], None}
      BY <2>3 DEF Trash, TrashAsset, RestoreAsset, PurgeAsset
    <2>4. ASSUME NEW d \in Dir,
                 \/ StageUpload(d) \/ EnqueueUpload(d) \/ AbortUpload(d)
                 \/ EnqueueCapture(d) \/ CliImport(d) \/ RemoveSource(d)
          PROVE  receipts' = receipts
      BY <2>4 DEF StageUpload, EnqueueUpload, AbortUpload, EnqueueCapture,
         CliImport, RemoveSource
    <2>5. ASSUME CliDies \/ Migration \/ UNCHANGED vars
          PROVE  receipts' = receipts
      BY <2>5 DEF CliDies, Migration, TrackMigration, NameMigration, FinishMigration,
         MigrationDies, vars
    <2> QED BY <1>1, <1>2, <1>3, <2>1, <2>2, <2>3, <2>4, <2>5 DEF Next
  <1>4. Shape /\ RowHasOriginal /\ [Next]_vars => [Published]_vars
    BY <1>3
  <1> QED BY ShapeHolds, OriginalsKept, <1>4, PTL
          DEF Spec, ReceiptIsPublishedLive

-----------------------------------------------------------------------------
(* Rows that have ended.                                                   *)

Ended(j) == jobs[j].status \in {"succeeded", "failed"}

Settled ==
  \A j \in Job :
    Ended(j) /\ j # migrating => jobs'[j] = jobs[j] \/ FailsAfterSuccess(j)

\* The worker only touches the row of its own job, which has not ended unless the
\* run is in what follows its success.
LEMMA WorkerSettled ==
  ASSUME Shape, Worker
  PROVE  Settled
  <1>1. ASSUME NEW j \in Job, JobStep(j), ~Ended(j)
        PROVE  Settled
    BY <1>1 DEF Settled, JobStep
  <1>2. ASSUME NEW j \in Job, Claim(j) \/ BackoffElapses(j)
        PROVE  Settled
    BY <1>1, <1>2, ClaimStep, BackoffStep DEF Ended
  <1>3. ASSUME OpenFails \/ Retry \/ Finalize
        PROVE  Settled
    <2>1. run["worker"].pc \notin {"idle", "sweep", "detect"}
      BY <1>3 DEF OpenFails, Retry, Finalize
    <2>2. run["worker"].job \in Job /\ ~Ended(run["worker"].job)
      BY <2>1, WorkerJob DEF Ended
    <2>3. JobStep(run["worker"].job)
      BY <1>3, <2>1, FailStep, FinalizeStep DEF OpenFails, Retry
    <2> QED BY <1>1, <2>2, <2>3
  <1>6. ASSUME Panic
        PROVE  Settled
    <2>1. run["worker"].pc # "idle"
      BY <1>6 DEF Panic
    <2>2. /\ run["worker"].job \in Job
          /\ IF run["worker"].pc \in {"sweep", "detect"}
             THEN jobs[run["worker"].job].status = "succeeded"
             ELSE ~Ended(run["worker"].job)
      BY <2>1, WorkerJob DEF Ended
    <2>3. /\ JobStep(run["worker"].job)
          /\ jobs'[run["worker"].job] =
               [jobs[run["worker"].job] EXCEPT !.status = "failed"]
      BY <1>6, PanicStep
    <2> QED BY <2>2, <2>3 DEF Settled, FailsAfterSuccess, JobStep
  <1>4. ASSUME Start
        PROVE  Settled
    BY <1>4, StartStep DEF Settled, Ended
  <1>5. ASSUME OpenRun \/ Stops \/ Sweep \/ Crash
        PROVE  Settled
    BY <1>5, StopsStep DEF OpenRun, Sweep, Crash, Settled
  <1> QED BY <1>2, <1>3, <1>4, <1>5, <1>6 DEF Worker, Stops

\* A row that has succeeded or failed is never taken up again: no retry, no
\* recovery and no other job reaches it.  A migration that recovery took for dead
\* writes its own row, and the run that ended a job as succeeded may still fail it,
\* by a panic in the sweep of its directory or in the detection that follows.
THEOREM EndedIsFinal == Spec => EndedStaysEnded
  <1>1. ASSUME Shape, [Next]_vars
        PROVE  Settled
    <2>1. ASSUME NEW d \in Dir, EnqueueUpload(d) \/ EnqueueCapture(d)
          PROVE  Settled
      <3>1. PICK kind \in {"upload", "capture"} : InsertJob(QueuedRow(kind, d))
        BY <2>1 DEF EnqueueUpload, EnqueueCapture, EnqueueDirectory
      <3>2. QueuedRow(kind, d) \in JobRow
        BY ImportQueueAssumption DEF QueuedRow, JobRow
      <3> QED BY <1>1, <3>1, <3>2, InsertStep DEF Settled, Ended, None
    <2>2. ASSUME NEW d \in Dir, \/ StageUpload(d) \/ AbortUpload(d)
                                 \/ CliImport(d) \/ RemoveSource(d)
          PROVE  Settled
      BY <2>2 DEF StageUpload, AbortUpload, CliImport, RemoveSource, Settled
    <2>3. ASSUME NEW i \in Importer, Import(i)
          PROVE  Settled
      BY <2>3 DEF Import, BeginFile, HashFile, WriteOriginal, InsertAsset,
         InsertConflict, MarkDone, FileFails, SourceGone, DiskFull, FinishRun,
         Settled
    <2>4. ASSUME Trash \/ CliDies \/ MigrationDies \/ UNCHANGED vars
          PROVE  Settled
      BY <2>4 DEF Trash, TrashAsset, RestoreAsset, PurgeAsset, CliDies,
         MigrationDies, vars, Settled
    <2>5. ASSUME TrackMigration
          PROVE  Settled
      BY <1>1, <2>5, TrackMigrationStep DEF Settled, Ended, None
    <2>6. ASSUME \/ NameMigration
                 \/ \E o \in {"succeeded", "failed"} : FinishMigration(o)
          PROVE  Settled
      BY <1>1, <2>6, MigrationStep DEF Settled
    <2> QED BY <1>1, <2>1, <2>2, <2>3, <2>4, <2>5, <2>6, WorkerSettled
            DEF Next, Migration
  <1>2. Shape /\ [Next]_vars =>
          [\A j \in Job :
             jobs[j].status \in {"succeeded", "failed"} /\ j # migrating =>
               jobs'[j] = jobs[j] \/ FailsAfterSuccess(j)]_vars
    BY <1>1 DEF Settled, Ended
  <1> QED BY ShapeHolds, <1>2, PTL DEF Spec, EndedStaysEnded

-----------------------------------------------------------------------------
(* Refinement: the queue keeps the promise of Intake.                      *)

\* Where an accepted file is: never lost.
LEMMA WhereItIs ==
  ASSUME Shape, AcceptedKept, NEW f \in Uploaded
  PROVE  /\ DirOf[f] \in Dir /\ f \in FilesIn(DirOf[f])
         /\ Keeping[f] = IF ~HasJob(DirOf[f]) THEN "outside"
                         ELSE IF f \in stored THEN "stored" ELSE "staged"
  <1>1. f \in File /\ DirOf[f] \in Dir /\ f \in FilesIn(DirOf[f])
    BY ImportQueueAssumption DEF Uploaded, FilesIn
  <1>2. HasJob(DirOf[f]) => f \in stored \/ DirOf[f] \in staged
    BY <1>1 DEF HasJob, AcceptedKept
  <1> QED BY <1>1, <1>2 DEF Keeping

\* The jobs of directories stay: a row with one is never given another source.
JobsStay ==
  \A d \in Dir : HasJob(d)' = HasJob(d)

\* A step that queues no import and stores nothing changes nothing for anybody.
LEMMA KeepingStays ==
  ASSUME Shape, AcceptedKept, Shape', AcceptedKept', JobsStay, stored' = stored
  PROVE  Keeping' = Keeping
  <1>1. \A f \in Uploaded : Keeping'[f] = Keeping[f]
    <2> SUFFICES ASSUME NEW f \in Uploaded PROVE Keeping'[f] = Keeping[f]
      OBVIOUS
    <2>1. DirOf[f] \in Dir /\ HasJob(DirOf[f])' = HasJob(DirOf[f])
      BY WhereItIs DEF JobsStay
    <2>2. HasJob(DirOf[f]) => f \in stored \/ DirOf[f] \in staged
      BY <2>1, WhereItIs DEF HasJob, AcceptedKept
    <2>3. HasJob(DirOf[f])' => f \in stored' \/ DirOf[f] \in staged'
      BY <2>1, WhereItIs DEF HasJob, AcceptedKept
    <2> QED BY <2>1, <2>2, <2>3 DEF Keeping
  <1> QED BY <1>1 DEF Keeping

\* Rows keep their directory, or have none before and after.
LEMMA SourcesStay ==
  ASSUME \A j \in Job : \/ jobs'[j].source = jobs[j].source
                        \/ jobs'[j].source \notin Dir /\ jobs[j].source \notin Dir
  PROVE  JobsStay
  BY DEF JobsStay, HasJob

\* An accepted upload: its files are in the server's keeping from now on.
LEMMA EnqueueKeeps ==
  ASSUME Shape, Accounts, Shape', Accounts',
         NEW d \in Dir, EnqueueUpload(d) \/ EnqueueCapture(d)
  PROVE  [Promise!Next]_Keeping
  <1> DEFINE S == {f \in Uploaded : DirOf[f] = d}
             known == {f \in S : f \in stored'}
  <1>1. PICK kind \in {"upload", "capture"} : EnqueueDirectory(kind, d)
    BY DEF EnqueueUpload, EnqueueCapture
  <1>2. ~HasJob(d)
    BY DEF EnqueueUpload, EnqueueCapture, Shape, UploadsOK
  <1>3. \A f \in File : f \in stored' /\ DirOf[f] # d => f \in stored
    BY <1>1 DEF EnqueueDirectory, FilesIn
  <1>4. stored \subseteq stored'
    BY <1>1 DEF EnqueueDirectory
  <1> DEFINE row == QueuedRow(kind, d)
  <1>5. /\ row \in JobRow /\ row.source = d /\ InsertJob(row)
    BY <1>1, ImportQueueAssumption DEF QueuedRow, JobRow, EnqueueDirectory
  <1> HIDE DEF row
  <1>6. PICK j \in Job : /\ jobs'[j] = row /\ jobs[j].source \notin Dir
                         /\ \A k \in Job \ {j} : jobs'[k] = jobs[k]
    BY <1>5, InsertStep
  <1>7. HasJob(d)' /\ \A e \in Dir \ {d} : HasJob(e)' = HasJob(e)
    BY <1>5, <1>6 DEF HasJob
  <1>8. \A f \in Uploaded : DirOf[f] \in Dir /\ f \in File
    BY ImportQueueAssumption DEF Uploaded
  <1>9. \A f \in S : Keeping[f] = "outside"
    BY <1>2 DEF Keeping
  <1>10. AcceptedKept /\ AcceptedKept'
    BY DEF Accounts
  <1>11. \A f \in Uploaded :
           Keeping'[f] = IF f \in known THEN "stored"
                         ELSE IF f \in S THEN "staged" ELSE Keeping[f]
    <2> SUFFICES ASSUME NEW f \in Uploaded
                 PROVE  Keeping'[f] = IF f \in known THEN "stored"
                                      ELSE IF f \in S THEN "staged" ELSE Keeping[f]
      OBVIOUS
    <2>1. CASE f \in S
      <3>1. f \in stored' \/ d \in staged'
        BY <1>7, <1>10, <2>1 DEF HasJob, AcceptedKept, FilesIn, Uploaded
      <3> QED BY <1>7, <2>1, <3>1 DEF Keeping
    <2>2. CASE f \notin S
      <3>1. DirOf[f] \in Dir \ {d}
        BY <1>8, <2>2
      <3>2. HasJob(DirOf[f])' = HasJob(DirOf[f]) /\ (f \in stored' <=> f \in stored)
        BY <1>3, <1>4, <1>7, <1>8, <3>1
      <3>3. HasJob(DirOf[f]) => f \in stored \/ DirOf[f] \in staged
        BY <1>8, <1>10 DEF HasJob, AcceptedKept, FilesIn
      <3>4. HasJob(DirOf[f])' => f \in stored' \/ DirOf[f] \in staged'
        BY <1>8, <1>10 DEF HasJob, AcceptedKept, FilesIn
      <3> QED BY <2>2, <3>2, <3>3, <3>4 DEF Keeping
    <2> QED BY <2>1, <2>2
  <1>12. Keeping' = [f \in Uploaded |-> IF f \in known THEN "stored"
                                         ELSE IF f \in S THEN "staged" ELSE Keeping[f]]
    BY <1>11 DEF Keeping
  <1>13. CASE S = {}
    BY <1>11, <1>13 DEF Keeping
  <1>14. CASE S # {}
    <2>1. S \in SUBSET Uploaded /\ known \in SUBSET S
      OBVIOUS
    <2> HIDE DEF S, known
    <2>2. Promise!Accept(S, known)
      BY <1>9, <1>12, <1>14, <2>1 DEF Promise!Accept
    <2> QED BY <2>1, <2>2 DEF Promise!Next
  <1> QED BY <1>13, <1>14

\* A new asset: the files it is the content of are stored from now on, which
\* were staged, or stored before.
LEMMA InsertAssetKeeps ==
  ASSUME Shape, Accounts, Shape', Accounts', NEW i \in Importer, InsertAsset(i)
  PROVE  [Promise!Next]_Keeping
  <1> DEFINE S == {f \in Uploaded : Keeping[f] = "staged" /\ f \in stored'}
  <1>1. UNCHANGED <<jobs, staged>> /\ stored \subseteq stored'
    BY DEF InsertAsset
  <1>2. \A f \in Uploaded : HasJob(DirOf[f])' = HasJob(DirOf[f])
    BY <1>1 DEF HasJob
  <1>3. AcceptedKept /\ AcceptedKept'
    BY DEF Accounts
  <1>4. \A f \in Uploaded : Keeping'[f] = IF f \in S THEN "stored" ELSE Keeping[f]
    <2> SUFFICES ASSUME NEW f \in Uploaded
                 PROVE  Keeping'[f] = IF f \in S THEN "stored" ELSE Keeping[f]
      OBVIOUS
    <2>1. HasJob(DirOf[f]) => f \in stored \/ DirOf[f] \in staged
      BY <1>3, ImportQueueAssumption DEF HasJob, AcceptedKept, FilesIn, Uploaded
    <2> QED BY <1>1, <1>2, <2>1 DEF Keeping
  <1>5. Keeping' = [f \in Uploaded |-> IF f \in S THEN "stored" ELSE Keeping[f]]
    BY <1>4 DEF Keeping
  <1>6. CASE S = {}
    BY <1>4, <1>6 DEF Keeping
  <1>7. CASE S # {}
    <2>1. S \in SUBSET Uploaded /\ \A f \in S : Keeping[f] = "staged"
      OBVIOUS
    <2> HIDE DEF S
    <2>2. Promise!Store(S)
      BY <1>5, <1>7, <2>1 DEF Promise!Store
    <2> QED BY <2>1, <2>2 DEF Promise!Next
  <1> QED BY <1>6, <1>7

\* No other step moves a file: it leaves the directories of the jobs and the
\* history alone.
LEMMA OtherKeeps ==
  ASSUME Shape, [Next]_vars,
         ~\E d \in Dir : EnqueueUpload(d) \/ EnqueueCapture(d),
         ~\E i \in Importer : InsertAsset(i)
  PROVE  JobsStay /\ stored' = stored
  <1>1. ASSUME NEW d \in Dir, \/ StageUpload(d) \/ AbortUpload(d)
                              \/ CliImport(d) \/ RemoveSource(d)
        PROVE  jobs' = jobs /\ stored' = stored
    BY <1>1 DEF StageUpload, AbortUpload, CliImport, RemoveSource
  <1>2. ASSUME NEW i \in Importer, Import(i)
        PROVE  jobs' = jobs /\ stored' = stored
    BY <1>2 DEF Import, BeginFile, HashFile, WriteOriginal, InsertConflict, MarkDone,
       FileFails, SourceGone, DiskFull, FinishRun
  <1>3. ASSUME Trash \/ CliDies \/ MigrationDies \/ UNCHANGED vars
        PROVE  jobs' = jobs /\ stored' = stored
    BY <1>3 DEF Trash, TrashAsset, RestoreAsset, PurgeAsset, CliDies, MigrationDies, vars
  <1>4. ASSUME jobs' = jobs
        PROVE  JobsStay
    BY <1>4 DEF JobsStay, HasJob
  <1>5. ASSUME \/ TrackMigration \/ NameMigration
               \/ \E o \in {"succeeded", "failed"} : FinishMigration(o)
        PROVE  JobsStay /\ stored' = stored
    <2>1. stored' = stored
      BY <1>5 DEF TrackMigration, NameMigration, FinishMigration
    <2>2. CASE TrackMigration
      <3>1. "pending" \notin Dir
        BY ImportQueueAssumption
      <3> QED BY <2>1, <2>2, <3>1, TrackMigrationStep, SourcesStay
    <2>3. ASSUME \/ NameMigration
                 \/ \E o \in {"succeeded", "failed"} : FinishMigration(o)
          PROVE  JobsStay
      <3>1. /\ migrating \in Job /\ jobs[migrating].kind = "migration"
            /\ \A k \in Job \ {migrating} : jobs'[k] = jobs[k]
            /\ jobs'[migrating].source \notin Dir
        BY <2>3, MigrationStep
      <3>2. jobs[migrating].source \notin Dir
        BY <3>1 DEF Shape, JobsOK
      <3> QED BY <3>1, <3>2, SourcesStay
    <2> QED BY <1>5, <2>1, <2>2, <2>3
  <1>6. ASSUME Worker
        PROVE  JobsStay /\ stored' = stored
    <2>1. stored' = stored
      BY <1>6 DEF Worker, Claim, BackoffElapses, OpenRun, OpenFails, Finalize,
         FinalizeFails, FailUnrecorded, PanicUnrecorded, Unrecorded, Detect,
         Retry, Sweep, Panic, Crash, Start
    <2>2. ASSUME NEW j \in Job, JobStep(j)
          PROVE  JobsStay
      BY <2>2, SourcesStay DEF JobStep
    <2>3. ASSUME NEW j \in Job, Claim(j) \/ BackoffElapses(j)
          PROVE  JobsStay
      BY <2>2, <2>3, ClaimStep, BackoffStep
    <2>4. ASSUME OpenFails \/ Retry \/ Panic \/ Finalize
          PROVE  JobsStay
      <3>1. /\ run["worker"].pc # "idle"
            /\ ~Panic => run["worker"].pc \notin {"sweep", "detect"}
        BY <2>4 DEF OpenFails, Retry, Panic, Finalize
      <3>2. run["worker"].job \in Job
        BY <3>1, WorkerJob
      <3>3. JobStep(run["worker"].job)
        BY <2>4, <3>1, FailStep, PanicStep, FinalizeStep DEF OpenFails, Retry
      <3> QED BY <2>2, <3>2, <3>3
    <2>5. ASSUME Start
          PROVE  JobsStay
      BY <2>5, StartStep, SourcesStay
    <2>6. ASSUME OpenRun \/ Stops \/ Sweep \/ Crash
          PROVE  jobs' = jobs
      BY <2>6, StopsStep DEF OpenRun, Sweep, Crash
    <2> QED BY <1>4, <1>6, <2>1, <2>3, <2>4, <2>5, <2>6 DEF Worker, Stops
  <1> QED BY <1>1, <1>2, <1>3, <1>4, <1>5, <1>6 DEF Next, Migration

\* The queue implements Intake: an accepted file goes from staged to stored,
\* and is never lost on the way, in whatever order uploads, imports, failures,
\* crashes, purges and migrations come.
THEOREM QueueKeepsPromise == Spec => KeepsPromise
  <1>1. Init => Promise!Init
    <2> SUFFICES ASSUME Init PROVE Promise!Init
      OBVIOUS
    <2>1. \A f \in Uploaded : ~HasJob(DirOf[f])
      BY ImportQueueAssumption DEF Init, HasJob, Uploaded
    <2> QED BY <2>1 DEF Keeping, Promise!Init
  <1>2. ASSUME Shape, Accounts, [Next]_vars
        PROVE  [Promise!Next]_Keeping
    <2>1. Shape' /\ Accounts'
      BY <1>2, ShapeNext, AccountsNext
    <2>2. CASE \E d \in Dir : EnqueueUpload(d) \/ EnqueueCapture(d)
      BY <1>2, <2>1, <2>2, EnqueueKeeps
    <2>3. CASE \E i \in Importer : InsertAsset(i)
      BY <1>2, <2>1, <2>3, InsertAssetKeeps
    <2>4. CASE /\ ~\E d \in Dir : EnqueueUpload(d) \/ EnqueueCapture(d)
               /\ ~\E i \in Importer : InsertAsset(i)
      <3>1. JobsStay /\ stored' = stored
        BY <1>2, <2>4, OtherKeeps
      <3>2. AcceptedKept /\ AcceptedKept'
        BY <1>2, <2>1 DEF Accounts
      <3> QED BY <1>2, <2>1, <3>1, <3>2, KeepingStays
    <2> QED BY <2>2, <2>3, <2>4
  <1>3. Shape /\ Accounts /\ [Next]_vars => [Promise!Next]_Keeping
    BY <1>2
  <1> QED BY ShapeHolds, AccountsHold, <1>1, <1>3, PTL DEF Spec, KeepsPromise, Promise!Spec
=============================================================================
