---------------------------- MODULE CaptureSafety ----------------------------
(***************************************************************************)
(* Proofs about the capture protocol on top of the queue, for any number   *)
(* of sessions, requests in progress and bytes: one session is one whole   *)
(* file, one job and one row, and what a phone was told stays true.        *)
(*                                                                         *)
(* No handler looks at anything twice and no lock orders them.  What keeps *)
(* them apart is the claim: of all the handlers that complete a session    *)
(* one at most is past it, the session says so, and there is no job yet    *)
(* until that one inserts it.  Everything a handler has read before can    *)
(* only have grown since.                                                  *)
(***************************************************************************)
EXTENDS CaptureUpload, ImportQueueSafety

-----------------------------------------------------------------------------
(* The inductive invariant.                                                *)

\* Only captures are queued here, by the server alone.
OnlyCaptures ==
  /\ uploading = {} /\ migrating = 0 /\ run["cli"] = Idle
  /\ \A j \in Job : \/ jobs[j].kind = None
                    \/ jobs[j].kind = "capture" /\ jobs[j].source \in CaptureDir

CaptureTypes ==
  /\ session \in [CaptureDir -> SessionRow]
  /\ bytes \in [CaptureDir -> 0 .. Size]
  /\ handler \in [Handler -> Request]
  /\ sweep \in [list: SUBSET CaptureDir, at: CaptureDir \cup {None}]

\* A session that is not there yet has nothing.
AbsentOK(s) ==
  session[s].status = None =>
    /\ session[s].received = 0 /\ s \notin sweep.list /\ sweep.at # s

\* What the row says of the file, and whom it was handed over to.
SessionOK(s) ==
  /\ AbsentOK(s)
  /\ session[s].received <= bytes[s]
  /\ HasJob(s) => /\ session[s].status \in {"queueing", "queued"}
                  /\ bytes[s] = Size

PastClaim(h) == handler[h].pc \in {"enqueue", "link"}

\* What a handler has read before is still so, or more of it.
HandlerOK(h) ==
  handler[h].pc # "idle" =>
    /\ Of(h) \in CaptureDir
    /\ At(h, "create") => session[Of(h)].status = None /\ Of(h) \in staged
    /\ ~At(h, "create") => session[Of(h)].status # None
    /\ At(h, "record") => handler[h].offset + handler[h].length <= bytes[Of(h)]
    /\ At(h, "claim") \/ PastClaim(h) => bytes[Of(h)] = Size
    /\ PastClaim(h) => session[Of(h)].status = "queueing"
    /\ At(h, "enqueue") => ~HasJob(Of(h))
    /\ At(h, "link") => handler[h].job \in Job /\ jobs[handler[h].job].source = Of(h)

\* One handler at most creates a session, and one at most is past its claim.
Alone ==
  \A g, h \in Handler :
    /\ At(g, "create") /\ At(h, "create") /\ Of(g) = Of(h) => g = h
    /\ PastClaim(g) /\ PastClaim(h) /\ Of(g) = Of(h) => g = h

Sessions ==
  /\ \A s \in CaptureDir : SessionOK(s)
  /\ \A h \in Handler : HandlerOK(h)
  /\ Alone
  /\ OneJobPerSession

\* A run that has met no error has dealt with every file it is done with, and
\* import_state says so: what recordCaptureReceipts joins with.
Processed(f) == importState[f] \in {"done", "skipped"}
RunProcessed ==
  LET r == run["worker"] IN
  /\ r.pc \in InLoop /\ ~r.errors =>
       \A f \in FilesIn(r.dir) : Processed(f) \/ f \in Pending(r)
  /\ r.pc = "finalize" /\ ~r.errors => \A f \in FilesIn(r.dir) : Processed(f)

Sound ==
  /\ Shape /\ Originals /\ ReceiptNamesAsset
  /\ OnlyCaptures /\ CaptureTypes /\ Sessions /\ RunProcessed

-----------------------------------------------------------------------------
(* Steps of the queue.                                                     *)

LEMMA QueueIsNext ==
  ASSUME Queue \/ ServerCrash
  PROVE  Next
  BY DEF Queue, ServerCrash, Next, Worker, Importer

\* What the queue never does to a row: give it another kind or directory.
RowsStay ==
  \A j \in Job : jobs'[j].source = jobs[j].source /\ jobs'[j].kind = jobs[j].kind

LEMMA WorkerRows ==
  ASSUME Shape, Worker
  PROVE  RowsStay
  <1>1. ASSUME NEW j \in Job, JobStep(j)
        PROVE  RowsStay
    BY <1>1 DEF RowsStay, JobStep
  <1>2. ASSUME NEW j \in Job, Claim(j) \/ BackoffElapses(j)
        PROVE  RowsStay
    BY <1>1, <1>2, ClaimStep, BackoffStep
  <1>3. ASSUME OpenFails \/ Retry \/ Panic \/ Finalize
        PROVE  RowsStay
    <2>1. run["worker"].pc # "idle"
      BY <1>3 DEF OpenFails, Retry, Panic, Finalize
    <2>2. run["worker"].job \in Job
      BY <2>1, WorkerJob
    <2>3. JobStep(run["worker"].job)
      BY <1>3, FailStep, PanicStep, FinalizeStep DEF OpenFails, Retry
    <2> QED BY <1>1, <2>2, <2>3
  <1>4. ASSUME Start
        PROVE  RowsStay
    BY <1>4, StartStep DEF RowsStay
  <1>5. ASSUME OpenRun \/ Stops \/ Sweep \/ Crash
        PROVE  RowsStay
    BY <1>5, StopsStep DEF OpenRun, Sweep, Crash, RowsStay
  <1> QED BY <1>2, <1>3, <1>4, <1>5 DEF Worker, Stops

\* Only the worker runs, and only it takes a directory away: that of its job.
LEMMA WorkerRuns ==
  ASSUME Shape, Worker
  PROVE  /\ run'["cli"] = run["cli"]
         /\ \A s \in CaptureDir : s \in staged /\ s \notin staged' => HasJob(s)
  <1>1. ASSUME run' = [run EXCEPT !["worker"] = Idle]
        PROVE  run'["cli"] = run["cli"]
    BY <1>1, WorkerStops
  <1>2. ASSUME NEW j \in Job, Claim(j)
        PROVE  run'["cli"] = run["cli"]
    BY <1>2, ClaimStep
  <1>3. run'["cli"] = run["cli"]
    BY <1>1, <1>2, FinalizeStep, OpenRunStep, StopsStep, SweepStep
       DEF Worker, Stops, BackoffElapses, OpenFails, Retry, Panic, Crash, Start, Fail
  <1>4. \A s \in CaptureDir : s \in staged /\ s \notin staged' => HasJob(s)
    <2>1. Sweep \/ staged' = staged
      BY StopsStep DEF Worker, Stops, Claim, BackoffElapses, OpenRun, OpenFails,
         Finalize, Retry, Panic, Crash, Start
    <2>2. ASSUME Sweep
          PROVE  HasJob(run["worker"].dir) /\ staged \ {run["worker"].dir} \subseteq staged'
      BY <2>2, WorkerJob DEF Sweep, HasJob
    <2> QED BY <2>1, <2>2
  <1> QED BY <1>3, <1>4

LEMMA QueueFacts ==
  ASSUME Shape, OnlyCaptures, Queue \/ ServerCrash
  PROVE  /\ OnlyCaptures' /\ RowsStay
         /\ \A s \in CaptureDir : s \in staged /\ s \notin staged' => HasJob(s)
  <1>1. ASSUME Import("worker")
        PROVE  /\ run'["cli"] = run["cli"]
               /\ UNCHANGED <<jobs, staged, uploading, migrating>>
    <2>1. UNCHANGED <<jobs, staged, uploading, migrating>>
      BY <1>1 DEF Import, BeginFile, HashFile, WriteOriginal, InsertAsset, InsertConflict,
         MarkDone, FileFails, SourceGone, DiskFull, FinishRun
    <2>2. RunStep("worker") \/ FinishRun("worker")
      BY <1>1, BeginFileStep, HashFileStep, WriteOriginalStep, InsertAssetStep, MarkDoneStep,
         InsertConflictStep, FileFailsStep, DiskFullStep, SourceGoneStep
         DEF Import, GivesUp, Importer
    <2> QED BY <2>1, <2>2, FinishRunStep DEF RunStep, Importer
  <1>2. ASSUME Trash
        PROVE  UNCHANGED <<jobs, staged, uploading, migrating, run>>
    BY <1>2 DEF Trash, TrashAsset, RestoreAsset, PurgeAsset
  <1>3. ASSUME Worker
        PROVE  UNCHANGED migrating /\ uploading' \in {uploading, {}}
    BY <1>3, StopsStep DEF Worker, Stops, Claim, BackoffElapses, OpenRun, OpenFails,
       Finalize, Retry, Sweep, Panic, Crash, Start
  <1>4. Worker \/ Import("worker") \/ Trash
    BY DEF Queue, ServerCrash, Worker
  <1>5. CASE Worker
    BY <1>3, <1>5, WorkerRows, WorkerRuns DEF OnlyCaptures, RowsStay
  <1>6. CASE Import("worker") \/ Trash
    BY <1>1, <1>2, <1>6 DEF OnlyCaptures, RowsStay
  <1> QED BY <1>4, <1>5, <1>6

\* A session's row may be marked as cut, and keeps what the others go by.
MarksOnly ==
  /\ session' \in [CaptureDir -> SessionRow]
  /\ \A s \in CaptureDir : /\ session'[s].status = session[s].status
                           /\ session'[s].received = session[s].received

LEMMA MarkedRow ==
  ASSUME CaptureTypes, NEW s \in CaptureDir, NEW cut \in BOOLEAN
  PROVE  LET row == [session[s] EXCEPT !.cut = cut] IN
         /\ row \in SessionRow /\ row.status = session[s].status
         /\ row.received = session[s].received
  <1>1. session[s] \in SessionRow
    BY DEF CaptureTypes
  <1> QED BY <1>1 DEF SessionRow

\* The server dies, or a statement fails, with a session claimed.
LEMMA SessionsMarked ==
  ASSUME CaptureTypes,
         \/ session' = session
         \/ ServerCrash
         \/ \E h \in Handler : \E kind : BreaksOff(h, kind) /\ Of(h) \in CaptureDir
  PROVE  MarksOnly
  <1>1. CASE session' = session
    BY <1>1 DEF MarksOnly, CaptureTypes
  <1>2. CASE ServerCrash
    <2> DEFINE Cut(s) == \/ session[s].cut
                         \/ \E h \in Handler :
                              Of(h) = s /\ (At(h, "enqueue") \/ At(h, "link"))
               Mark(s) == [session[s] EXCEPT !.cut = Cut(s)]
    <2>1. session' = [s \in CaptureDir |-> Mark(s)]
      BY <1>2 DEF ServerCrash
    <2>2. ASSUME NEW s \in CaptureDir
          PROVE  /\ Mark(s) \in SessionRow /\ Mark(s).status = session[s].status
                 /\ Mark(s).received = session[s].received
      <3>1. PICK cut \in BOOLEAN : cut = Cut(s)
        <4>1. session[s].cut \in BOOLEAN
          BY DEF CaptureTypes, SessionRow
        <4> QED BY <4>1
      <3> QED BY <3>1, MarkedRow
    <2> HIDE DEF Mark
    <2> QED BY <2>1, <2>2 DEF MarksOnly
  <1>3. ASSUME NEW h \in Handler, NEW kind, BreaksOff(h, kind), Of(h) \in CaptureDir
        PROVE  MarksOnly
    <2> DEFINE cut == session[Of(h)].cut \/ ~At(h, "claim")
    <2>1. cut \in BOOLEAN
      BY <1>3 DEF CaptureTypes, SessionRow
    <2>2. session' = [session EXCEPT ![Of(h)] = [session[Of(h)] EXCEPT !.cut = cut]]
      BY <1>3 DEF BreaksOff
    <2> HIDE DEF cut
    <2> QED BY <1>3, <2>1, <2>2, MarkedRow DEF MarksOnly, CaptureTypes
  <1> QED BY <1>1, <1>2, <1>3

\* The queue leaves sessions and handlers alone; that a directory of theirs is
\* swept, or all of them die with the server, disturbs nothing.
LEMMA QueueSessions ==
  ASSUME Shape, OnlyCaptures, CaptureTypes, Sessions, Queue \/ ServerCrash
  PROVE  Sessions'
  <1>1. UNCHANGED bytes /\ (Queue => UNCHANGED session)
    BY DEF Queue, ServerCrash, captureVars
  <1>2. RowsStay /\ \A s \in CaptureDir : s \in staged /\ s \notin staged' => HasJob(s)
    BY QueueFacts
  <1>3. \A s \in CaptureDir : HasJob(s)' <=> HasJob(s)
    BY <1>2 DEF HasJob, RowsStay
  <1>4. OneJobPerSession'
    BY <1>2 DEF Sessions, OneJobPerSession, RowsStay
  <1>5. CASE Queue
    <2>1. UNCHANGED <<handler, sweep>>
      BY <1>5 DEF Queue, captureVars
    <2>2. \A s \in CaptureDir : SessionOK(s)'
      BY <1>1, <1>3, <1>5, <2>1 DEF Sessions, SessionOK, AbsentOK
    <2>3. \A h \in Handler : HandlerOK(h)'
      <3> SUFFICES ASSUME NEW h \in Handler, handler[h].pc # "idle" PROVE HandlerOK(h)'
        BY <2>1 DEF HandlerOK
      <3>1. HandlerOK(h) /\ Of(h) \in CaptureDir /\ SessionOK(Of(h))
        BY DEF Sessions, HandlerOK
      <3>2. At(h, "create") => Of(h) \in staged'
        BY <1>2, <3>1 DEF HandlerOK, SessionOK, None
      <3> QED BY <1>1, <1>2, <1>3, <1>5, <2>1, <3>1, <3>2
              DEF HandlerOK, At, Of, PastClaim, RowsStay
    <2>4. Alone'
      BY <2>1 DEF Sessions, Alone, At, Of, PastClaim
    <2> QED BY <1>4, <2>2, <2>3, <2>4 DEF Sessions
  <1>6. CASE ServerCrash
    <2>1. handler' = [h \in Handler |-> Quiet] /\ sweep' = NoSweep
      BY <1>6 DEF ServerCrash
    <2>2. \A s \in CaptureDir : SessionOK(s)'
      <3>1. None \notin CaptureDir
        BY ImportQueueAssumption
      <3>2. MarksOnly
        BY <1>6, SessionsMarked
      <3> QED BY <1>1, <1>3, <2>1, <3>1, <3>2
              DEF MarksOnly, Sessions, SessionOK, AbsentOK, NoSweep
    <2>3. (\A h \in Handler : HandlerOK(h)') /\ Alone'
      BY <2>1 DEF HandlerOK, Alone, At, PastClaim, Quiet
    <2> QED BY <1>4, <2>2, <2>3 DEF Sessions
  <1> QED BY <1>5, <1>6

-----------------------------------------------------------------------------
(* The files a run has dealt with.                                         *)

\* A step in the loop deals with a file, or it is an error.
LEMMA LoopProcesses ==
  ASSUME Shape, RunProcessed, RunStep("worker"),
         ~run'["worker"].errors =>
           \A f \in FilesIn(run["worker"].dir) :
             (Processed(f) => Processed(f)' \/ f \in Pending(run'["worker"]))
             /\ (f \in Pending(run["worker"]) =>
                   Processed(f)' \/ f \in Pending(run'["worker"]))
  PROVE  RunProcessed'
  <1>1. /\ run["worker"].pc \in InLoop /\ run'["worker"].pc \in InLoop
        /\ run'["worker"].dir = run["worker"].dir
        /\ run["worker"].errors => run'["worker"].errors
    BY DEF RunStep
  <1>2. run'["worker"].pc # "finalize"
    BY <1>1 DEF InLoop, WithFile
  <1>3. ASSUME ~run'["worker"].errors, NEW f \in FilesIn(run["worker"].dir)
        PROVE  Processed(f)' \/ f \in Pending(run'["worker"])
    BY <1>1, <1>3 DEF RunProcessed
  <1> QED BY <1>1, <1>2, <1>3 DEF RunProcessed

LEMMA FilesAreFiles ==
  ASSUME NEW d
  PROVE  FilesIn(d) \subseteq File
  BY DEF FilesIn

LEMMA ImportProcesses ==
  ASSUME Shape, RunProcessed, Import("worker")
  PROVE  RunProcessed'
  <1> DEFINE i == "worker"
  <1>0. i \in Importer /\ importState \in [File -> States] /\ FilesIn(run[i].dir) \subseteq File
    BY FilesAreFiles DEF Importer, Shape, TypeOK, States
  <1> HIDE DEF i
  <1>1. ASSUME NEW f \in File, BeginFile(i, f)
        PROVE  RunProcessed'
    <2>1. /\ RunStep(i) /\ run[i].pc = "next" /\ f \in run[i].todo
          /\ run'[i].todo = run[i].todo \ {f}
          /\ \/ run'[i].pc = "next" /\ Processed(f) /\ importState' = importState
             \/ /\ run'[i].pc = "hash" /\ run'[i].file = f
                /\ importState' = [importState EXCEPT ![f] = "pending"]
      BY <1>0, <1>1, BeginFileStep DEF Processed
    <2>2. Pending(run[i]) = run[i].todo
      BY <2>1 DEF Pending
    <2>3. \A g \in File : Processed(g) => Processed(g)' \/ g \in Pending(run'[i])
      BY <1>0, <2>1 DEF Processed, Pending
    <2>4. \A g \in Pending(run[i]) : Processed(g)' \/ g \in Pending(run'[i])
      BY <1>0, <2>1, <2>2 DEF Processed, Pending
    <2> QED BY <1>0, <2>1, <2>3, <2>4, LoopProcesses DEF i
  <1>2. ASSUME HashFile(i)
        PROVE  RunProcessed'
    <2> DEFINE f == run[i].file
    <2>1. /\ RunStep(i) /\ run[i].pc = "hash" /\ run'[i].todo = run[i].todo
          /\ \/ /\ run'[i].pc = "next"
                /\ importState' = [importState EXCEPT ![f] = "skipped"]
             \/ run'[i].pc = "write" /\ run'[i].file = f /\ importState' = importState
      BY <1>0, <1>2, HashFileStep
    <2>2. f \in File
      BY <1>0, <2>1, CurrentFile DEF WithFile
    <2>3. Pending(run[i]) = run[i].todo \cup {f}
      BY <2>1 DEF Pending
    <2> HIDE DEF f
    <2>4. \A g \in File : Processed(g) => Processed(g)'
      BY <1>0, <2>1, <2>2 DEF Processed
    <2>5. \A g \in Pending(run[i]) : Processed(g)' \/ g \in Pending(run'[i])
      BY <1>0, <2>1, <2>2, <2>3 DEF Processed, Pending
    <2> QED BY <1>0, <2>1, <2>4, <2>5, LoopProcesses DEF i
  <1>3. ASSUME \/ \E o \in Original : WriteOriginal(i, o)
               \/ InsertAsset(i)
        PROVE  RunProcessed'
    <2>1. /\ RunStep(i) /\ run'[i].todo = run[i].todo /\ run'[i].file = run[i].file
          /\ run[i].pc \in {"write", "insert"} /\ run'[i].pc \in {"insert", "mark"}
      BY <1>0, <1>3, WriteOriginalStep, InsertAssetStep
    <2>2. importState' = importState
      BY <1>3 DEF WriteOriginal, InsertAsset
    <2>3. Pending(run'[i]) = Pending(run[i])
      BY <2>1 DEF Pending
    <2> QED BY <1>0, <2>1, <2>2, <2>3, LoopProcesses DEF i, Processed
  <1>4. ASSUME MarkDone(i)
        PROVE  RunProcessed'
    <2> DEFINE f == run[i].file
    <2>1. /\ RunStep(i) /\ run[i].pc = "mark" /\ run'[i].todo = run[i].todo
          /\ run'[i].pc = "next" /\ importState' = [importState EXCEPT ![f] = "done"]
      BY <1>0, <1>4, MarkDoneStep DEF MarkDone
    <2>2. f \in File
      BY <1>0, <2>1, CurrentFile DEF WithFile
    <2>3. Pending(run[i]) = run[i].todo \cup {f}
      BY <2>1 DEF Pending
    <2> HIDE DEF f
    <2>4. \A g \in File : Processed(g) => Processed(g)'
      BY <1>0, <2>1, <2>2 DEF Processed
    <2>5. \A g \in Pending(run[i]) : Processed(g)' \/ g \in Pending(run'[i])
      BY <1>0, <2>1, <2>2, <2>3 DEF Processed, Pending
    <2> QED BY <1>0, <2>1, <2>4, <2>5, LoopProcesses DEF i
  <1>5. ASSUME InsertConflict(i) \/ FileFails(i) \/ SourceGone(i) \/ DiskFull(i)
        PROVE  RunProcessed'
    <2>1. RunStep(i) /\ run'[i].errors
      BY <1>0, <1>5, InsertConflictStep, FileFailsStep, DiskFullStep, SourceGoneStep
         DEF GivesUp
    <2> QED BY <2>1, LoopProcesses DEF i
  <1>6. ASSUME FinishRun(i)
        PROVE  RunProcessed'
    <2>1. /\ run[i].pc = "next" /\ run[i].todo = {} /\ run'[i].pc = "finalize"
          /\ run'[i].dir = run[i].dir /\ (run[i].errors => run'[i].errors)
      BY <1>0, <1>6, FinishRunStep DEF i
    <2>2. importState' = importState /\ Pending(run[i]) = {}
      BY <1>6, <2>1 DEF FinishRun, Pending
    <2>3. ~run[i].errors => \A f \in FilesIn(run[i].dir) : Processed(f)'
      BY <2>1, <2>2 DEF RunProcessed, Processed, InLoop, i
    <2> QED BY <2>1, <2>3 DEF RunProcessed, InLoop, WithFile, i
  <1> QED BY <1>1, <1>2, <1>3, <1>4, <1>5, <1>6 DEF Import, i

LEMMA QueueProcesses ==
  ASSUME Shape, OnlyCaptures, RunProcessed, Queue \/ ServerCrash
  PROVE  RunProcessed'
  <1>1. ASSUME run'["worker"].pc \in {"idle", "open", "retry", "sweep", "detect"}
        PROVE  RunProcessed'
    BY <1>1 DEF RunProcessed, InLoop, WithFile
  <1>2. ASSUME UNCHANGED <<run, importState>>
        PROVE  RunProcessed'
    BY <1>2 DEF RunProcessed, Processed
  <1>3. ASSUME OpenRun
        PROVE  RunProcessed'
    <2>1. /\ run'["worker"].pc = "next"
          /\ run'["worker"].todo = FilesIn(run'["worker"].dir)
      BY <1>3, OpenRunStep
    <2> QED BY <2>1 DEF RunProcessed, Pending
  <1>4. ASSUME run' = [run EXCEPT !["worker"] = Idle]
        PROVE  RunProcessed'
    BY <1>1, <1>4, WorkerStops, IdleRun
  <1>5. ASSUME Worker
        PROVE  RunProcessed'
    BY <1>1, <1>2, <1>3, <1>4, <1>5, ClaimStep, FinalizeStep, StopsStep, SweepStep
       DEF Worker, Stops, BackoffElapses, OpenFails, Retry, Panic, Crash, Start, Fail
  <1>6. ASSUME Trash
        PROVE  UNCHANGED <<run, importState>>
    BY <1>6 DEF Trash, TrashAsset, RestoreAsset, PurgeAsset
  <1> QED BY <1>2, <1>5, <1>6, ImportProcesses DEF Queue, ServerCrash, Worker

-----------------------------------------------------------------------------
(* Steps of the handlers.                                                  *)

\* They leave what the queue is at work on alone.
LEMMA RestKeeps ==
  ASSUME Sound, UNCHANGED <<queueRest, jobs, stored>>, staged' \subseteq Dir,
         faults' \in 0 .. MaxFaults
  PROVE  Shape' /\ Originals' /\ ReceiptNamesAsset' /\ OnlyCaptures' /\ RunProcessed'
  <1>1. UNCHANGED <<up, uploading, importState, assets, originals, run, receipts, migrating>>
    BY DEF queueRest
  <1>2. Shape'
    <2>1. TypeOK'
      BY <1>1 DEF Sound, Shape, TypeOK
    <2>2. JobsOK' /\ WorkerOK' /\ CliOK' /\ RunsOK' /\ MigrationOK'
      BY <1>1 DEF Sound, Shape, JobsOK, WorkerOK, CliOK, RunsOK, MigrationOK, Locked
    <2>3. UploadsOK'
      BY <1>1 DEF Sound, OnlyCaptures, UploadsOK
    <2> QED BY <2>1, <2>2, <2>3 DEF Shape
  <1>3. Originals' /\ ReceiptNamesAsset'
    BY <1>1 DEF Sound, Originals, OriginalWritten, RowHasOriginal, ReceiptNamesAsset, HasRow
  <1>4. OnlyCaptures' /\ RunProcessed'
    BY <1>1 DEF Sound, OnlyCaptures, RunProcessed, Processed
  <1> QED BY <1>2, <1>3, <1>4

\* A handler takes its next step; the others are where they were.
Moved(h, request) ==
  /\ handler' \in [Handler -> Request]
  /\ handler'[h] = request
  /\ \A g \in Handler \ {h} : handler'[g] = handler[g]

LEMMA HandlerMoves ==
  ASSUME CaptureTypes, NEW h \in Handler, NEW request \in Request,
         handler' = [handler EXCEPT ![h] = request]
  PROVE  Moved(h, request)
  BY DEF CaptureTypes, Moved

LEMMA QuietRequest == Quiet \in Request /\ Quiet.pc = "idle"
  <1>1. 0 \in 0 .. Size
    BY CaptureAssumption
  <1> QED BY <1>1 DEF Quiet, Request

LEMMA Answered ==
  ASSUME CaptureTypes, NEW h \in Handler, Answer(h)
  PROVE  Moved(h, Quiet)
  BY QuietRequest, HandlerMoves DEF Answer

\* What a handler has read stays so while its session keeps its status, its
\* directory and its jobs, and its file does not shrink.
LEMMA OthersKeep ==
  ASSUME CaptureTypes, CaptureTypes', NEW g \in Handler, HandlerOK(g),
         handler'[g] = handler[g], jobs' = jobs,
         handler[g].pc # "idle" =>
           /\ session'[Of(g)].status = session[Of(g)].status
           /\ bytes'[Of(g)] >= bytes[Of(g)]
           /\ At(g, "create") => Of(g) \in staged'
  PROVE  HandlerOK(g)'
  <1> SUFFICES ASSUME handler[g].pc # "idle" PROVE HandlerOK(g)'
    BY DEF HandlerOK
  <1>1. Of(g) \in CaptureDir /\ Of(g)' = Of(g)
    BY DEF HandlerOK, Of
  <1>2. bytes[Of(g)] \in 0 .. Size /\ bytes'[Of(g)] \in 0 .. Size /\ Size \in Nat
    BY <1>1, CaptureAssumption DEF CaptureTypes
  <1>3. handler[g] \in Request
    BY DEF CaptureTypes
  <1>4. handler[g].offset + handler[g].length \in Nat
    BY <1>2, <1>3 DEF Request
  <1>5. HasJob(Of(g))' = HasJob(Of(g))
    BY <1>1 DEF HasJob
  <1> QED BY <1>1, <1>2, <1>4, <1>5 DEF HandlerOK, At, PastClaim, Of

\* A step of h that keeps the others where they were keeps them apart, unless
\* h itself gets where another is.
LEMMA AloneKeeps ==
  ASSUME Alone, NEW h \in Handler, NEW request, Moved(h, request),
         request.pc = "create" =>
           \A g \in Handler \ {h} : ~(At(g, "create") /\ Of(g) = request.session),
         request.pc \in {"enqueue", "link"} =>
           \A g \in Handler \ {h} : ~(PastClaim(g) /\ Of(g) = request.session)
  PROVE  Alone'
  BY DEF Alone, Moved, At, Of, PastClaim

\* A request that ends, and leaves nothing behind but perhaps a file less.
LEMMA AnswerKeeps ==
  ASSUME CaptureTypes, Sessions, NEW h \in Handler, Answer(h),
         UNCHANGED <<jobs, bytes, sweep>>, MarksOnly,
         \A s \in CaptureDir : s \in staged => \/ s \in staged'
                                               \/ At(h, "create") /\ s = Of(h)
  PROVE  CaptureTypes' /\ Sessions'
  <1>1. Moved(h, Quiet)
    BY Answered
  <1>2. CaptureTypes'
    BY <1>1 DEF CaptureTypes, Moved, MarksOnly
  <1>3. \A s \in CaptureDir : SessionOK(s)'
    BY DEF Sessions, SessionOK, AbsentOK, HasJob, MarksOnly
  <1>4. \A g \in Handler : HandlerOK(g)'
    <2> SUFFICES ASSUME NEW g \in Handler PROVE HandlerOK(g)'
      OBVIOUS
    <2>1. CASE g = h
      BY <1>1, <2>1, QuietRequest DEF HandlerOK, Moved
    <2>2. CASE g # h
      <3>1. HandlerOK(g) /\ handler'[g] = handler[g]
        BY <1>1, <2>2 DEF Sessions, Moved
      <3>2. At(g, "create") => Of(g) \in staged'
        BY <2>2, <3>1 DEF Sessions, Alone, HandlerOK, At
      <3>3. handler[g].pc # "idle" =>
              /\ session'[Of(g)].status = session[Of(g)].status
              /\ bytes'[Of(g)] >= bytes[Of(g)]
        BY <3>1 DEF HandlerOK, CaptureTypes, MarksOnly
      <3> QED BY <1>2, <3>1, <3>2, <3>3, OthersKeep
    <2> QED BY <2>1, <2>2
  <1>5. Alone'
    BY <1>1, QuietRequest, AloneKeeps DEF Sessions
  <1>6. OneJobPerSession'
    BY DEF Sessions, OneJobPerSession
  <1> QED BY <1>2, <1>3, <1>4, <1>5, <1>6 DEF Sessions

\* A request that comes in, and has only read.
LEMMA ReceiveKeeps ==
  ASSUME CaptureTypes, Sessions, NEW h \in Handler, NEW request \in Request,
         handler' = [handler EXCEPT ![h] = request],
         UNCHANGED <<jobs, session, bytes, sweep>>, staged \subseteq staged',
         request.pc \notin {"enqueue", "link"},
         request.pc = "create" => request.session \notin staged,
         HandlerOK(h)'
  PROVE  CaptureTypes' /\ Sessions'
  <1>1. Moved(h, request)
    BY HandlerMoves
  <1>2. CaptureTypes'
    BY <1>1 DEF CaptureTypes, Moved
  <1>3. \A s \in CaptureDir : SessionOK(s)'
    BY DEF Sessions, SessionOK, AbsentOK, HasJob
  <1>4. \A g \in Handler \ {h} : HandlerOK(g)'
    <2> SUFFICES ASSUME NEW g \in Handler \ {h} PROVE HandlerOK(g)'
      OBVIOUS
    <2>1. HandlerOK(g) /\ handler'[g] = handler[g]
      BY <1>1 DEF Sessions, Moved
    <2>2. At(g, "create") => Of(g) \in staged'
      BY <2>1 DEF HandlerOK, At
    <2>3. handler[g].pc # "idle" => bytes'[Of(g)] >= bytes[Of(g)]
      BY <2>1 DEF HandlerOK, CaptureTypes
    <2> QED BY <1>2, <2>1, <2>2, <2>3, OthersKeep
  <1>5. Alone'
    <2>1. \A g \in Handler : At(g, "create") => Of(g) \in staged
      BY DEF Sessions, HandlerOK, At
    <2> QED BY <1>1, <2>1, AloneKeeps DEF Sessions
  <1>6. OneJobPerSession'
    BY DEF Sessions, OneJobPerSession
  <1> QED BY <1>2, <1>3, <1>4, <1>5, <1>6 DEF Sessions

\* What one statement on a session's row makes of the table.
LEMMA SessionMoves ==
  ASSUME CaptureTypes, NEW s \in CaptureDir,
         NEW status \in {"receiving", "queueing", "queued", "deleted"},
         session' = [session EXCEPT ![s].status = status]
  PROVE  /\ session' \in [CaptureDir -> SessionRow]
         /\ session'[s].status = status /\ session'[s].received = session[s].received
         /\ \A t \in CaptureDir \ {s} : session'[t] = session[t]
  <1>1. session[s] \in SessionRow
    BY DEF CaptureTypes
  <1>2. [session[s] EXCEPT !.status = status] \in SessionRow
    BY <1>1 DEF SessionRow
  <1> QED BY <1>1, <1>2 DEF CaptureTypes, SessionRow

\* A handler's step on session s: only who is at work on s can be disturbed.
LEMMA StepKeeps ==
  ASSUME CaptureTypes, CaptureTypes', Sessions, NEW h \in Handler, NEW request,
         Moved(h, request), UNCHANGED <<jobs, staged, sweep>>, NEW s \in CaptureDir,
         \A t \in CaptureDir \ {s} : session'[t] = session[t] /\ bytes'[t] = bytes[t],
         SessionOK(s)', HandlerOK(h)',
         \A g \in Handler \ {h} :
           handler[g].pc # "idle" /\ Of(g) = s => HandlerOK(g)',
         request.pc # "create",
         request.pc \in {"enqueue", "link"} =>
           \A g \in Handler \ {h} : ~(PastClaim(g) /\ Of(g) = request.session)
  PROVE  Sessions'
  <1>1. \A t \in CaptureDir : SessionOK(t)'
    <2>1. ASSUME NEW t \in CaptureDir \ {s}
          PROVE  SessionOK(t)'
      BY DEF Sessions, SessionOK, AbsentOK, HasJob
    <2> QED BY <2>1
  <1>2. ASSUME NEW g \in Handler \ {h}
        PROVE  HandlerOK(g)'
    <2>1. HandlerOK(g) /\ handler'[g] = handler[g]
      BY DEF Sessions, Moved
    <2>2. CASE handler[g].pc = "idle"
      BY <2>1, <2>2 DEF HandlerOK
    <2>3. CASE handler[g].pc # "idle" /\ Of(g) = s
      BY <2>3
    <2>4. CASE handler[g].pc # "idle" /\ Of(g) # s
      <3>1. Of(g) \in CaptureDir \ {s}
        BY <2>1, <2>4 DEF HandlerOK
      <3>2. bytes'[Of(g)] >= bytes[Of(g)]
        BY <3>1 DEF CaptureTypes
      <3>3. At(g, "create") => Of(g) \in staged'
        BY <2>1, <2>4 DEF HandlerOK
      <3> QED BY <2>1, <3>1, <3>2, <3>3, OthersKeep
    <2> QED BY <2>2, <2>3, <2>4
  <1>3. Alone'
    BY AloneKeeps DEF Sessions
  <1>4. OneJobPerSession'
    BY DEF Sessions, OneJobPerSession
  <1> QED BY <1>1, <1>2, <1>3, <1>4 DEF Sessions

LEMMA StartInsertSessions ==
  ASSUME Sound, NEW h \in Handler, StartInsert(h)
  PROVE  CaptureTypes' /\ Sessions'
  <1>1. /\ CaptureTypes /\ Sessions /\ HandlerOK(h) /\ At(h, "create")
        /\ UNCHANGED <<jobs, staged, bytes, sweep>>
    BY DEF Sound, Sessions, StartInsert
  <1>2. PICK s \in CaptureDir : s = Of(h)
    BY <1>1 DEF HandlerOK, At
  <1>0. session[s].status = None /\ SessionOK(s)
    BY <1>1, <1>2 DEF HandlerOK, At, Sessions
  <1>3. Moved(h, Quiet)
    BY <1>1, Answered DEF StartInsert
  <1>4. /\ session' \in [CaptureDir -> SessionRow]
        /\ session'[s].status = "receiving" /\ session'[s].received = session[s].received
        /\ \A t \in CaptureDir \ {s} : session'[t] = session[t]
    BY <1>1, <1>2, SessionMoves DEF StartInsert
  <1>5. CaptureTypes'
    BY <1>1, <1>3, <1>4 DEF CaptureTypes, Moved
  <1>6. SessionOK(s)'
    <2>1. ~HasJob(s)
      BY <1>0 DEF SessionOK, None
    <2> QED BY <1>0, <1>1, <1>4, <2>1 DEF SessionOK, AbsentOK, HasJob, None
  <1>7. HandlerOK(h)'
    BY <1>3, QuietRequest DEF HandlerOK, Moved
  <1>8. ASSUME NEW g \in Handler \ {h}, handler[g].pc # "idle", Of(g) = s
        PROVE  FALSE
    <2>1. HandlerOK(g)
      BY <1>1 DEF Sessions
    <2>2. At(g, "create")
      BY <1>0, <1>8, <2>1 DEF HandlerOK
    <2> QED BY <1>1, <1>2, <1>8, <2>2 DEF Sessions, Alone
  <1> QED BY <1>1, <1>2, <1>3, <1>4, <1>5, <1>6, <1>7, <1>8, QuietRequest, StepKeeps

\* A handler's step that leaves the row what it was but for the count: nobody
\* who has read it is disturbed.
LEMMA CountKeeps ==
  ASSUME CaptureTypes, CaptureTypes', Sessions, NEW h \in Handler, NEW request,
         Moved(h, request), UNCHANGED <<jobs, staged, sweep>>, NEW s \in CaptureDir,
         \A t \in CaptureDir \ {s} : session'[t] = session[t] /\ bytes'[t] = bytes[t],
         session'[s].status = session[s].status, bytes'[s] >= bytes[s],
         SessionOK(s)', HandlerOK(h)',
         request.pc \notin {"create", "enqueue", "link"}
  PROVE  Sessions'
  <1>1. ASSUME NEW g \in Handler \ {h}, handler[g].pc # "idle", Of(g) = s
        PROVE  HandlerOK(g)'
    <2>1. HandlerOK(g) /\ handler'[g] = handler[g]
      BY DEF Sessions, Moved
    <2>2. At(g, "create") => Of(g) \in staged'
      BY <1>1, <2>1 DEF HandlerOK
    <2> QED BY <1>1, <2>1, <2>2, OthersKeep
  <1> QED BY <1>1, StepKeeps

LEMMA AppendWriteSessions ==
  ASSUME Sound, NEW h \in Handler, NEW n \in 1 .. Size, AppendWrite(h, n)
  PROVE  CaptureTypes' /\ Sessions'
  <1>1. /\ CaptureTypes /\ Sessions /\ HandlerOK(h) /\ At(h, "append")
        /\ UNCHANGED <<jobs, staged, session, sweep>>
    BY DEF Sound, Sessions, AppendWrite
  <1>2. PICK s \in CaptureDir : s = Of(h)
    BY <1>1 DEF HandlerOK, At
  <1>3. SessionOK(s) /\ session[s].status # None
    BY <1>1, <1>2 DEF HandlerOK, At, Sessions
  <1> DEFINE k == handler[h].offset
  <1>4. k \in 0 .. Size /\ n <= Size - k /\ Size \in Nat /\ bytes[s] \in 0 .. Size
    BY <1>1, CaptureAssumption DEF CaptureTypes, Request, AppendWrite
  <1>5. /\ bytes'[s] \in 0 .. Size /\ bytes'[s] >= bytes[s] /\ bytes'[s] >= k + n
        /\ \A t \in CaptureDir \ {s} : bytes'[t] = bytes[t]
        /\ bytes' \in [CaptureDir -> 0 .. Size]
    <2>1. bytes' = [bytes EXCEPT ![s] = IF k + n > @ THEN k + n ELSE @]
      BY <1>2 DEF AppendWrite, Written
    <2> QED BY <1>1, <1>4, <2>1 DEF CaptureTypes
  <1>6. PICK request \in Request :
          /\ handler' = [handler EXCEPT ![h] = request]
          /\ \/ request = Quiet
             \/ /\ request.pc = "record" /\ request.session = s
                /\ request.offset = k /\ request.length = n
    <2>1. CASE Answer(h)
      BY <2>1, QuietRequest DEF Answer
    <2>2. CASE handler' = [handler EXCEPT ![h] = [@ EXCEPT !.pc = "record", !.length = n]]
      <3>1. handler[h] \in Request /\ n \in 0 .. Size
        BY <1>1, <1>4 DEF CaptureTypes
      <3>2. [handler[h] EXCEPT !.pc = "record", !.length = n] \in Request
        BY <3>1 DEF Request
      <3> QED BY <1>1, <1>2, <2>2, <3>1, <3>2 DEF CaptureTypes, Request, Of
    <2> QED BY <2>1, <2>2 DEF AppendWrite
  <1>7. Moved(h, request)
    BY <1>1, <1>6, HandlerMoves
  <1>8. CaptureTypes'
    BY <1>1, <1>5, <1>7 DEF CaptureTypes, Moved
  <1>9. SessionOK(s)'
    <2>1. session[s].received \in 0 .. Size
      BY <1>1 DEF CaptureTypes, SessionRow
    <2> QED BY <1>1, <1>3, <1>4, <1>5, <2>1 DEF SessionOK, AbsentOK, HasJob
  <1>10. HandlerOK(h)'
    <2>1. CASE request = Quiet
      BY <1>7, <2>1, QuietRequest DEF HandlerOK, Moved
    <2>2. CASE request.pc = "record"
      <3>1. request.session = s /\ request.offset = k /\ request.length = n
        BY <1>6, <2>2, QuietRequest
      <3>2. handler'[h] = request
        BY <1>7 DEF Moved
      <3> HIDE DEF k
      <3> QED BY <1>1, <1>3, <1>5, <2>2, <3>1, <3>2
              DEF HandlerOK, At, Of, PastClaim
    <2> QED BY <1>6, <2>1, <2>2
  <1>11. request.pc \notin {"create", "enqueue", "link"}
    BY <1>6, QuietRequest
  <1> QED BY <1>1, <1>5, <1>7, <1>8, <1>9, <1>10, <1>11, CountKeeps

LEMMA AppendRecordSessions ==
  ASSUME Sound, NEW h \in Handler, AppendRecord(h)
  PROVE  CaptureTypes' /\ Sessions'
  <1>1. /\ CaptureTypes /\ Sessions /\ HandlerOK(h) /\ At(h, "record")
        /\ UNCHANGED <<jobs, staged, bytes, sweep>>
    BY DEF Sound, Sessions, AppendRecord
  <1>2. PICK s \in CaptureDir : s = Of(h)
    BY <1>1 DEF HandlerOK, At
  <1> DEFINE n == handler[h].offset + handler[h].length
  <1>3. /\ SessionOK(s) /\ session[s].status # None
        /\ n \in Nat /\ n <= bytes[s] /\ bytes[s] \in 0 .. Size /\ Size \in Nat
        /\ session[s] \in SessionRow
    BY <1>1, <1>2, CaptureAssumption
       DEF HandlerOK, At, Sessions, CaptureTypes, Request
  <1>4. PICK received \in 0 .. Size :
          /\ received <= bytes[s]
          /\ session' = [session EXCEPT ![s].received = received]
    <2>1. session' = [session EXCEPT ![s].received =
                        IF session[s].status = "deleted" THEN @ ELSE n]
      BY <1>2 DEF AppendRecord
    <2>2. session[s].received \in 0 .. Size /\ session[s].received <= bytes[s]
      BY <1>3 DEF SessionRow, SessionOK
    <2>3. n \in 0 .. Size
      BY <1>3
    <2> HIDE DEF n
    <2>4. CASE session[s].status = "deleted"
      BY <2>1, <2>2, <2>4
    <2>5. CASE session[s].status # "deleted"
      BY <1>3, <2>1, <2>3, <2>5
    <2> QED BY <2>4, <2>5
  <1>5. /\ session' \in [CaptureDir -> SessionRow]
        /\ session'[s].status = session[s].status /\ session'[s].received = received
        /\ \A t \in CaptureDir \ {s} : session'[t] = session[t]
    <2>1. [session[s] EXCEPT !.received = received] \in SessionRow
      BY <1>3 DEF SessionRow
    <2> QED BY <1>1, <1>3, <1>4, <2>1 DEF CaptureTypes, SessionRow
  <1>6. Moved(h, Quiet)
    BY <1>1, Answered DEF AppendRecord
  <1>7. CaptureTypes'
    BY <1>1, <1>5, <1>6 DEF CaptureTypes, Moved
  <1>8. SessionOK(s)'
    BY <1>1, <1>3, <1>4, <1>5 DEF SessionOK, AbsentOK, HasJob
  <1>9. HandlerOK(h)'
    BY <1>6, QuietRequest DEF HandlerOK, Moved
  <1>10. \A t \in CaptureDir \ {s} : session'[t] = session[t] /\ bytes'[t] = bytes[t]
    BY <1>1, <1>5
  <1>11. bytes'[s] >= bytes[s]
    BY <1>1, <1>3
  <1> QED BY <1>1, <1>5, <1>6, <1>7, <1>8, <1>9, <1>10, <1>11, QuietRequest, CountKeeps

\* The claim is a guarded update: whoever gets past it is the only one.
LEMMA CompleteClaimSessions ==
  ASSUME Sound, NEW h \in Handler, CompleteClaim(h)
  PROVE  CaptureTypes' /\ Sessions'
  <1>1. /\ CaptureTypes /\ Sessions /\ HandlerOK(h) /\ At(h, "claim")
        /\ UNCHANGED <<jobs, staged, bytes, sweep>>
    BY DEF Sound, Sessions, CompleteClaim
  <1>2. PICK s \in CaptureDir : s = Of(h)
    BY <1>1 DEF HandlerOK, At
  <1>3. CASE Answer(h) /\ UNCHANGED session
    BY <1>1, <1>3, AnswerKeeps, SessionsMarked
  <1>4. CASE /\ session[s].status = "receiving"
             /\ session' = [session EXCEPT ![s].status = "queueing"]
             /\ handler' = [handler EXCEPT ![h].pc = "enqueue"]
    <2>1. SessionOK(s) /\ bytes[s] = Size
      BY <1>1, <1>2 DEF HandlerOK, At, Sessions
    <2>2. ~HasJob(s)
      BY <1>4, <2>1 DEF SessionOK
    <2>3. PICK request \in Request :
            /\ handler' = [handler EXCEPT ![h] = request]
            /\ request.pc = "enqueue" /\ request.session = s
      <3>1. handler[h] \in Request
        BY <1>1 DEF CaptureTypes
      <3>2. [handler[h] EXCEPT !.pc = "enqueue"] \in Request
        BY <3>1 DEF Request
      <3> QED BY <1>1, <1>2, <1>4, <3>1, <3>2 DEF CaptureTypes, Request, Of
    <2>4. Moved(h, request)
      BY <1>1, <2>3, HandlerMoves
    <2>5. /\ session' \in [CaptureDir -> SessionRow]
          /\ session'[s].status = "queueing" /\ session'[s].received = session[s].received
          /\ \A t \in CaptureDir \ {s} : session'[t] = session[t]
      BY <1>1, <1>4, SessionMoves
    <2>6. CaptureTypes'
      BY <1>1, <2>4, <2>5 DEF CaptureTypes, Moved
    <2>7. SessionOK(s)'
      BY <1>1, <2>1, <2>2, <2>5 DEF SessionOK, AbsentOK, HasJob, None
    <2>8. HandlerOK(h)'
      BY <1>1, <2>1, <2>2, <2>3, <2>4, <2>5
         DEF HandlerOK, Moved, At, Of, PastClaim, HasJob, None
    <2>9. ASSUME NEW g \in Handler \ {h}, handler[g].pc # "idle", Of(g) = s
          PROVE  HandlerOK(g)' /\ ~PastClaim(g)
      <3>1. HandlerOK(g) /\ handler'[g] = handler[g]
        BY <1>1, <2>4 DEF Sessions, Moved
      <3>2. ~PastClaim(g) /\ ~At(g, "create")
        BY <1>4, <2>9, <3>1 DEF HandlerOK, None
      <3> QED BY <1>1, <2>5, <2>9, <3>1, <3>2 DEF HandlerOK, At, Of, PastClaim, None
    <2>10. \A g \in Handler \ {h} : ~(PastClaim(g) /\ Of(g) = request.session)
      BY <2>3, <2>9 DEF PastClaim
    <2> QED BY <1>1, <2>3, <2>4, <2>5, <2>6, <2>7, <2>8, <2>9, <2>10, StepKeeps
  <1> QED BY <1>2, <1>3, <1>4 DEF CompleteClaim

\* The one past the claim hands the session back, or over.
LEMMA ClaimedMoves ==
  ASSUME Sound, NEW h \in Handler, NEW s \in CaptureDir, s = Of(h), PastClaim(h),
         Answer(h), UNCHANGED <<jobs, staged, bytes, sweep>>,
         session' \in [CaptureDir -> SessionRow],
         session'[s].received = session[s].received,
         session'[s].status \in {"receiving", "queued"},
         session'[s].status = "receiving" => ~HasJob(s),
         \A t \in CaptureDir \ {s} : session'[t] = session[t]
  PROVE  CaptureTypes' /\ Sessions'
  <1>1. CaptureTypes /\ Sessions /\ HandlerOK(h) /\ SessionOK(s)
    BY DEF Sound, Sessions
  <1>2. Moved(h, Quiet)
    BY <1>1, Answered
  <1>3. CaptureTypes'
    BY <1>1, <1>2 DEF CaptureTypes, Moved
  <1>4. SessionOK(s)'
    BY <1>1 DEF SessionOK, AbsentOK, HasJob, None
  <1>5. HandlerOK(h)'
    BY <1>2, QuietRequest DEF HandlerOK, Moved
  <1>6. session[s].status = "queueing"
    BY <1>1 DEF HandlerOK, PastClaim
  <1>7. ASSUME NEW g \in Handler \ {h}, handler[g].pc # "idle", Of(g) = s
        PROVE  HandlerOK(g)'
    <2>1. HandlerOK(g) /\ handler'[g] = handler[g]
      BY <1>1, <1>2 DEF Sessions, Moved
    <2>2. ~PastClaim(g)
      BY <1>1, <1>7 DEF Sessions, Alone
    <2>3. ~At(g, "create")
      BY <1>6, <1>7, <2>1 DEF HandlerOK, None
    <2> QED BY <1>6, <1>7, <2>1, <2>2, <2>3 DEF HandlerOK, At, Of, PastClaim, None
  <1>8. \A t \in CaptureDir \ {s} : session'[t] = session[t] /\ bytes'[t] = bytes[t]
    OBVIOUS
  <1> QED BY <1>1, <1>2, <1>3, <1>4, <1>5, <1>7, <1>8, QuietRequest, StepKeeps

LEMMA EnqueueFailsSessions ==
  ASSUME Sound, NEW h \in Handler, EnqueueFails(h)
  PROVE  CaptureTypes' /\ Sessions'
  <1>1. /\ CaptureTypes /\ Sessions /\ HandlerOK(h) /\ At(h, "enqueue") /\ PastClaim(h)
        /\ Answer(h) /\ UNCHANGED <<jobs, staged, bytes, sweep>>
    BY DEF Sound, Sessions, EnqueueFails, At, PastClaim
  <1>2. PICK s \in CaptureDir : s = Of(h)
    BY <1>1 DEF HandlerOK, At
  <1>3. ~HasJob(s)
    BY <1>1, <1>2 DEF HandlerOK, At
  <1>4. /\ session' \in [CaptureDir -> SessionRow]
        /\ session'[s].status = "receiving" /\ session'[s].received = session[s].received
        /\ \A t \in CaptureDir \ {s} : session'[t] = session[t]
    BY <1>1, <1>2, SessionMoves DEF EnqueueFails
  <1> QED BY <1>1, <1>2, <1>3, <1>4, ClaimedMoves

LEMMA CompleteLinkSessions ==
  ASSUME Sound, NEW h \in Handler, CompleteLink(h)
  PROVE  CaptureTypes' /\ Sessions'
  <1>1. /\ CaptureTypes /\ Sessions /\ HandlerOK(h) /\ At(h, "link") /\ PastClaim(h)
        /\ Answer(h) /\ UNCHANGED <<jobs, staged, bytes, sweep>>
    BY DEF Sound, Sessions, CompleteLink, At, PastClaim
  <1>2. PICK s \in CaptureDir : s = Of(h)
    BY <1>1 DEF HandlerOK, At
  <1>3. session[s] \in SessionRow /\ handler[h].job \in Job \cup {0}
    BY <1>1 DEF CaptureTypes, Request
  <1>4. [session[s] EXCEPT !.status = "queued", !.job = handler[h].job] \in SessionRow
    BY <1>3 DEF SessionRow
  <1>5. session' = [session EXCEPT ![s] =
                      [session[s] EXCEPT !.status = "queued", !.job = handler[h].job]]
    BY <1>1, <1>2 DEF CompleteLink, CaptureTypes
  <1>6. /\ session' \in [CaptureDir -> SessionRow]
        /\ session'[s].status = "queued" /\ session'[s].received = session[s].received
        /\ \A t \in CaptureDir \ {s} : session'[t] = session[t]
    BY <1>1, <1>3, <1>4, <1>5 DEF CaptureTypes, SessionRow
  <1> QED BY <1>1, <1>2, <1>6, ClaimedMoves

\* The insert gives the session its only job.
LEMMA CompleteEnqueueKeeps ==
  ASSUME Sound, NEW h \in Handler, CompleteEnqueue(h)
  PROVE  Sound'
  <1>1. /\ Shape /\ CaptureTypes /\ Sessions /\ HandlerOK(h) /\ At(h, "enqueue")
        /\ UNCHANGED <<queueRest, staged, faults, session, bytes, sweep>>
    BY DEF Sound, Sessions, CompleteEnqueue
  <1>2. PICK s \in CaptureDir : s = Of(h)
    BY <1>1 DEF HandlerOK, At
  <1>3. /\ SessionOK(s) /\ bytes[s] = Size /\ session[s].status = "queueing" /\ ~HasJob(s)
    BY <1>1, <1>2 DEF HandlerOK, At, PastClaim, Sessions
  <1>4. s \in UploadDir \cup CaptureDir /\ s \in Dir /\ QueuedRow("capture", s) \in JobRow
    <2>1. s \in Dir
      BY ImportQueueAssumption
    <2>2. 0 \in 0 .. MaxAttempts
      BY ImportQueueAssumption
    <2> QED BY <2>1, <2>2 DEF QueuedRow, JobRow
  <1>5. EnqueueDirectory("capture", s)
    BY <1>2 DEF CompleteEnqueue
  <1>6. PICK j \in Job :
          /\ jobs[j].status = None /\ jobs[j].source \notin Dir
          /\ jobs' \in [Job -> JobRow] /\ jobs'[j] = QueuedRow("capture", s)
          /\ \A k \in Job \ {j} : jobs'[k] = jobs[k]
    <2>1. InsertJob(QueuedRow("capture", s))
      BY <1>5 DEF EnqueueDirectory
    <2> QED BY <1>1, <1>4, <2>1, InsertStep
  <1>7. Shape'
    <2>1. /\ jobs' \in [Job -> JobRow] /\ stored' \subseteq File
          /\ JobsOK' /\ WorkerOK' /\ CliOK' /\ RunsOK' /\ MigrationOK' /\ UploadsOK'
      <3>1. /\ staged \subseteq staged' /\ uploading' \subseteq uploading
            /\ UNCHANGED <<up, run, migrating>> /\ s \notin uploading'
        BY <1>1 DEF queueRest, Sound, OnlyCaptures
      <3> QED BY <1>1, <1>4, <1>5, <3>1, EnqueueShape
    <2>2. TypeOK'
      BY <1>1, <2>1 DEF Shape, TypeOK, queueRest
    <2> QED BY <2>1, <2>2 DEF Shape
  <1>8. Originals' /\ ReceiptNamesAsset' /\ RunProcessed'
    BY <1>1 DEF Sound, queueRest, Originals, OriginalWritten, RowHasOriginal,
       ReceiptNamesAsset, HasRow, RunProcessed, Processed
  <1>9. OnlyCaptures'
    BY <1>1, <1>6 DEF Sound, queueRest, OnlyCaptures, QueuedRow
  <1>10. PICK i \in Job :
           /\ jobs[i].status = None /\ jobs'[i].status # None
           /\ handler' = [handler EXCEPT ![h] = [@ EXCEPT !.pc = "link", !.job = i]]
    BY DEF CompleteEnqueue
  <1>11. i = j
    BY <1>6, <1>10
  <1>12. PICK request \in Request :
           /\ handler' = [handler EXCEPT ![h] = request]
           /\ request.pc = "link" /\ request.session = s /\ request.job = j
    <2>1. handler[h] \in Request
      BY <1>1 DEF CaptureTypes
    <2>2. [handler[h] EXCEPT !.pc = "link", !.job = j] \in Request
      BY <2>1 DEF Request
    <2> QED BY <1>1, <1>2, <1>10, <1>11, <2>1, <2>2 DEF CaptureTypes, Request, Of
  <1>13. Moved(h, request)
    BY <1>1, <1>12, HandlerMoves
  <1>14. CaptureTypes'
    BY <1>1, <1>13 DEF CaptureTypes, Moved
  <1>15. /\ \A k \in Job \ {j} : jobs'[k].source = jobs[k].source
         /\ jobs'[j].source = s
         /\ \A t \in CaptureDir : jobs[j].source # t
    BY <1>6, ImportQueueAssumption DEF QueuedRow
  <1>16. \A t \in CaptureDir : HasJob(t)' <=> HasJob(t) \/ t = s
    BY <1>15 DEF HasJob
  <1>17. OneJobPerSession'
    BY <1>1, <1>3, <1>15 DEF Sessions, OneJobPerSession, HasJob
  <1>18. \A t \in CaptureDir : SessionOK(t)'
    BY <1>1, <1>3, <1>16 DEF Sessions, SessionOK, AbsentOK
  <1>19. ASSUME NEW g \in Handler
         PROVE  HandlerOK(g)'
    <2>1. CASE g = h
      BY <1>1, <1>2, <1>3, <1>12, <1>13, <1>15, <2>1
         DEF HandlerOK, Moved, At, Of, PastClaim, None
    <2>2. CASE g # h
      <3> SUFFICES ASSUME handler[g].pc # "idle" PROVE HandlerOK(g)'
        BY <1>13, <2>2 DEF HandlerOK, Moved
      <3>1. HandlerOK(g) /\ handler'[g] = handler[g] /\ Of(g) \in CaptureDir
        BY <1>1, <1>13, <2>2 DEF Sessions, Moved, HandlerOK
      <3>2. At(g, "enqueue") => Of(g) # s
        BY <1>1, <1>2, <2>2 DEF Sessions, Alone, PastClaim, At
      <3>3. At(g, "enqueue") => ~HasJob(Of(g))'
        BY <1>13, <1>16, <2>2, <3>1, <3>2 DEF HandlerOK, At, Of, Moved
      <3>4. At(g, "link") => jobs'[handler[g].job].source = Of(g)
        BY <1>15, <3>1 DEF HandlerOK
      <3> QED BY <1>1, <3>1, <3>3, <3>4 DEF HandlerOK, At, Of, PastClaim
    <2> QED BY <2>1, <2>2
  <1>20. Alone'
    <2>1. \A g \in Handler \ {h} : ~(PastClaim(g) /\ Of(g) = request.session)
      BY <1>1, <1>2, <1>12 DEF Sessions, Alone, PastClaim, At
    <2> QED BY <1>1, <1>12, <1>13, <2>1, AloneKeeps DEF Sessions
  <1> QED BY <1>7, <1>8, <1>9, <1>14, <1>17, <1>18, <1>19, <1>20 DEF Sound, Sessions

\* A step of the protocol other than the insert of the job.
LEMMA ProtocolKeeps ==
  ASSUME Sound, UNCHANGED <<queueRest, jobs, stored>>, staged' \subseteq Dir,
         faults' = faults \/ (\E kind : Fault(kind)),
         CaptureTypes' /\ Sessions'
  PROVE  Sound'
  <1>1. faults' \in 0 .. MaxFaults
    BY FaultType DEF Sound, Shape, TypeOK
  <1> QED BY <1>1, RestKeeps DEF Sound

LEMMA CaptureStarts ==
  ASSUME Sound, NEW h \in Handler, NEW s \in CaptureDir,
         StartStage(h, s) \/ AppendRead(h, s) \/ CompleteRead(h, s)
  PROVE  Sound'
  <1>1. CaptureTypes /\ Sessions /\ SessionOK(s) /\ staged \subseteq Dir /\ s \in Dir
    BY ImportQueueAssumption DEF Sound, Sessions, Shape, TypeOK
  <1>2. session[s] \in SessionRow /\ 0 \in 0 .. Size /\ Size \in Nat
    BY <1>1, CaptureAssumption DEF CaptureTypes
  <1>3. PICK request \in Request :
          /\ handler' = [handler EXCEPT ![h] = request] /\ request.session = s
          /\ \/ StartStage(h, s) /\ request.pc = "create"
             \/ AppendRead(h, s) /\ request.pc = "append"
             \/ CompleteRead(h, s) /\ request.pc = "claim"
    <2>1. CASE StartStage(h, s)
      <3>1. [Quiet EXCEPT !.pc = "create", !.session = s] \in Request
        BY <1>2 DEF Quiet, Request
      <3> QED BY <2>1, <3>1 DEF StartStage, Receive, Quiet
    <2>2. CASE AppendRead(h, s)
      <3>1. [Quiet EXCEPT !.pc = "append", !.session = s,
                          !.offset = session[s].received] \in Request
        BY <1>2 DEF Quiet, Request, SessionRow
      <3> QED BY <2>2, <3>1 DEF AppendRead, Receive, Quiet
    <2>3. CASE CompleteRead(h, s)
      <3>1. [Quiet EXCEPT !.pc = "claim", !.session = s] \in Request
        BY <1>2 DEF Quiet, Request
      <3> QED BY <2>3, <3>1 DEF CompleteRead, Receive, Quiet
    <2> QED BY <2>1, <2>2, <2>3
  <1>4. handler'[h] = request
    BY <1>1, <1>3, HandlerMoves DEF Moved
  <1>5. /\ UNCHANGED <<queueRest, jobs, stored, faults, session, bytes, sweep>>
        /\ staged \subseteq staged' /\ staged' \subseteq Dir
    BY <1>1 DEF StartStage, AppendRead, CompleteRead
  <1>6. HandlerOK(h)'
    <2>1. CASE StartStage(h, s) /\ request.pc = "create"
      BY <1>3, <1>4, <1>5, <2>1 DEF StartStage, HandlerOK, At, Of, PastClaim
    <2>2. CASE AppendRead(h, s) /\ request.pc = "append"
      BY <1>3, <1>4, <1>5, <2>2 DEF AppendRead, HandlerOK, At, Of, PastClaim, None
    <2>3. CASE CompleteRead(h, s) /\ request.pc = "claim"
      <3>1. bytes[s] = Size
        BY <1>1, <1>2, <2>3 DEF CompleteRead, SessionOK, CaptureTypes
      <3> QED BY <1>3, <1>4, <1>5, <2>3, <3>1
              DEF CompleteRead, HandlerOK, At, Of, PastClaim, None
    <2> QED BY <1>3, <2>1, <2>2, <2>3
  <1>7. request.pc = "create" => request.session \notin staged
    BY <1>3 DEF StartStage
  <1>8. CaptureTypes' /\ Sessions'
    BY <1>1, <1>3, <1>5, <1>6, <1>7, ReceiveKeeps
  <1> QED BY <1>5, <1>8, ProtocolKeeps

LEMMA CaptureGoesOn ==
  ASSUME Sound, NEW h \in Handler,
         \/ StartInsert(h) \/ (\E n \in 1 .. Size : AppendWrite(h, n))
         \/ AppendRecord(h) \/ CompleteClaim(h) \/ EnqueueFails(h) \/ CompleteLink(h)
  PROVE  Sound'
  <1>1. CaptureTypes' /\ Sessions'
    BY StartInsertSessions, AppendWriteSessions, AppendRecordSessions,
       CompleteClaimSessions, EnqueueFailsSessions, CompleteLinkSessions
  <1>2. /\ UNCHANGED <<queueRest, jobs, stored, staged>>
        /\ faults' = faults \/ (\E kind : Fault(kind))
    BY DEF StartInsert, AppendWrite, AppendRecord, CompleteClaim, EnqueueFails,
       CompleteLink
  <1>3. staged' \subseteq Dir
    BY <1>2 DEF Sound, Shape, TypeOK
  <1> QED BY <1>1, <1>2, <1>3, ProtocolKeeps

LEMMA CaptureGivesUp ==
  ASSUME Sound, NEW h \in Handler,
         \/ StartFails(h) \/ AppendMissing(h) \/ AppendFails(h)
         \/ Disconnect(h) \/ StatementFails(h)
  PROVE  Sound'
  <1>1. /\ Answer(h) /\ UNCHANGED <<queueRest, jobs, stored, bytes, sweep>>
        /\ faults' = faults \/ (\E kind : Fault(kind))
        /\ \/ staged' = staged
           \/ At(h, "create") /\ staged' = staged \ {Of(h)}
        /\ session' = session \/ (\E kind : BreaksOff(h, kind))
    BY DEF StartFails, AppendMissing, AppendFails, Disconnect, StatementFails, BreaksOff
  <1>2. CaptureTypes /\ Sessions /\ staged \subseteq Dir /\ MarksOnly
    <2>1. CaptureTypes /\ Sessions /\ staged \subseteq Dir
      BY DEF Sound, Shape, TypeOK
    <2>2. (\E kind : BreaksOff(h, kind)) => Of(h) \in CaptureDir
      BY <2>1 DEF BreaksOff, Sessions, HandlerOK
    <2> QED BY <1>1, <2>1, <2>2, SessionsMarked
  <1>3. CaptureTypes' /\ Sessions'
    BY <1>1, <1>2, AnswerKeeps
  <1> QED BY <1>1, <1>2, <1>3, ProtocolKeeps

LEMMA CaptureKeeps ==
  ASSUME Sound, NEW h \in Handler, Capture(h)
  PROVE  Sound'
  BY CaptureStarts, CaptureGoesOn, CaptureGivesUp, CompleteEnqueueKeeps DEF Capture

-----------------------------------------------------------------------------
(* Steps of the sweep.                                                     *)

\* No handler moves; a directory that goes is of a session with a row.
LEMMA SweepKeeps ==
  ASSUME CaptureTypes, CaptureTypes', Sessions, UNCHANGED <<jobs, bytes, handler>>,
         \A s \in CaptureDir : s \in staged => s \in staged' \/ session[s].status # None,
         \A s \in CaptureDir : SessionOK(s)',
         \A s \in CaptureDir : \/ session'[s].status = session[s].status
                               \/ session[s].status = "receiving"
                                  /\ session'[s].status = "deleted"
  PROVE  Sessions'
  <1>1. ASSUME NEW g \in Handler
        PROVE  HandlerOK(g)'
    <2> SUFFICES ASSUME handler[g].pc # "idle" PROVE HandlerOK(g)'
      BY DEF HandlerOK
    <2>1. HandlerOK(g) /\ Of(g) \in CaptureDir
      BY DEF Sessions, HandlerOK
    <2>2. At(g, "create") => session'[Of(g)].status = None /\ Of(g) \in staged'
      BY <2>1 DEF HandlerOK, None
    <2>3. ~At(g, "create") => session'[Of(g)].status # None
      BY <2>1 DEF HandlerOK, None
    <2>4. PastClaim(g) => session'[Of(g)].status = "queueing"
      BY <2>1 DEF HandlerOK
    <2> QED BY <2>1, <2>2, <2>3, <2>4 DEF HandlerOK, At, Of, PastClaim, HasJob
  <1>2. Alone' /\ OneJobPerSession'
    BY DEF Sessions, Alone, At, Of, PastClaim, OneJobPerSession
  <1> QED BY <1>1, <1>2 DEF Sessions

LEMMA SweepsKeep ==
  ASSUME Sound, Janitor
  PROVE  Sound'
  <1>1. CaptureTypes /\ Sessions /\ staged \subseteq Dir /\ None \notin CaptureDir
    BY ImportQueueAssumption DEF Sound, Shape, TypeOK
  <1>2. /\ UNCHANGED <<queueRest, jobs, stored, bytes, handler>>
        /\ faults' = faults \/ (\E kind : Fault(kind))
        /\ staged' \subseteq staged
    BY DEF Janitor, SweepList, SweepRemove, RemoveFails, SweepDelete, DeleteFails
  <1>3. CASE SweepList
    <2>1. PICK stale \in SUBSET CaptureDir :
            /\ \A s \in stale : session[s].status = "receiving"
            /\ sweep' = [list |-> stale, at |-> None]
            /\ UNCHANGED <<session, staged>>
      BY <1>3 DEF SweepList
    <2>2. CaptureTypes'
      BY <1>1, <1>2, <2>1 DEF CaptureTypes
    <2>3. \A s \in CaptureDir : SessionOK(s)'
      BY <1>1, <1>2, <2>1 DEF Sessions, SessionOK, AbsentOK, HasJob, None
    <2>4. Sessions'
      BY <1>1, <1>2, <2>1, <2>2, <2>3, SweepKeeps
    <2> QED BY <1>1, <1>2, <2>2, <2>4, ProtocolKeeps
  <1>4. ASSUME NEW s \in CaptureDir, SweepRemove(s)
        PROVE  Sound'
    <2>1. /\ s \in sweep.list /\ staged' = staged \ {s} /\ session' = session
          /\ sweep' = [list |-> sweep.list \ {s}, at |-> s]
      BY <1>4 DEF SweepRemove
    <2>2. CaptureTypes'
      BY <1>1, <1>2, <2>1 DEF CaptureTypes
    <2>3. session[s].status # None
      BY <1>1, <2>1 DEF Sessions, SessionOK, AbsentOK
    <2>4. \A t \in CaptureDir : SessionOK(t)'
      BY <1>1, <1>2, <2>1, <2>3 DEF Sessions, SessionOK, AbsentOK, HasJob
    <2>5. Sessions'
      BY <1>1, <1>2, <2>1, <2>2, <2>3, <2>4, SweepKeeps
    <2> QED BY <1>1, <1>2, <2>2, <2>5, ProtocolKeeps
  <1>5. CASE SweepDelete
    <2>1. PICK s \in CaptureDir : s = sweep.at
      BY <1>1, <1>5 DEF SweepDelete, CaptureTypes
    <2>2. /\ session' = [session EXCEPT ![s].status =
                           IF @ = "receiving" THEN "deleted" ELSE @]
          /\ staged' = staged /\ sweep' = [sweep EXCEPT !.at = None]
      BY <1>5, <2>1 DEF SweepDelete
    <2>3. session[s] \in SessionRow /\ session[s].status # None /\ SessionOK(s)
      BY <1>1, <2>1 DEF Sessions, SessionOK, AbsentOK, CaptureTypes
    <2>4. /\ session' \in [CaptureDir -> SessionRow]
          /\ session'[s].received = session[s].received
          /\ session'[s].status = IF session[s].status = "receiving"
                                  THEN "deleted" ELSE session[s].status
          /\ \A t \in CaptureDir \ {s} : session'[t] = session[t]
      <3>1. session[s].status \in {"receiving", "queueing", "queued", "deleted"}
        BY <2>3 DEF SessionRow, None
      <3>2. PICK status \in {"receiving", "queueing", "queued", "deleted"} :
              status = IF session[s].status = "receiving"
                       THEN "deleted" ELSE session[s].status
        BY <3>1
      <3>3. session' = [session EXCEPT ![s].status = status]
        BY <2>2, <3>2
      <3> QED BY <1>1, <3>2, <3>3, SessionMoves
    <2>5. sweep'.list = sweep.list /\ sweep'.at = None
          /\ sweep' \in [list: SUBSET CaptureDir, at: CaptureDir \cup {None}]
      BY <1>1, <2>2 DEF CaptureTypes
    <2>6. CaptureTypes'
      BY <1>1, <1>2, <2>4, <2>5 DEF CaptureTypes
    <2>7. \A t \in CaptureDir \ {s} : SessionOK(t)'
      BY <1>1, <1>2, <2>4, <2>5 DEF Sessions, SessionOK, AbsentOK, HasJob
    <2>8. SessionOK(s)'
      BY <1>1, <1>2, <2>3, <2>4, <2>5 DEF SessionOK, AbsentOK, HasJob, None
    <2>9. Sessions'
      BY <1>1, <1>2, <2>2, <2>4, <2>6, <2>7, <2>8, SweepKeeps
    <2> QED BY <1>1, <1>2, <2>6, <2>9, ProtocolKeeps
  <1>6. ASSUME DeleteFails \/ \E s \in CaptureDir : RemoveFails(s)
        PROVE  Sound'
    <2>1. /\ UNCHANGED <<session, staged>>
          /\ sweep' \in [list: SUBSET CaptureDir, at: CaptureDir \cup {None}]
          /\ sweep'.list \subseteq sweep.list /\ sweep'.at \in {sweep.at, None}
      BY <1>1, <1>6 DEF DeleteFails, RemoveFails, CaptureTypes
    <2>2. CaptureTypes'
      BY <1>1, <1>2, <2>1 DEF CaptureTypes
    <2>3. \A s \in CaptureDir : SessionOK(s)'
      BY <1>1, <1>2, <2>1 DEF Sessions, SessionOK, AbsentOK, HasJob
    <2>4. Sessions'
      BY <1>1, <1>2, <2>1, <2>2, <2>3, SweepKeeps
    <2> QED BY <1>1, <1>2, <2>1, <2>2, <2>4, ProtocolKeeps
  <1> QED BY <1>3, <1>4, <1>5, <1>6 DEF Janitor

LEMMA ExpireKeeps ==
  ASSUME Sound, NEW s \in CaptureDir, Expire(s)
  PROVE  Sound'
  <1>1. CaptureTypes /\ Sessions /\ staged \subseteq Dir
    BY DEF Sound, Shape, TypeOK
  <1>2. UNCHANGED <<queueRest, jobs, stored, staged, faults, bytes, handler, sweep>>
    BY DEF Expire
  <1>3. /\ session' \in [CaptureDir -> SessionRow]
        /\ \A t \in CaptureDir : /\ session'[t].status = session[t].status
                                 /\ session'[t].received = session[t].received
    <2>1. session[s] \in SessionRow
      BY <1>1 DEF CaptureTypes
    <2>2. [session[s] EXCEPT !.expired = TRUE] \in SessionRow
      BY <2>1 DEF SessionRow
    <2> QED BY <1>1, <2>1, <2>2 DEF Expire, CaptureTypes, SessionRow
  <1>4. CaptureTypes'
    BY <1>1, <1>2, <1>3 DEF CaptureTypes
  <1>5. \A t \in CaptureDir : SessionOK(t)'
    BY <1>1, <1>2, <1>3 DEF Sessions, SessionOK, AbsentOK, HasJob
  <1>6. Sessions'
    BY <1>1, <1>2, <1>3, <1>4, <1>5, SweepKeeps
  <1> QED BY <1>1, <1>2, <1>4, <1>6, ProtocolKeeps

-----------------------------------------------------------------------------
LEMMA QueueKeeps ==
  ASSUME Sound, Queue \/ ServerCrash
  PROVE  Sound'
  <1>1. Shape /\ Originals /\ ReceiptNamesAsset /\ OnlyCaptures /\ CaptureTypes
        /\ Sessions /\ RunProcessed /\ [Next]_vars
    BY QueueIsNext DEF Sound
  <1>2. Shape' /\ Originals' /\ ReceiptNamesAsset'
    BY <1>1, ShapeNext, OriginalsNext, ReceiptsNext
  <1>3. OnlyCaptures' /\ Sessions' /\ RunProcessed'
    BY <1>1, QueueFacts, QueueSessions, QueueProcesses
  <1>4. CaptureTypes'
    <2>1. CASE Queue
      BY <1>1, <2>1 DEF Queue, captureVars, CaptureTypes
    <2>2. CASE ServerCrash
      <3>1. MarksOnly
        BY <1>1, <2>2, SessionsMarked
      <3> QED BY <1>1, <2>2, <3>1, QuietRequest
              DEF MarksOnly, ServerCrash, CaptureTypes, NoSweep
    <2> QED BY <2>1, <2>2
  <1> QED BY <1>2, <1>3, <1>4 DEF Sound

LEMMA SoundNext ==
  ASSUME Sound, [CaptureNext]_allVars
  PROVE  Sound'
  <1>1. CASE UNCHANGED allVars
    <2>1. UNCHANGED vars /\ [Next]_vars
      BY <1>1 DEF allVars
    <2>2. Shape' /\ Originals' /\ ReceiptNamesAsset'
      BY <2>1, ShapeNext, OriginalsNext, ReceiptsNext DEF Sound
    <2>3. OnlyCaptures' /\ RunProcessed'
      BY <2>1 DEF Sound, vars, OnlyCaptures, RunProcessed, Processed
    <2>4. CaptureTypes' /\ Sessions'
      BY <1>1 DEF allVars, vars, captureVars, Sound, CaptureTypes, Sessions, SessionOK,
         AbsentOK, HasJob, HandlerOK, At, Of, PastClaim, Alone, OneJobPerSession
    <2> QED BY <2>2, <2>3, <2>4 DEF Sound
  <1>2. CASE CaptureNext
    BY <1>2, CaptureKeeps, SweepsKeep, ExpireKeeps, QueueKeeps DEF CaptureNext
  <1> QED BY <1>1, <1>2

LEMMA SoundInit == CaptureInit => Sound
  <1> SUFFICES ASSUME CaptureInit PROVE Sound
    OBVIOUS
  <1>1. Init /\ Shape
    BY ShapeInit DEF CaptureInit
  <1>2. Originals /\ ReceiptNamesAsset
    BY <1>1 DEF Init, Originals, OriginalWritten, RowHasOriginal, HasRow,
       ReceiptNamesAsset, Idle
  <1>3. OnlyCaptures /\ RunProcessed
    <2>1. run["cli"] = Idle /\ run["worker"] = Idle
      BY <1>1 DEF Init, Importer
    <2>2. OnlyCaptures
      <3>1. \A j \in Job : jobs[j].kind = None
        BY <1>1 DEF Init
      <3>2. uploading = {} /\ migrating = 0
        BY <1>1 DEF Init
      <3> QED BY <2>1, <3>1, <3>2 DEF OnlyCaptures
    <2>3. RunProcessed
      BY <2>1, IdleRun DEF RunProcessed, InLoop, WithFile
    <2> QED BY <2>2, <2>3
  <1>4. CaptureTypes
    <2>1. 0 \in 0 .. Size
      BY CaptureAssumption
    <2> QED BY <2>1, QuietRequest DEF CaptureInit, CaptureTypes, SessionRow, NoSweep
  <1>5. Sessions
    <2>1. None \notin Dir /\ CaptureDir \subseteq Dir
      BY ImportQueueAssumption
    <2>2. \A j \in Job : jobs[j].source = None
      BY <1>1 DEF Init
    <2>3. \A s \in CaptureDir : ~HasJob(s)
      BY <2>1, <2>2 DEF HasJob
    <2>4. \A s \in CaptureDir : SessionOK(s)
      BY <2>1, <2>3 DEF CaptureInit, SessionOK, AbsentOK, NoSweep
    <2>5. (\A h \in Handler : HandlerOK(h)) /\ Alone
      BY DEF CaptureInit, HandlerOK, Alone, At, PastClaim, Quiet
    <2>6. OneJobPerSession
      BY <2>1, <2>2 DEF OneJobPerSession
    <2> QED BY <2>4, <2>5, <2>6 DEF Sessions
  <1> QED BY <1>1, <1>2, <1>3, <1>4, <1>5 DEF Sound

LEMMA SoundHolds == CaptureSpec => []Sound
  BY SoundInit, SoundNext, PTL DEF CaptureSpec

-----------------------------------------------------------------------------
(* What follows.                                                           *)

\* The capture protocol and the queue below it stay within their types.
THEOREM CaptureTypeCorrect == CaptureSpec => []CaptureTypeOK
  <1>1. Sound => CaptureTypeOK
    BY DEF Sound, Shape, CaptureTypes, CaptureTypeOK
  <1> QED BY <1>1, SoundHolds, PTL

\* One session is one whole file, one job and one row, whoever completes,
\* appends and sweeps at once.
THEOREM SessionsAreSound == CaptureSpec => []SessionIsSound
  <1>1. Sound => SessionIsSound
    <2> SUFFICES ASSUME Sound PROVE SessionIsSound
      OBVIOUS
    <2>1. Sessions
      BY DEF Sound
    <2>2. OneJobPerSession /\ EnqueuedIsWhole /\ HandedOverHasRow
      BY <2>1 DEF Sessions, SessionOK, EnqueuedIsWhole, HandedOverHasRow
    <2>3. AcknowledgedIsWritten
      BY <2>1 DEF Sessions, SessionOK, HandlerOK, At, AcknowledgedIsWritten
    <2> QED BY <2>2, <2>3 DEF SessionIsSound
  <1> QED BY <1>1, SoundHolds, PTL

\* Only a purge takes a receipt back, and that of the asset it purges.
LEMMA ReceiptsStay ==
  ASSUME Sound, [CaptureNext]_allVars, NEW s \in CaptureDir, receipts[s] # None,
         assets[receipts[s]].state # None, assets'[receipts[s]].state # None
  PROVE  receipts'[s] = receipts[s]
  <1>1. \/ receipts' = receipts
        \/ Finalize
        \/ \E c \in Content : PurgeAsset(c)
    <2>1. ASSUME NEW h \in Handler, Capture(h)
          PROVE  receipts' = receipts
      BY <2>1 DEF Capture, StartStage, AppendRead, CompleteRead, StartInsert, StartFails,
         AppendWrite, AppendMissing, AppendRecord, AppendFails, CompleteClaim,
         CompleteEnqueue, EnqueueFails, Disconnect, StatementFails, BreaksOff,
         CompleteLink, queueRest
    <2>2. ASSUME Janitor \/ \E t \in CaptureDir : Expire(t)
          PROVE  receipts' = receipts
      BY <2>2 DEF Janitor, SweepList, SweepRemove, RemoveFails, SweepDelete,
         DeleteFails, Expire, queueRest
    <2>3. ASSUME Import("worker")
          PROVE  receipts' = receipts
      BY <2>3 DEF Import, BeginFile, HashFile, WriteOriginal, InsertAsset, InsertConflict,
         MarkDone, FileFails, SourceGone, DiskFull, FinishRun
    <2>4. ASSUME Worker
          PROVE  receipts' = receipts \/ Finalize
      <3>1. Shape
        BY DEF Sound
      <3> QED BY <2>4, <3>1, StopsStep DEF Worker, Stops, Claim, BackoffElapses,
              OpenRun, OpenFails, Retry, Sweep, Panic, Crash, Start
    <2>5. ASSUME Trash
          PROVE  receipts' = receipts \/ \E c \in Content : PurgeAsset(c)
      BY <2>5 DEF Trash, TrashAsset, RestoreAsset
    <2>6. CASE UNCHANGED allVars
      BY <2>6 DEF allVars, vars
    <2> QED BY <2>1, <2>2, <2>3, <2>4, <2>5, <2>6
            DEF CaptureNext, Queue, ServerCrash, Worker
  <1>2. CASE Finalize
    BY <1>2 DEF Finalize, Receipts
  <1>3. ASSUME NEW c \in Content, PurgeAsset(c)
        PROVE  receipts'[s] = receipts[s]
    <2>1. receipts[s] # c
      <3>1. assets \in [Content -> AssetRow]
        BY DEF Sound, Shape, TypeOK
      <3> QED BY <1>3, <3>1 DEF PurgeAsset, AssetRow
    <2> QED BY <1>3, <2>1 DEF PurgeAsset
  <1> QED BY <1>1, <1>2, <1>3

\* A phone told that its upload is complete is never told otherwise, unless
\* the asset went to the trash meanwhile: the original it was told of is that
\* of the row, and every row has one.
THEOREM CompletionsStay == CaptureSpec => CompletedStays
  <1>1. ASSUME Sound, Sound', [CaptureNext]_allVars, NEW s \in CaptureDir,
               ReceiptAnswer(s) = "completed",
               assets[receipts[s]].state = assets'[receipts[s]].state
        PROVE  ReceiptAnswer(s)' = "completed"
    <2>1. /\ receipts[s] # None /\ assets[receipts[s]].state = "live"
          /\ receipts \in [CaptureDir -> Content \cup {None}]
      BY <1>1 DEF ReceiptAnswer, Sound, Shape, TypeOK
    <2>2. receipts'[s] = receipts[s]
      BY <1>1, <2>1, ReceiptsStay DEF None
    <2>3. PICK c \in Content : c = receipts[s]
      BY <2>1
    <2>4. assets'[c].state = "live" /\ RowHasOriginal'
      BY <1>1, <2>1, <2>3 DEF Sound, Originals
    <2>5. assets'[c].original \in Original /\ originals'[assets'[c].original] = c
      BY <2>4 DEF RowHasOriginal, HasRow, None
    <2>6. OriginalStored(c)'
      BY <2>5 DEF OriginalStored, Original
    <2>7. receipts'[s] = c /\ c # None
      BY <2>1, <2>2, <2>3
    <2>8. OriginalStored(receipts[s])'
      BY <2>6, <2>7 DEF OriginalStored
    <2> QED BY <2>4, <2>7, <2>8 DEF ReceiptAnswer
  <1>2. Sound /\ Sound' /\ [CaptureNext]_allVars =>
          [\A s \in CaptureDir :
             ReceiptAnswer(s) = "completed" =>
               \/ ReceiptAnswer(s)' = "completed"
               \/ assets[receipts[s]].state # assets'[receipts[s]].state]_allVars
    BY <1>1
  <1> QED BY <1>2, SoundHolds, PTL DEF CaptureSpec, CompletedStays

\* Only the transaction that ends a run without errors makes a job succeed.
LEMMA SucceedsInFinalize ==
  ASSUME Sound, [CaptureNext]_allVars, NEW j \in Job,
         jobs[j].status = "running", jobs'[j].status = "succeeded"
  PROVE  Finalize /\ j = run["worker"].job /\ ~run["worker"].errors
  <1>0. Shape
    BY DEF Sound
  <1>1. ASSUME NEW h \in Handler, Capture(h)
        PROVE  FALSE
    <2>1. CASE CompleteEnqueue(h)
      <3>1. PICK k \in Job : /\ jobs[k].status = None
                             /\ jobs' = [jobs EXCEPT ![k] = QueuedRow("capture", Of(h))]
        BY <2>1 DEF CompleteEnqueue, EnqueueDirectory, InsertJob
      <3>2. jobs \in [Job -> JobRow] /\ k # j
        BY <1>0, <3>1 DEF Shape, TypeOK, None
      <3> QED BY <3>1, <3>2
    <2>2. CASE ~CompleteEnqueue(h)
      <3>1. jobs' = jobs
        BY <1>1, <2>2 DEF Capture, StartStage, AppendRead, CompleteRead, StartInsert,
           StartFails, AppendWrite, AppendMissing, AppendRecord, AppendFails,
           CompleteClaim, EnqueueFails, Disconnect, StatementFails, BreaksOff,
           CompleteLink
      <3> QED BY <3>1
    <2> QED BY <2>1, <2>2
  <1>2. ASSUME NEW k \in Job, JobStep(k), jobs'[k].status # "succeeded"
        PROVE  FALSE
    BY <1>2 DEF JobStep
  <1>3. jobs' # jobs
    OBVIOUS
  <1>4. ASSUME Worker
        PROVE  Finalize
    <2>1. ASSUME NEW k \in Job, Claim(k) \/ BackoffElapses(k)
          PROVE  FALSE
      BY <1>0, <1>2, <2>1, ClaimStep, BackoffStep
    <2>2. ~(OpenRun \/ Stops \/ Sweep \/ Crash)
      BY <1>0, <1>3, StopsStep DEF OpenRun, Sweep, Crash
    <2>3. ASSUME OpenFails \/ Retry \/ Panic
          PROVE  FALSE
      <3>1. run["worker"].pc # "idle"
        BY <2>3 DEF OpenFails, Retry, Panic
      <3>2. run["worker"].job \in Job
        BY <1>0, <3>1, WorkerJob
      <3>3. /\ JobStep(run["worker"].job)
            /\ jobs'[run["worker"].job].status \in {"queued", "failed"}
        BY <1>0, <2>3, FailStep, PanicStep DEF OpenFails, Retry
      <3> QED BY <1>2, <3>2, <3>3
    <2>4. ~Start
      <3> SUFFICES ASSUME Start PROVE FALSE
        OBVIOUS
      <3> QED BY <1>0, StartStep
    <2> QED BY <1>4, <2>1, <2>2, <2>3, <2>4 DEF Worker, Stops
  <1>5. Finalize
    <2>1. ~Import("worker") /\ ~Trash
      BY <1>3 DEF Import, BeginFile, HashFile, WriteOriginal, InsertAsset, InsertConflict,
         MarkDone, FileFails, SourceGone, DiskFull, FinishRun, Trash, TrashAsset,
         RestoreAsset, PurgeAsset
    <2>2. ~Janitor /\ ~\E s \in CaptureDir : Expire(s)
      BY <1>3 DEF Janitor, SweepList, SweepRemove, RemoveFails, SweepDelete,
         DeleteFails, Expire
    <2>3. ~UNCHANGED allVars
      BY <1>3 DEF allVars, vars
    <2> QED BY <1>1, <1>4, <2>1, <2>2, <2>3 DEF CaptureNext, Queue, ServerCrash, Worker
  <1>6. /\ run["worker"].job \in Job /\ JobStep(run["worker"].job)
        /\ run["worker"].errors => jobs'[run["worker"].job].status = "running"
    BY <1>0, <1>5, FinalizeStep, WorkerJob
  <1>7. j = run["worker"].job
    BY <1>6 DEF JobStep
  <1> QED BY <1>5, <1>6, <1>7

\* When the job of a session succeeds, there is a receipt for it, even when
\* another session brought the same file first, unless the asset is in the
\* trash: every file the run is done with is done or skipped in import_state.
THEOREM SuccessesHaveReceipts == CaptureSpec => SucceededHasReceipt
  <1>1. ASSUME Sound, [CaptureNext]_allVars, NEW j \in Job,
               jobs[j].status = "running", jobs'[j].status = "succeeded",
               \A f \in FilesIn(jobs[j].source) : assets[ContentOf[f]].state = "live"
        PROVE  receipts'[jobs[j].source] # None
    <2>1. Finalize /\ j = run["worker"].job /\ ~run["worker"].errors
      BY <1>1, SucceedsInFinalize
    <2>2. Shape /\ RunProcessed /\ OnlyCaptures /\ run["worker"].pc = "finalize"
      BY <1>1, <2>1 DEF Sound, Finalize
    <2>3. run["worker"].dir = jobs[j].source /\ jobs[j].kind \in {"upload", "capture"}
      BY <2>1, <2>2, WorkerJob
    <2>4. PICK d \in CaptureDir : d = jobs[j].source
      BY <2>2, <2>3 DEF OnlyCaptures, None
    <2>5. FileOf(d) \in File /\ FilesIn(d) = {FileOf(d)}
      BY FileOfCapture
    <2>6. Processed(FileOf(d)) /\ assets[ContentOf[FileOf(d)]].state = "live"
      BY <1>1, <2>1, <2>2, <2>3, <2>4, <2>5 DEF RunProcessed
    <2>7. ContentOf[FileOf(d)] # None
      BY <2>5, ImportQueueAssumption
    <2>8. receipts' = Receipts(d)
      BY <2>1, <2>3, <2>4 DEF Finalize
    <2> QED BY <2>4, <2>6, <2>7, <2>8 DEF Receipts, Processed
  <1>2. Sound /\ [CaptureNext]_allVars =>
          [\A j \in Job :
             /\ jobs[j].status = "running" /\ jobs'[j].status = "succeeded"
             /\ \A f \in FilesIn(jobs[j].source) : assets[ContentOf[f]].state = "live"
             => receipts'[jobs[j].source] # None]_allVars
    BY <1>1
  <1> QED BY <1>2, SoundHolds, PTL DEF CaptureSpec, SucceededHasReceipt
=============================================================================
