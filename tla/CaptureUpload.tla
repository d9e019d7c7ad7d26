---------------------------- MODULE CaptureUpload ----------------------------
(***************************************************************************)
(* The resumable capture protocol of internal/httpapi/capture.go on top of *)
(* the import queue: a phone starts a session, appends chunks at the       *)
(* offset the server acknowledged, completes the session, and polls for    *)
(* the receipt the queue publishes.  The hourly sweep of                   *)
(* internal/maintenance removes sessions that expired while receiving.     *)
(*                                                                         *)
(* Session s uploads one file into directory s.  Requests are handled by   *)
(* concurrent goroutines, so a handler is a process of its own: what it    *)
(* read of the session's row may be stale when it writes.  A request may   *)
(* be repeated, or still be running after the phone has given up on it;    *)
(* any of them may arrive at any time.                                     *)
(***************************************************************************)
EXTENDS ImportQueue

CONSTANTS
  Handler,   \* requests of the capture protocol in progress at one time
  Size       \* bound: the length of an upload, in the least unit sent

ASSUME CaptureAssumption == Size \in Nat \ {0}

VARIABLES
  session,   \* the upload_sessions table
  bytes,     \* how much of a session's file has been written
  handler,   \* the requests in progress
  sweep      \* the sessions the janitor listed, and the one it is at

captureVars == <<session, bytes, handler, sweep>>
allVars == <<vars, captureVars>>

\* cut is history, no column: a request that had claimed the session ended
\* without handing it back or recording its job.
SessionRow ==
  [status: {None, "receiving", "queueing", "queued", "deleted"},
   received: 0 .. Size, job: Job \cup {0}, expired: BOOLEAN, cut: BOOLEAN]

Request ==
  [pc: {"idle", "create", "append", "record", "claim", "enqueue", "link"},
   session: CaptureDir \cup {None}, offset: 0 .. Size, length: 0 .. Size,
   job: Job \cup {0}]

Quiet == [pc |-> "idle", session |-> None, offset |-> 0, length |-> 0, job |-> 0]

CaptureTypeOK ==
  /\ TypeOK
  /\ session \in [CaptureDir -> SessionRow]
  /\ bytes \in [CaptureDir -> 0 .. Size]
  /\ handler \in [Handler -> Request]
  /\ sweep \in [list: SUBSET CaptureDir, at: CaptureDir \cup {None}]

NoSweep == [list |-> {}, at |-> None]

CaptureInit ==
  /\ Init
  /\ session = [s \in CaptureDir |-> [status |-> None, received |-> 0,
                                      job |-> 0, expired |-> FALSE,
                                      cut |-> FALSE]]
  /\ bytes = [s \in CaptureDir |-> 0]
  /\ handler = [h \in Handler |-> Quiet]
  /\ sweep = NoSweep

Answer(h) == handler' = [handler EXCEPT ![h] = Quiet]

Receive(h, request) ==
  /\ up
  /\ handler[h].pc = "idle"
  /\ handler' = [handler EXCEPT ![h] = request]

At(h, pc) == handler[h].pc = pc

Of(h) == handler[h].session

\* What the capture handlers leave alone of the queue's state.
queueRest == <<up, uploading, importState, assets, originals, run, receipts,
               migrating>>

-----------------------------------------------------------------------------
(* captureStart: make the directory and the empty file, then the row.      *)

StartStage(h, s) ==
  /\ session[s].status = None /\ s \notin staged
  /\ Receive(h, [Quiet EXCEPT !.pc = "create", !.session = s])
  /\ staged' = staged \cup {s}
  /\ UNCHANGED <<queueRest, jobs, stored, faults, session, bytes, sweep>>

StartInsert(h) ==
  /\ At(h, "create")
  /\ session' = [session EXCEPT ![Of(h)].status = "receiving"]
  /\ Answer(h)
  /\ UNCHANGED <<queueRest, jobs, staged, stored, faults, bytes, sweep>>

StartFails(h) ==
  /\ At(h, "create")
  /\ Fault("start")
  /\ staged' = staged \ {Of(h)}
  /\ Answer(h)
  /\ UNCHANGED <<queueRest, jobs, stored, session, bytes, sweep>>

-----------------------------------------------------------------------------
(* captureAppend: read the row, write the chunk, record the new offset.    *)
(* Only a request at the acknowledged offset goes on; any other is told    *)
(* that offset and changes nothing.                                        *)

AppendRead(h, s) ==
  LET row == session[s] IN
  /\ row.status = "receiving" /\ ~row.expired
  /\ row.received < Size
  /\ Receive(h, [Quiet EXCEPT !.pc = "append", !.session = s,
                              !.offset = row.received])
  /\ UNCHANGED <<queueRest, jobs, staged, stored, faults, session, bytes,
                 sweep>>

\* The file is opened for writing without truncation, so it only ever grows.
Written(h, n) ==
  bytes' = [bytes EXCEPT ![Of(h)] =
              IF handler[h].offset + n > @ THEN handler[h].offset + n ELSE @]

AppendWrite(h, n) ==
  /\ At(h, "append")
  /\ Of(h) \in staged
  /\ n <= Size - handler[h].offset
  /\ Written(h, n)
  /\ \/ handler' = [handler EXCEPT ![h] =
                       [@ EXCEPT !.pc = "record", !.length = n]]
     \/ Answer(h)        \* the body was cut short: chunk_write_failed
  /\ UNCHANGED <<queueRest, jobs, staged, stored, faults, session, sweep>>

AppendMissing(h) ==
  /\ At(h, "append")
  /\ Of(h) \notin staged
  /\ Answer(h)
  /\ UNCHANGED <<queueRest, jobs, staged, stored, faults, session, bytes,
                 sweep>>

\* Wrong: the length is added to whatever the row says now.
AppendAdd(h) ==
  /\ At(h, "record")
  /\ session' = [session EXCEPT ![Of(h)].received = @ + handler[h].length]
  /\ Answer(h)
  /\ UNCHANGED <<queueRest, jobs, staged, stored, faults, bytes, sweep>>

\* The update is by id alone: neither the status nor the offset that the
\* handler read is checked again.
AppendRecord(h) ==
  /\ At(h, "record")
  /\ session' = [session EXCEPT ![Of(h)].received =
                   IF session[Of(h)].status = "deleted" THEN @
                   ELSE handler[h].offset + handler[h].length]
  /\ Answer(h)
  /\ UNCHANGED <<queueRest, jobs, staged, stored, faults, bytes, sweep>>

AppendFails(h) ==
  /\ At(h, "record")
  /\ Fault("append")
  /\ Answer(h)
  /\ UNCHANGED <<queueRest, jobs, staged, stored, session, bytes, sweep>>

-----------------------------------------------------------------------------
(* captureComplete: read the row, claim it, enqueue the directory, link    *)
(* the job.  Each is a statement of its own, and all of them run under the *)
(* request's context.                                                      *)

CompleteRead(h, s) ==
  LET row == session[s] IN
  /\ row.job = 0
  /\ row.status = "receiving" /\ row.received = Size
  /\ Receive(h, [Quiet EXCEPT !.pc = "claim", !.session = s])
  /\ UNCHANGED <<queueRest, jobs, staged, stored, faults, session, bytes,
                 sweep>>

\* Wrong: the claim trusts what was read before.
ClaimBlindly(h) ==
  /\ At(h, "claim")
  /\ session' = [session EXCEPT ![Of(h)].status = "queueing"]
  /\ handler' = [handler EXCEPT ![h].pc = "enqueue"]
  /\ UNCHANGED <<queueRest, jobs, staged, stored, faults, bytes, sweep>>

CompleteClaim(h) ==
  LET row == session[Of(h)] IN
  /\ At(h, "claim")
  /\ IF row.status = "receiving" /\ row.job = 0
     THEN /\ session' = [session EXCEPT ![Of(h)].status = "queueing"]
          /\ handler' = [handler EXCEPT ![h].pc = "enqueue"]
     ELSE /\ Answer(h)
          /\ UNCHANGED session
  /\ UNCHANGED <<queueRest, jobs, staged, stored, faults, bytes, sweep>>

CompleteEnqueue(h) ==
  /\ At(h, "enqueue")
  /\ EnqueueDirectory("capture", Of(h))
  /\ \E j \in Job :
       /\ jobs[j].status = None /\ jobs'[j].status # None
       /\ handler' = [handler EXCEPT ![h] =
                         [@ EXCEPT !.pc = "link", !.job = j]]
  /\ UNCHANGED <<queueRest, staged, faults, session, bytes, sweep>>

\* Wrong: the session stays claimed when the insert fails.
EnqueueFailsClaimed(h) ==
  /\ At(h, "enqueue")
  /\ Fault("enqueue")
  /\ Answer(h)
  /\ UNCHANGED <<queueRest, jobs, staged, stored, session, bytes, sweep>>

\* The insert fails: the session goes back to receiving ...
EnqueueFails(h) ==
  /\ At(h, "enqueue")
  /\ Fault("enqueue")
  /\ session' = [session EXCEPT ![Of(h)].status = "receiving"]
  /\ Answer(h)
  /\ UNCHANGED <<queueRest, jobs, staged, stored, bytes, sweep>>

\* A statement of the handler fails: whatever is left of it is not done, the
\* revert of EnqueueFails included, whose error is ignored.
BreaksOff(h, kind) ==
  /\ handler[h].pc \in {"claim", "enqueue", "link"}
  /\ Fault(kind)
  /\ session' = [session EXCEPT ![Of(h)].cut = @ \/ ~At(h, "claim")]
  /\ Answer(h)
  /\ UNCHANGED <<queueRest, jobs, staged, stored, bytes, sweep>>

\* The phone hung up: the context is cancelled, and every statement with it.
Disconnect(h) == BreaksOff(h, "disconnect")

\* The claim fails, or the insert and the revert after it, or the link.
StatementFails(h) == BreaksOff(h, "statement")

CompleteLink(h) ==
  /\ At(h, "link")
  /\ session' = [session EXCEPT ![Of(h)] =
                    [@ EXCEPT !.status = "queued", !.job = handler[h].job]]
  /\ Answer(h)
  /\ UNCHANGED <<queueRest, jobs, staged, stored, faults, bytes, sweep>>

-----------------------------------------------------------------------------
(* purgeExpiredCaptures: list what has expired, then for each remove the   *)
(* directory and delete the row.                                           *)

\* Twenty-four hours have passed since the session was started.
Expire(s) ==
  /\ "expire" \in FaultKinds
  /\ session[s].status \in {"receiving", "queueing", "queued"}
  /\ ~session[s].expired
  /\ session' = [session EXCEPT ![s].expired = TRUE]
  /\ UNCHANGED <<queueRest, jobs, staged, stored, faults, bytes, handler,
                 sweep>>

SweepList ==
  /\ up
  /\ sweep = NoSweep
  /\ LET stale == {s \in CaptureDir : /\ session[s].status = "receiving"
                                      /\ session[s].expired}
     IN /\ stale # {}
        /\ sweep' = [list |-> stale, at |-> None]
  /\ UNCHANGED <<queueRest, jobs, staged, stored, faults, session, bytes,
                 handler>>

SweepRemove(s) ==
  /\ sweep.at = None
  /\ s \in sweep.list
  /\ staged' = staged \ {s}
  /\ sweep' = [list |-> sweep.list \ {s}, at |-> s]
  /\ UNCHANGED <<queueRest, jobs, stored, faults, session, bytes, handler>>

\* The directory cannot be removed: the session is left for the next sweep.
RemoveFails(s) ==
  /\ sweep.at = None
  /\ s \in sweep.list
  /\ Fault("janitor")
  /\ sweep' = [sweep EXCEPT !.list = @ \ {s}]
  /\ UNCHANGED <<queueRest, jobs, staged, stored, session, bytes, handler>>

SweepDelete ==
  /\ sweep.at # None
  /\ session' = [session EXCEPT ![sweep.at].status =
                   IF @ = "receiving" THEN "deleted" ELSE @]
  /\ sweep' = [sweep EXCEPT !.at = None]
  /\ UNCHANGED <<queueRest, jobs, staged, stored, faults, bytes, handler>>

DeleteFails ==
  /\ sweep.at # None
  /\ Fault("janitor")
  /\ sweep' = [sweep EXCEPT !.at = None]
  /\ UNCHANGED <<queueRest, jobs, staged, stored, session, bytes, handler>>

-----------------------------------------------------------------------------
\* The server dies with its requests and the sweep; Start starts both again.
ServerCrash ==
  /\ Crash
  /\ handler' = [h \in Handler |-> Quiet]
  /\ sweep' = NoSweep
  /\ session' = [s \in CaptureDir |->
       [session[s] EXCEPT !.cut =
          @ \/ \E h \in Handler : Of(h) = s /\ (At(h, "enqueue") \/ At(h, "link"))]]
  /\ UNCHANGED bytes

Queue ==
  /\ \/ Import("worker")
     \/ \E j \in Job : Claim(j) \/ BackoffElapses(j)
     \/ OpenRun \/ OpenFails \/ Finalize \/ FinalizeFails \/ Retry
     \/ FailUnrecorded \/ Sweep \/ Detect \/ Panic \/ PanicUnrecorded
     \/ Start \/ Trash
  /\ UNCHANGED captureVars

Capture(h) ==
  \/ \E s \in CaptureDir : StartStage(h, s) \/ AppendRead(h, s)
                           \/ CompleteRead(h, s)
  \/ StartInsert(h)
  \/ StartFails(h)
  \/ \E n \in 1 .. Size : AppendWrite(h, n)
  \/ AppendMissing(h)
  \/ AppendRecord(h)
  \/ AppendFails(h)
  \/ CompleteClaim(h)
  \/ CompleteEnqueue(h)
  \/ EnqueueFails(h)
  \/ Disconnect(h)
  \/ StatementFails(h)
  \/ CompleteLink(h)

Janitor ==
  \/ SweepList
  \/ \E s \in CaptureDir : SweepRemove(s) \/ RemoveFails(s)
  \/ SweepDelete
  \/ DeleteFails

CaptureNext ==
  \/ \E h \in Handler : Capture(h)
  \/ Janitor
  \/ \E s \in CaptureDir : Expire(s)
  \/ Queue
  \/ ServerCrash

CaptureSpec == CaptureInit /\ [][CaptureNext]_allVars

\* A handler runs on until it has answered, the queue as in ImportQueue, and
\* the sweep every hour.  Nothing says that the phone sends another request.
CaptureFairness ==
  /\ \A h \in Handler : WF_allVars(handler[h].pc # "idle" /\ Capture(h))
  /\ WF_allVars(Janitor)
  /\ WF_allVars(Start /\ UNCHANGED captureVars)
  /\ WF_allVars(Import("worker") /\ UNCHANGED captureVars)
  /\ \A j \in Job : /\ WF_allVars(BackoffElapses(j) /\ UNCHANGED captureVars)
                     /\ WF_allVars(Claim(j) /\ UNCHANGED captureVars)
  /\ WF_allVars((OpenRun \/ OpenFails) /\ UNCHANGED captureVars)
  /\ WF_allVars((Finalize \/ Retry \/ Sweep \/ Detect) /\ UNCHANGED captureVars)

FairCapture == CaptureSpec /\ CaptureFairness

-----------------------------------------------------------------------------
(* What a phone that polls is told (captureReceipt).                       *)

OriginalStored(c) ==
  assets[c].original # 0 /\ originals[assets[c].original] = c

ReceiptAnswer(s) ==
  LET row == session[s] IN
  IF receipts[s] # None /\ assets[receipts[s]].state = "live"
  THEN IF OriginalStored(receipts[s]) THEN "completed" ELSE "gone"
  ELSE IF row.status \in {None, "deleted"} THEN "missing"
  ELSE IF row.job # 0 /\ jobs[row.job].status \in {"succeeded", "failed"} THEN "gone"
  ELSE "pending"

-----------------------------------------------------------------------------
(* Safety.                                                                 *)

\* However many complete requests there are, repeated, concurrent or after a
\* failure of the first, a session is imported by one job: whoever changes
\* receiving to queueing enqueues it (the guarded update in captureComplete).
OneJobPerSession ==
  \A s \in CaptureDir, j, k \in Job :
    jobs[j].source = s /\ jobs[k].source = s => j = k

\* What the importer is given is the whole file: when a directory has been
\* enqueued and still exists, every byte of the upload is in it, although the
\* handlers check the received count long before they write it.
EnqueuedIsWhole ==
  \A s \in CaptureDir : HasJob(s) /\ s \in staged => bytes[s] = Size

\* The offset a session acknowledges is never ahead of its file, so that a
\* phone that resumes from it leaves no hole; nor is one about to be recorded.
AcknowledgedIsWritten ==
  /\ \A s \in CaptureDir : s \in staged => session[s].received <= bytes[s]
  /\ \A h \in Handler : At(h, "record") /\ Of(h) \in staged =>
                          handler[h].offset + handler[h].length <= bytes[Of(h)]

\* The sweep never deletes the row of a session that has been handed over: a
\* job that runs finds the session that its receipt is for.
HandedOverHasRow ==
  \A s \in CaptureDir :
    HasJob(s) => session[s].status \in {"queueing", "queued"}

\* All four: one session is one whole file, one job and one row, whoever completes,
\* appends and sweeps at once.
SessionIsSound ==
  OneJobPerSession /\ EnqueuedIsWhole /\ AcknowledgedIsWritten /\ HandedOverHasRow

\* A phone told that its upload is complete is never told otherwise, unless
\* the asset went to the trash meanwhile.
CompletedStays ==
  [][\A s \in CaptureDir :
       ReceiptAnswer(s) = "completed" =>
         \/ ReceiptAnswer(s)' = "completed"
         \/ assets[receipts[s]].state # assets'[receipts[s]].state]_allVars

\* When the job of a session succeeds, there is a receipt for it, even when
\* another session brought the same file first (status skipped), unless the
\* asset has gone to the trash.
SucceededHasReceipt ==
  [][\A j \in Job :
       /\ jobs[j].status = "running" /\ jobs'[j].status = "succeeded"
       /\ \A f \in FilesIn(jobs[j].source) : assets[ContentOf[f]].state = "live"
       => receipts'[jobs[j].source] # None]_allVars

-----------------------------------------------------------------------------
(* Liveness.                                                               *)

\* Nobody is left to answer for a session that was cut: no job of its directory
\* waits or runs, and the row says queueing for ever.
Stranded(s) ==
  /\ session[s].cut
  /\ ~\E j \in Job : jobs[j].source = s /\ jobs[j].status \in {"queued", "running"}

\* An upload whose completion the server has taken is settled in the end: the
\* phone gets the receipt, or is told to start again, or the session is handed
\* back to it to be completed once more.  A session cut between the claim and
\* the link (by a hang-up, a crash or a failing statement) is settled by the
\* receipt of its directory while a job of it lives, and is stranded after.
UploadsResolve ==
  \A s \in CaptureDir :
    session[s].status \in {"queueing", "queued"} ~>
      \/ ReceiptAnswer(s) # "pending" \/ session[s].status = "receiving"
      \/ Stranded(s)

\* A staging directory whose session was never recorded does not stay.
NoLeakedStaging ==
  \A s \in CaptureDir :
    (s \in staged /\ session[s].status \in {None, "deleted"})
      ~> ~(s \in staged /\ session[s].status \in {None, "deleted"})
=============================================================================
