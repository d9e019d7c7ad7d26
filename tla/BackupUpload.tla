---------------------------- MODULE BackupUpload ----------------------------
(***************************************************************************)
(* How the phone uploads one item, what it remembers of it, and when it    *)
(* may remove its own copy: mobile/src/lib/capture-api.ts (uploadFile),    *)
(* backup-ledger.ts, media-source.ts, the body of a pass of                *)
(* backup-engine.ts, reclaim-verification.ts and the free-up-space screen. *)
(*                                                                         *)
(* An item is edited by other apps at any time, with or without a change   *)
(* of the metadata that localVersion() looks at; its bytes are a number    *)
(* that every edit raises. A file is a few chunks; the server names an    *)
(* original by the bytes it received, chunk by chunk, which stands for its *)
(* content hash. The server is what the phone sees of it: the sessions of  *)
(* httpapi/capture.go, the importer and the trash.                         *)
(***************************************************************************)
EXTENDS Integers, Sequences, FiniteSets

CONSTANTS
  Asset,        \* items of the camera roll
  LivePhoto,    \* those with a second, motion component
  Spooled,      \* those behind a content provider: read from a temporary copy
  Library,      \* libraries (server and account) the phone may be paired with
  First,        \* the one it is paired with at first
  Nowhere,      \* not connected
  Size,         \* how many chunks each component has
  Restarts,     \* how often a missing session is opened again
  MaxEvent      \* edits, changes of the connection, originals trashed, restored or
                \* purged, lost requests, crashes, aborts, expired sessions and
                \* failed imports, all together

Part(a) == IF a \in LivePhoto THEN 1..2 ELSE 1..1
Component == {c \in Asset \X (1..2) : c[2] \in Part(c[1])}

ASSUME BackupUploadAssumption ==
  /\ LivePhoto \subseteq Asset /\ Spooled \subseteq Asset
  /\ 0 \notin Asset /\ Nowhere \notin Library /\ First \in Library
  /\ Size \in [Component -> Nat \ {0}]
  /\ Restarts \in Nat /\ MaxEvent \in Nat

VARIABLES
  phone,      \* the items: their bytes, their metadata, whether they are still there
  conn,       \* the library the stored connection leads to
  receipts,   \* backup_receipts_v2: what is backed up where
  saved,      \* capture_sessions_v2: uploads to resume
  removing,   \* trash and purge intents that wait in the mutation queue
  session,    \* the server's upload session that each saved upload refers to
  jobs,       \* originals the server still imports for nobody who waits for them
  live,       \* originals of each library
  trashed,    \* those in its trash
  up,         \* the item a pass is working on
  rm,         \* the free-up-space screen
  late,       \* items that changed after their last check before a removal
  blurred,    \* items that were edited without a change of metadata
  left        \* how many events may still happen

vars == <<phone, conn, receipts, saved, removing, session, jobs, live, trashed, up,
          rm, late, blurred, left>>
ledger == <<receipts, saved>>
server == <<session, jobs, live, trashed>>
ghosts == <<late, blurred>>

Bytes == 1..(MaxEvent + 1)
Version == 1..(MaxEvent + 1)
Original == {o \in [of: Component, chunks: Seq(Bytes)] : Len(o.chunks) = Size[o.of]}

NoReceipt == [version |-> 0, originals |-> <<>>]
NoUpload == [version |-> 0, offset |-> 0]
NoSession == [got |-> <<>>, status |-> "missing"]
Resting == [at |-> "idle", library |-> Nowhere, asset |-> 0, version |-> 0, part |-> 1,
            copy |-> 0, offset |-> 0, restarts |-> 0,
            proofs |-> <<>>]
Away == [at |-> "idle", library |-> Nowhere, todo |-> {}, asset |-> 0, part |-> 1,
         hashed |-> FALSE, receipts |-> [a \in Asset |-> NoReceipt], chosen |-> {}]

\* The original that the bytes b of a component make.
Pure(c, b) == [of |-> c, chunks |-> [k \in 1..Size[c] |-> b]]

BackupUploadTypeOK ==
  /\ phone \in [Asset -> [bytes: Bytes, version: Version, here: BOOLEAN]]
  /\ conn \in Library \cup {Nowhere}
  /\ \A l \in Library : \A a \in Asset :
       \/ receipts[l][a] = NoReceipt
       \/ /\ receipts[l][a].version \in Version
          /\ Len(receipts[l][a].originals) = Cardinality(Part(a))
          /\ \A i \in Part(a) : receipts[l][a].originals[i] \in Original
  /\ \A l \in Library : \A c \in Component :
       /\ saved[l][c] \in [version: Version, offset: 0..Size[c]] \cup {NoUpload}
       /\ session[l][c].got \in Seq(Bytes) /\ Len(session[l][c].got) <= Size[c]
       /\ session[l][c].status \in {"missing", "receiving", "queued", "succeeded", "failed"}
  /\ \A l \in Library : live[l] \subseteq Original /\ trashed[l] \subseteq Original
                        /\ live[l] \cap trashed[l] = {} /\ removing[l] \cup jobs[l] \subseteq Original
  /\ up.at \in {"idle", "open", "ask", "send", "complete", "poll", "check"}
  /\ rm.at \in {"idle", "remove", "dialog"}
  /\ rm.todo \cup rm.chosen \cup late \cup blurred \subseteq Asset
  /\ left \in 0..MaxEvent

Init ==
  /\ phone = [a \in Asset |-> [bytes |-> 1, version |-> 1, here |-> TRUE]]
  /\ conn = First
  /\ receipts = [l \in Library |-> [a \in Asset |-> NoReceipt]]
  /\ saved = [l \in Library |-> [c \in Component |-> NoUpload]]
  /\ removing = [l \in Library |-> {}]
  /\ session = [l \in Library |-> [c \in Component |-> NoSession]]
  /\ jobs = [l \in Library |-> {}]
  /\ live = [l \in Library |-> {}] /\ trashed = [l \in Library |-> {}]
  /\ up = Resting /\ rm = Away
  /\ late = {} /\ blurred = {}
  /\ left = MaxEvent

\* One more edit, switch, change on the server or mishap.
Disturbed == left > 0 /\ left' = left - 1

\* The items a removal has already checked, or is checking: a change of theirs
\* comes too late for it.
Checked == rm.chosen \ rm.todo

-----------------------------------------------------------------------------
(* The world around the phone's code.                                      *)

\* Another app edits the item.
Edit(a) ==
  /\ phone[a].here /\ Disturbed
  /\ phone' = [phone EXCEPT ![a].bytes = @ + 1, ![a].version = @ + 1]
  /\ late' = late \cup ({a} \cap Checked)
  /\ UNCHANGED <<conn, ledger, removing, server, up, rm, blurred>>

\* ... and leaves its name, its dates and its size as they were.
EditSilently(a) ==
  /\ phone[a].here /\ Disturbed
  /\ phone' = [phone EXCEPT ![a].bytes = @ + 1]
  /\ late' = late \cup ({a} \cap Checked)
  /\ blurred' = blurred \cup {a}
  /\ UNCHANGED <<conn, ledger, removing, server, up, rm>>

Switch(l) ==
  /\ l # conn /\ Disturbed
  /\ conn' = l
  /\ UNCHANGED <<phone, ledger, removing, server, up, rm, ghosts>>

\* The user moves a photo to the trash in the app, which queues the intent.
QueueRemoval(o) ==
  /\ conn # Nowhere /\ o \in live[conn] \ removing[conn] /\ Disturbed
  /\ removing' = [removing EXCEPT ![conn] = @ \cup {o}]
  /\ late' = late \cup ({o.of[1]} \cap Checked)
  /\ UNCHANGED <<phone, conn, ledger, server, up, rm, blurred>>

\* The queue is flushed.
SendRemoval(o) ==
  /\ conn # Nowhere /\ o \in removing[conn]
  /\ removing' = [removing EXCEPT ![conn] = @ \ {o}]
  /\ live' = [live EXCEPT ![conn] = @ \ {o}]
  /\ trashed' = [trashed EXCEPT ![conn] = IF o \in live[conn] THEN @ \cup {o} ELSE @]
  /\ late' = late \cup ({o.of[1]} \cap Checked)
  /\ UNCHANGED <<phone, conn, ledger, session, jobs, up, rm, blurred, left>>

\* Somebody trashes, restores or purges the original on the web.
Change(l, o) ==
  /\ Disturbed
  /\ \/ /\ o \in live[l]
        /\ live' = [live EXCEPT ![l] = @ \ {o}] /\ trashed' = [trashed EXCEPT ![l] = @ \cup {o}]
     \/ /\ o \in trashed[l]
        /\ live' = [live EXCEPT ![l] = @ \cup {o}] /\ trashed' = [trashed EXCEPT ![l] = @ \ {o}]
     \/ /\ o \in trashed[l]
        /\ trashed' = [trashed EXCEPT ![l] = @ \ {o}] /\ UNCHANGED live
  /\ late' = late \cup ({o.of[1]} \cap Checked)
  /\ UNCHANGED <<phone, conn, ledger, removing, session, jobs, up, rm, blurred>>

\* What a session makes when all of it was received.
Received(l, c) == [of |-> c, chunks |-> session[l][c].got]

\* A copy of an original that exists, in the trash too, adds nothing.
Imported(l, o) == live' = [live EXCEPT ![l] = IF o \in trashed[l] THEN @ ELSE @ \cup {o}]

\* The job of a completed session.
Import(l, c) ==
  /\ session[l][c].status = "queued"
  /\ \/ /\ session' = [session EXCEPT ![l][c].status = "succeeded"]
        /\ Imported(l, Received(l, c))
        /\ UNCHANGED left
     \/ /\ Disturbed
        /\ session' = [session EXCEPT ![l][c].status = "failed"]
        /\ UNCHANGED live
  /\ UNCHANGED <<phone, conn, ledger, removing, jobs, trashed, up, rm, ghosts>>

\* The job of a session that the phone has given up meanwhile.
ImportLeftOver(l, o) ==
  /\ o \in jobs[l]
  /\ jobs' = [jobs EXCEPT ![l] = @ \ {o}]
  /\ Imported(l, o)
  /\ UNCHANGED <<phone, conn, ledger, removing, session, trashed, up, rm, ghosts, left>>

\* The janitor removes a session that has expired.
Expire(l, c) ==
  /\ session[l][c].status = "receiving" /\ Disturbed
  /\ session' = [session EXCEPT ![l][c] = NoSession]
  /\ UNCHANGED <<phone, conn, ledger, removing, jobs, live, trashed, up, rm, ghosts>>

-----------------------------------------------------------------------------
(* One item of a pass (runPass of backup-engine.ts).                       *)

Connected == up.library = conn
Current == <<up.asset, up.part>>
Upload == saved[up.library][Current]
Session == session[up.library][Current]

Rest == up' = Resting
Goto(step) == up' = [up EXCEPT !.at = step]

\* An error, an abort or the end of the process leaves the item for a later pass.
Interrupted ==
  /\ up.at # "idle"
  /\ IF Connected THEN Disturbed ELSE UNCHANGED left
  /\ Rest
  /\ UNCHANGED <<phone, conn, ledger, removing, server, rm, ghosts>>

\* The page is listed, with the metadata of now. A receipt whose originals the
\* server does not have any more (availableOriginals) is forgotten; one of this
\* version needs no upload.
List(a) ==
  LET receipt == receipts[conn][a]
      kept == \A i \in DOMAIN receipt.originals : receipt.originals[i] \in live[conn]
  IN /\ up.at = "idle" /\ conn # Nowhere /\ phone[a].here
     /\ receipts' = IF kept THEN receipts ELSE [receipts EXCEPT ![conn][a] = NoReceipt]
     /\ up' = IF kept /\ receipt.version = phone[a].version THEN Resting
              ELSE [Resting EXCEPT !.at = "open", !.library = conn, !.asset = a,
                                   !.version = phone[a].version]
     /\ UNCHANGED <<phone, conn, saved, removing, server, rm, ghosts, left>>

\* loadResumableUpload: only of the version that is uploaded now.
CanResumeAny == Upload # NoUpload    \* (a mutant: a record of any version is resumed)
CanResume == Upload # NoUpload /\ Upload.version = up.version

\* The phone's record of its upload and the session it refers to, replaced; the
\* job of the old session goes on.
Replace(upload, new) ==
  /\ saved' = [saved EXCEPT ![up.library][Current] = upload]
  /\ session' = [session EXCEPT ![up.library][Current] = new]
  /\ jobs' = [jobs EXCEPT ![up.library] =
               IF Session.status = "queued" THEN @ \cup {Received(up.library, Current)} ELSE @]

\* openSource and startOrResume: the stored upload, or a new session, which is
\* saved at once.
StartOrResume ==
  LET copy == IF up.asset \in Spooled THEN phone[up.asset].bytes ELSE 0 IN
  /\ up.at = "open" /\ Connected
  /\ CASE ~phone[up.asset].here -> Rest /\ UNCHANGED <<saved, session, jobs>>
       [] phone[up.asset].here /\ CanResume ->
            /\ up' = [up EXCEPT !.at = IF Upload.offset = Size[Current] THEN "ask" ELSE "send",
                                !.offset = Upload.offset, !.copy = copy]
            /\ UNCHANGED <<saved, session, jobs>>
       [] OTHER ->
            /\ Replace([version |-> up.version, offset |-> 0],
                       [got |-> <<>>, status |-> "receiving"])
            /\ up' = [up EXCEPT !.at = "send", !.offset = 0, !.copy = copy]
  /\ UNCHANGED <<phone, conn, receipts, removing, live, trashed, rm, ghosts, left>>

\* The answer that the session is missing (404, 410): it is forgotten, and
\* opened anew once.
MissingKept ==    \* (a mutant: the record of the missing session stays)
  /\ UNCHANGED <<saved, session, jobs>>
  /\ IF up.restarts < Restarts
     THEN up' = [up EXCEPT !.at = "open", !.offset = 0, !.restarts = @ + 1]
     ELSE Rest
Missing ==
  /\ Replace(NoUpload, NoSession)
  /\ IF up.restarts < Restarts
     THEN up' = [up EXCEPT !.at = "open", !.offset = 0, !.restarts = @ + 1]
     ELSE Rest

\* The receipt endpoint: a receipt is there once the job has published it, and
\* as long as its original is live.
Answer ==
  CASE Session.status = "succeeded" /\ Received(up.library, Current) \in live[up.library]
         -> "completed"
    [] Session.status \in {"receiving", "queued"} -> "pending"
    [] OTHER -> "missing"

\* A confirmed component: its upload is over, and the next one or the item's
\* last check follows.
ConfirmedAtOnce ==    \* (a mutant: the first component ends the item)
  /\ Replace(NoUpload, NoSession)
  /\ up' = [up EXCEPT !.proofs = Append(@, Received(up.library, Current)), !.at = "check"]
Confirmed ==
  /\ Replace(NoUpload, NoSession)
  /\ up' = [up EXCEPT !.proofs = Append(@, Received(up.library, Current)),
                      !.at = IF up.part + 1 \in Part(up.asset) THEN "open" ELSE "check",
                      !.part = IF up.part + 1 \in Part(up.asset) THEN @ + 1 ELSE @,
                      !.offset = 0, !.restarts = 0]

\* A resumed upload that was sent in full asks for its receipt first; pending
\* still needs the hand-over.
Ask ==
  /\ up.at = "ask" /\ Connected
  /\ CASE Answer = "completed" -> Confirmed
       [] Answer = "pending" -> Goto("complete") /\ UNCHANGED <<saved, session, jobs>>
       [] OTHER -> Missing
  /\ UNCHANGED <<phone, conn, receipts, removing, live, trashed, rm, ghosts, left>>

Read == IF up.copy # 0 THEN up.copy ELSE phone[up.asset].bytes

\* sendChunk: appended at the server's own offset only; an answer with another
\* offset realigns the phone, a session in another state refuses.
SendChunk ==
  /\ up.at = "send" /\ Connected
  /\ CASE Session.status = "missing" -> Missing
       [] Session.status = "receiving" ->
            LET got == IF up.offset = Len(Session.got) THEN Append(Session.got, Read)
                       ELSE Session.got
                next == Len(got)
            IN /\ session' = [session EXCEPT ![up.library][Current].got = got]
               /\ saved' = [saved EXCEPT ![up.library][Current].offset = next]
               /\ up' = [up EXCEPT !.offset = next,
                                   !.at = IF next = Size[Current] THEN "complete" ELSE "send"]
               /\ UNCHANGED jobs
       [] OTHER -> Rest /\ UNCHANGED <<saved, session, jobs>>
  /\ UNCHANGED <<phone, conn, receipts, removing, live, trashed, rm, ghosts, left>>

\* The chunk arrives, its answer does not: the chunk is sent again.
ChunkUnanswered ==
  /\ up.at = "send" /\ Connected
  /\ Session.status = "receiving" /\ up.offset = Len(Session.got)
  /\ Disturbed
  /\ session' = [session EXCEPT ![up.library][Current].got = Append(@, Read)]
  /\ UNCHANGED <<phone, conn, ledger, removing, jobs, live, trashed, up, rm, ghosts>>

HandedOver ==
  session' = [session EXCEPT ![up.library][Current].status =
                IF @ = "receiving" THEN "queued" ELSE @]

\* The hand-over, which the server answers the same way when it is repeated.
Complete ==
  /\ up.at = "complete" /\ Connected
  /\ IF Session.status = "missing" THEN Missing
     ELSE HandedOver /\ Goto("poll") /\ UNCHANGED <<saved, jobs>>
  /\ UNCHANGED <<phone, conn, receipts, removing, live, trashed, rm, ghosts, left>>

CompleteUnanswered ==
  /\ up.at = "complete" /\ Connected /\ Disturbed
  /\ HandedOver
  /\ Rest
  /\ UNCHANGED <<phone, conn, ledger, removing, jobs, live, trashed, rm, ghosts>>

\* originalReceipt polls a few times and then leaves the item waiting (202).
Poll ==
  /\ up.at = "poll" /\ Connected
  /\ CASE Answer = "completed" -> Confirmed
       [] Answer = "pending" -> Rest /\ UNCHANGED <<saved, session, jobs>>
       [] OTHER -> Missing
  /\ UNCHANGED <<phone, conn, receipts, removing, live, trashed, rm, ghosts, left>>

\* The item must still be what was listed: then markBackedUp, in the namespace
\* of the library that was uploaded to.
Mark ==
  /\ up.at = "check" /\ Connected
  /\ receipts' = IF phone[up.asset].here /\ phone[up.asset].version = up.version
                 THEN [receipts EXCEPT ![up.library][up.asset] =
                         [version |-> up.version, originals |-> up.proofs]]
                 ELSE receipts
  /\ Rest
  /\ UNCHANGED <<phone, conn, saved, removing, server, rm, ghosts, left>>

-----------------------------------------------------------------------------
(* Free up space.                                                          *)

\* The user confirms the removal of E, candidates of an earlier scan: the scan
\* has verified each of them as below, but a removal relies on none of it. The
\* receipts are read again, and every candidate is verified again before the
\* system is asked.
Confirm(E) ==
  /\ rm.at = "idle" /\ conn # Nowhere
  /\ E # {} /\ \A a \in E : phone[a].here
  /\ rm' = [at |-> "remove", library |-> conn, todo |-> E, chosen |-> E, asset |-> 0,
            part |-> 1, hashed |-> FALSE, receipts |-> receipts[conn]]
  /\ late' = {}
  /\ UNCHANGED <<phone, conn, ledger, removing, server, up, blurred, left>>

\* verifyLocalReceipt: the receipt is of this version, and no removal of its
\* originals is pending. What cannot be verified ends the removal.
Verify(a) ==
  LET receipt == rm.receipts[a]
      fine == /\ rm.library = conn /\ phone[a].here /\ receipt.version = phone[a].version
              /\ \A i \in DOMAIN receipt.originals : receipt.originals[i] \notin removing[conn]
  IN /\ rm.at = "remove" /\ rm.asset = 0 /\ a \in rm.todo
     /\ rm' = IF fine THEN [rm EXCEPT !.asset = a, !.part = 1, !.todo = @ \ {a}] ELSE Away
     /\ UNCHANGED <<phone, conn, ledger, removing, server, up, ghosts, left>>

\* The bytes of the next component, against the receipt.
HashLocalTrusts ==    \* (a mutant: unchanged metadata is taken for unchanged bytes)
  /\ rm.asset # 0 /\ ~rm.hashed
  /\ rm' = [rm EXCEPT !.hashed = TRUE]
  /\ UNCHANGED <<phone, conn, ledger, removing, server, up, ghosts, left>>
HashLocal ==
  /\ rm.asset # 0 /\ ~rm.hashed
  /\ IF /\ phone[rm.asset].here
        /\ Pure(<<rm.asset, rm.part>>, phone[rm.asset].bytes) =
             rm.receipts[rm.asset].originals[rm.part]
     THEN rm' = [rm EXCEPT !.hashed = TRUE]
     ELSE rm' = Away
  /\ UNCHANGED <<phone, conn, ledger, removing, server, up, ghosts, left>>

\* verifyOriginal: the server reads the original again.
VerifyOriginal ==
  LET a == rm.asset IN
  /\ a # 0 /\ rm.hashed
  /\ IF rm.library # conn \/ rm.receipts[a].originals[rm.part] \notin live[conn] THEN rm' = Away
     ELSE IF rm.part + 1 \in Part(a)
     THEN rm' = [rm EXCEPT !.part = @ + 1, !.hashed = FALSE]
     ELSE rm' = [rm EXCEPT !.asset = 0, !.hashed = FALSE]
  /\ UNCHANGED <<phone, conn, ledger, removing, server, up, ghosts, left>>

\* All are verified: the system asks the user.
Verified ==
  /\ rm.at = "remove" /\ rm.asset = 0 /\ rm.todo = {}
  /\ rm' = IF rm.library = conn THEN [rm EXCEPT !.at = "dialog"] ELSE Away
  /\ UNCHANGED <<phone, conn, ledger, removing, server, up, ghosts, left>>

\* The system removes the items, or the user declines.
Remove ==
  /\ rm.at = "dialog"
  /\ phone' \in {phone, [a \in Asset |-> IF a \in rm.chosen THEN [phone[a] EXCEPT !.here = FALSE]
                                       ELSE phone[a]]}
  /\ rm' = Away
  /\ UNCHANGED <<conn, ledger, removing, server, up, ghosts, left>>

\* The screen is left, or the process ends.
Leave ==
  /\ rm.at # "idle" /\ rm' = Away
  /\ UNCHANGED <<phone, conn, ledger, removing, server, up, ghosts, left>>

-----------------------------------------------------------------------------
Known == UNION {live[l] \cup trashed[l] : l \in Library}

Next ==
  \/ \E a \in Asset : Edit(a) \/ EditSilently(a) \/ List(a) \/ Verify(a)
  \/ \E l \in Library \cup {Nowhere} : Switch(l)
  \/ \E o \in Known :
       QueueRemoval(o) \/ SendRemoval(o) \/ \E l \in Library : Change(l, o)
  \/ \E l \in Library :
       \/ \E c \in Component : Import(l, c) \/ Expire(l, c)
       \/ \E o \in jobs[l] : ImportLeftOver(l, o)
  \/ StartOrResume \/ Ask \/ SendChunk \/ ChunkUnanswered
  \/ Complete \/ CompleteUnanswered \/ Poll \/ Mark \/ Interrupted
  \/ \E E \in SUBSET Asset : Confirm(E)
  \/ HashLocal \/ VerifyOriginal \/ Verified \/ Remove \/ Leave

\* Passes follow each other, a pass goes on while the process lives, and the
\* server works its queue off.
Fairness ==
  /\ WF_vars(StartOrResume \/ Ask \/ SendChunk \/ Complete \/ Poll \/ Mark
             \/ (~Connected /\ Interrupted))
  /\ \A a \in Asset : SF_vars(List(a))
  /\ \A l \in Library : \A c \in Component : WF_vars(Import(l, c))

Spec == Init /\ [][Next]_vars /\ Fairness

-----------------------------------------------------------------------------
(* Properties.                                                             *)

\* A receipt of a library proves the very bytes of the version it is for, of
\* every component: whatever edit, resumed session or change of the library
\* came between listing the item and recording it. Only an edit that leaves no
\* trace in the metadata can blur this.
ReceiptIsTrue ==
  \A l \in Library : \A a \in Asset \ blurred :
    \A i \in DOMAIN receipts[l][a].originals :
      receipts[l][a].originals[i] = Pure(<<a, i>>, receipts[l][a].version)

\* The phone gives up its copy of an item only if every component's bytes, as
\* they are then, are a live original of the library the user confirmed for,
\* with no removal queued: unless the item changed after its last check.
ReclaimKeepsOriginal ==
  [][\A a \in Asset : phone[a].here /\ ~phone'[a].here =>
       \/ a \in late
       \/ \A i \in Part(a) :
            LET o == Pure(<<a, i>>, phone[a].bytes) IN
            o \in live[rm.library] \ removing[rm.library]]_vars

\* While the phone stays connected, an item that nobody has moved to the trash
\* of the library is backed up in the end: no lost answer, expired session,
\* failed import or edit leaves an upload that every pass takes up in vain.
BackedUp ==
  \A a \in Asset :
    []<>(\/ conn = Nowhere \/ ~phone[a].here
         \/ \E o \in trashed[conn] : o.of[1] = a
         \/ receipts[conn][a].version = phone[a].version)
=============================================================================
