----------------------------- MODULE WebUploads -----------------------------
(***************************************************************************)
(* The browser's upload queue: web/src/lib/upload-queue.ts, shared through *)
(* IndexedDB by every open page (routes/+layout.svelte) and the service    *)
(* worker. A batch is claimed under a lease, sent, and removed or released *)
(* again; a page or the worker may be closed at any step, the account of   *)
(* the browser may change at any step, and an answer may get lost.         *)
(*                                                                         *)
(* The lease is a countdown that Tick advances, in every row and in the    *)
(* memory of the sender: upload-queue.ts compares leaseUntil with          *)
(* Date.now(). Batches are numbered in the order of their createdAt.       *)
(***************************************************************************)
EXTENDS Integers, FiniteSets, FiniteSetsExt

CONSTANTS
  Owner,         \* accounts
  First,         \* the one the browser is signed in to at first
  NoOwner,       \* signed out
  Page,          \* pages (tabs) of the browser
  Worker,        \* its service worker
  MaxBatch,      \* how many batches are ever queued
  Unsupported,   \* those the server refuses for good
  Lease,         \* LEASE_MS, in ticks
  MaxEvent       \* mishaps (requests that fail, pages and workers closed, broken
                 \* transactions, the account changed elsewhere), and accounts
                 \* switched in a page, all together

Batch == 1..MaxBatch
Context == Page \cup {Worker}

ASSUME WebUploadsAssumption ==
  /\ {MaxBatch, MaxEvent} \subseteq Nat /\ Lease \in Nat \ {0}
  /\ Unsupported \subseteq Batch
  /\ Worker \notin Page /\ NoOwner \notin Owner /\ First \in Owner

VARIABLES
  store,     \* the rows of the batches store, by id
  made,      \* the account each batch was queued for
  cookie,    \* the account the browser's session cookie signs in
  user,      \* the account each page shows (stores.ts session)
  drain,     \* where each context is in resumeQueuedUploads and drainUploads
  sync,      \* the Background Sync registration
  accepted,  \* accounts the server has taken a batch for, as an import job
  refused,   \* batches the server has refused for good
  outlived,  \* batches a sender held for longer than its lease
  broken,    \* a drain has ended because the store failed
  events     \* how many mishaps and switches of the account there were

vars == <<store, made, cookie, user, drain, sync, accepted, refused, outlived, broken, events>>
serverVars == <<accepted, refused>>

Row == [owner: Owner, state: {"queued", "sending"}, lease: 0..Lease]

\* "count" to "finish" are the steps of one run of resumeQueuedUploads.
Step == {"closed", "idle", "count", "claim", "check", "flight", "keep", "drop",
         "release", "tally", "poll", "finish"}

Progress == [at: Step, owner: Owner \cup {NoOwner}, batch: Batch \cup {0}, lease: 0..Lease,
             retry: BOOLEAN, aborted: BOOLEAN, again: BOOLEAN, added: BOOLEAN]
Idle == [at |-> "idle", owner |-> NoOwner, batch |-> 0, lease |-> 0, retry |-> FALSE,
         aborted |-> FALSE, again |-> FALSE, added |-> FALSE]

WebUploadsTypeOK ==
  /\ store \in UNION {[B -> Row] : B \in SUBSET Batch}
  /\ made \in [Batch -> Owner \cup {NoOwner}]
  /\ cookie \in Owner \cup {NoOwner}
  /\ user \in [Page -> Owner \cup {NoOwner}]
  /\ drain \in [Context -> Progress]
  /\ sync \in {"unsupported", "none", "waiting", "firing", "again"}
  /\ accepted \in [Batch -> SUBSET Owner]
  /\ refused \subseteq Batch /\ outlived \subseteq Batch
  /\ events \in [mishap: 0..MaxEvent, switch: 0..MaxEvent]
  /\ broken \in BOOLEAN

Init ==
  /\ store = [b \in {} |-> Idle]
  /\ made = [b \in Batch |-> NoOwner]
  /\ cookie = First
  /\ user = [p \in Page |-> NoOwner]
  /\ drain = [c \in Context |-> IF c = Worker THEN Idle ELSE [Idle EXCEPT !.at = "closed"]]
  /\ sync \in {"none", "unsupported"}
  /\ accepted = [b \in Batch |-> {}]
  /\ refused = {} /\ outlived = {}
  /\ events = [mishap |-> 0, switch |-> 0]
  /\ broken = FALSE

Event(what) ==
  events.mishap + events.switch < MaxEvent /\ events' = [events EXCEPT ![what] = @ + 1]

-----------------------------------------------------------------------------
(* The pages and their accounts.                                           *)

Started(u) == [Idle EXCEPT !.at = "count", !.owner = u]

\* resumeQueuedUploads up to its first await, called on a page that shows u.
Woken(d, u) ==
  IF u = NoOwner THEN d
  ELSE IF d.at = "idle" THEN [Started(u) EXCEPT !.added = d.added]
       ELSE [d EXCEPT !.again = TRUE]

\* A change of the account aborts the upload in progress (uploadAbort): the one
\* request, or the next that the same drain would send.
Abort(d) ==
  [d EXCEPT !.aborted = @ \/ d.at \in {"count", "claim", "check", "flight", "keep", "drop"}]

\* requestBackgroundUpload: registers UPLOAD_SYNC_TAG, perhaps while its event
\* runs, in a browser that has Background Sync.
Registered(s) ==
  CASE s = "unsupported" -> s
    [] s \in {"firing", "again"} -> "again"
    [] OTHER -> "waiting"

\* init shows the account of the cookie, or none when the server does not answer.
Open(p) ==
  /\ drain[p].at = "closed"
  /\ \/ /\ user' = [user EXCEPT ![p] = cookie]
        /\ drain' = [drain EXCEPT ![p] = Woken(Idle, cookie)]
        /\ UNCHANGED events
     \/ /\ Event("mishap")
        /\ drain' = [drain EXCEPT ![p] = Idle]
        /\ UNCHANGED user
  /\ UNCHANGED <<store, made, cookie, sync, serverVars, outlived, broken>>

Close(p) ==
  /\ drain[p].at # "closed"
  /\ Event("mishap")
  /\ drain' = [drain EXCEPT ![p] = [Idle EXCEPT !.at = "closed"]]
  /\ user' = [user EXCEPT ![p] = NoOwner]
  /\ UNCHANGED <<store, made, cookie, sync, serverVars, outlived, broken>>

\* submitAuth: the form is shown while the page has no account.  The drain is
\* started at once; then the reactive block sees the account change, and aborts
\* what uploadAbort names by now: the drain that was just started.
SignIn(p, u) ==
  /\ drain[p].at # "closed" /\ user[p] = NoOwner
  /\ Event("switch")
  /\ cookie' = u
  /\ user' = [user EXCEPT ![p] = u]
  /\ drain' = [drain EXCEPT ![p] = Abort(Woken(@, u))]
  /\ UNCHANGED <<store, made, sync, serverVars, outlived, broken>>

\* logout aborts the upload first; the session stays when the request fails.
SignOut(p) ==
  /\ user[p] # NoOwner
  /\ drain' = [drain EXCEPT ![p] = Abort(@)]
  /\ \/ /\ Event("switch")
        /\ cookie' = NoOwner /\ user' = [user EXCEPT ![p] = NoOwner]
     \/ /\ Event("mishap")
        /\ UNCHANGED <<cookie, user>>
  /\ UNCHANGED <<store, made, sync, serverVars, outlived, broken>>

\* A tab outside Page signs out or in and is closed, or the server ends the session.
\* Bound: once, away from First; it is in a page that First signs in again.
AccountChanges(u) ==
  /\ cookie = First /\ u # First
  /\ Event("mishap")
  /\ cookie' = u
  /\ UNCHANGED <<store, made, user, drain, sync, serverVars, outlived, broken>>

\* Any other request of the page is answered 401 or account_changed (api.ts req).
SessionLost(p) ==
  /\ user[p] \notin {NoOwner, cookie}
  /\ user' = [user EXCEPT ![p] = NoOwner]
  /\ drain' = [drain EXCEPT ![p] = Abort(@)]
  /\ UNCHANGED <<store, made, cookie, sync, serverVars, outlived, broken, events>>

\* doUpload: the files chosen together become batches of one file each.
Enqueue(p, n) ==
  LET used == Cardinality({b \in Batch : made[b] # NoOwner})
      new == used + 1 .. used + n
  IN /\ user[p] # NoOwner /\ ~drain[p].added
     /\ used + n <= MaxBatch
     /\ made' = [b \in Batch |-> IF b \in new THEN user[p] ELSE made[b]]
     /\ store' = [b \in DOMAIN store \cup new |->
                    IF b \in new THEN [owner |-> user[p], state |-> "queued", lease |-> 0]
                    ELSE store[b]]
     /\ drain' = [drain EXCEPT ![p].added = TRUE]
     /\ UNCHANGED <<cookie, user, sync, serverVars, outlived, broken, events>>

\* The rest of doUpload: the registration, then the foreground attempt.
Announce(p) ==
  /\ drain[p].added
  /\ sync' = Registered(sync)
  /\ drain' = [drain EXCEPT ![p] = Woken([@ EXCEPT !.added = FALSE], user[p])]
  /\ UNCHANGED <<store, made, cookie, user, serverVars, outlived, broken, events>>

\* The connection returns: the browser's online event.
Online(p) ==
  /\ drain[p].at # "closed" /\ user[p] # NoOwner
  /\ drain' = [drain EXCEPT ![p] = Woken(@, user[p])]
  /\ UNCHANGED <<store, made, cookie, user, sync, serverVars, outlived, broken, events>>

-----------------------------------------------------------------------------
(* drainUploads.                                                           *)

RowsOf(u) == {b \in DOMAIN store : store[b].owner = u}

Goto(c, step) == drain' = [drain EXCEPT ![c].at = step]

Count(p) ==
  /\ drain[p].at = "count"
  /\ Goto(p, IF RowsOf(drain[p].owner) = {} THEN "finish" ELSE "claim")
  /\ UNCHANGED <<store, made, cookie, user, sync, serverVars, outlived, broken, events>>

ClaimableAny(u) == RowsOf(u)    \* (a mutant: leases are not looked at)
ClaimableQueued(u) ==            \* (a mutant: a lease never runs out)
  {b \in RowsOf(u) : store[b].state = "queued"}
Claimable(u) == {b \in RowsOf(u) : store[b].state = "queued" \/ store[b].lease = 0}

\* claimNext: one transaction picks the oldest row that nobody holds.
ClaimNext(c) ==
  LET free == Claimable(drain[c].owner) IN
  /\ drain[c].at = "claim"
  /\ IF free = {} THEN Goto(c, "tally") /\ UNCHANGED store
     ELSE LET b == Min(free) IN
          /\ store' = [store EXCEPT ![b].state = "sending", ![b].lease = Lease]
          /\ drain' = [drain EXCEPT ![c].at = IF c = Worker THEN "flight" ELSE "check",
                                    ![c].batch = b, ![c].lease = Lease]
  /\ UNCHANGED <<made, cookie, user, sync, serverVars, outlived, broken, events>>

\* The page's sender refuses to send for an account it does not show any more.
CheckAccount(p) ==
  /\ drain[p].at = "check"
  /\ Goto(p, IF drain[p].aborted \/ user[p] # drain[p].owner THEN "release" ELSE "flight")
  /\ UNCHANGED <<store, made, cookie, user, sync, serverVars, outlived, broken, events>>

\* POST /api/assets: the server compares X-Kuraki-Owner-ID with its session.
Served(c) ==
  IF cookie = drain[c].owner
  THEN IF drain[c].batch \in Unsupported
       THEN refused' = refused \cup {drain[c].batch} /\ UNCHANGED accepted
       ELSE accepted' = [accepted EXCEPT ![drain[c].batch] = @ \cup {cookie}] /\ UNCHANGED refused
  ELSE UNCHANGED serverVars

\* permanentUploadStatus: only a refusal of the file itself is permanent.
AfterAnswerDrops(c) ==    \* (a mutant: any refusal is permanent)
  IF cookie # drain[c].owner \/ drain[c].batch \in Unsupported THEN "drop" ELSE "keep"
AfterAnswer(c) ==
  IF cookie # drain[c].owner THEN "release"
  ELSE IF drain[c].batch \in Unsupported THEN "drop" ELSE "keep"

\* uploadFiles: the answer account_changed (of another session) signs the page out.
Answered(c) ==
  /\ drain[c].at = "flight"
  /\ Served(c)
  /\ IF c \in Page /\ cookie \notin {NoOwner, drain[c].owner} /\ user[c] = drain[c].owner
     THEN /\ user' = [user EXCEPT ![c] = NoOwner]
          /\ drain' = [drain EXCEPT ![c].at = AfterAnswer(c), ![c].aborted = TRUE]
     ELSE UNCHANGED user /\ Goto(c, AfterAnswer(c))
  /\ UNCHANGED <<store, made, cookie, sync, outlived, broken, events>>

\* The request or its answer is lost, or the page aborted it (xhr.abort).
Unanswered(c) ==
  /\ drain[c].at = "flight"
  /\ IF drain[c].aborted THEN UNCHANGED events ELSE Event("mishap")
  /\ Served(c) \/ UNCHANGED serverVars
  /\ Goto(c, "release")
  /\ UNCHANGED <<store, made, cookie, user, sync, outlived, broken>>

\* removeBatch, after an accepted or a permanently refused upload.
Remove(c) ==
  /\ drain[c].at \in {"keep", "drop"}
  /\ store' = [b \in DOMAIN store \ {drain[c].batch} |-> store[b]]
  /\ drain' = [drain EXCEPT ![c].at = "claim", ![c].batch = 0, ![c].lease = 0]
  /\ UNCHANGED <<made, cookie, user, sync, serverVars, outlived, broken, events>>

\* Wrong: the row goes back under the account of the moment.
ReleaseUnowned(c) ==
  LET b == drain[c].batch IN
  /\ drain[c].at = "release"
  /\ store' = [x \in DOMAIN store \cup {b} |->
                 IF x = b THEN [owner |-> cookie, state |-> "queued", lease |-> 0]
                 ELSE store[x]]
  /\ drain' = [drain EXCEPT ![c].at = "tally", ![c].batch = 0, ![c].lease = 0,
                            ![c].retry = TRUE, ![c].aborted = FALSE]
  /\ UNCHANGED <<made, cookie, user, sync, serverVars, outlived, broken, events>>

\* releaseBatch puts the row back as the sender read it, whoever holds it now.
Release(c) ==
  LET b == drain[c].batch IN
  /\ drain[c].at = "release"
  /\ store' = [x \in DOMAIN store \cup {b} |->
                 IF x = b THEN [owner |-> made[b], state |-> "queued", lease |-> 0]
                 ELSE store[x]]
  /\ drain' = [drain EXCEPT ![c].at = "tally", ![c].batch = 0, ![c].lease = 0,
                            ![c].retry = TRUE, ![c].aborted = FALSE]
  /\ UNCHANGED <<made, cookie, user, sync, serverVars, outlived, broken, events>>

\* The removal after an accepted upload fails: one more reason to release.
RemoveFails(c) ==
  /\ drain[c].at = "keep"
  /\ Event("mishap")
  /\ Goto(c, "release")
  /\ UNCHANGED <<store, made, cookie, user, sync, serverVars, outlived, broken>>

\* The transaction of the error handler fails, which ends the drain at once.
StoreBreaks(c) ==
  /\ drain[c].at \in {"drop", "release"}
  /\ Event("mishap")
  /\ broken' = TRUE
  /\ drain' = [drain EXCEPT ![c].at = IF c = Worker THEN "idle" ELSE "finish",
                            ![c].batch = 0, ![c].lease = 0]
  /\ sync' = IF c = Worker THEN "waiting" ELSE sync
  /\ UNCHANGED <<store, made, cookie, user, serverVars, outlived>>

\* The end of drainUploads: rows another context holds are work left, too.
Tally(c) ==
  LET d == drain[c]
      retry == d.retry \/ RowsOf(d.owner) # {}
  IN /\ d.at = "tally"
     /\ IF c = Worker
        THEN /\ drain' = [drain EXCEPT ![c] = Idle]
             /\ sync' = IF retry \/ sync = "again" THEN "waiting" ELSE "none"
        ELSE /\ drain' = [drain EXCEPT ![c].retry = retry /\ RowsOf(d.owner) # {},
                                       ![c].at = IF user[c] = d.owner THEN "poll" ELSE "finish"]
             /\ UNCHANGED sync
     /\ UNCHANGED <<store, made, cookie, user, serverVars, outlived, broken, events>>

\* pollJob has followed the imports to their end; what is left is registered.
Polled(p) ==
  /\ drain[p].at = "poll"
  /\ sync' = IF drain[p].retry THEN Registered(sync) ELSE sync
  /\ Goto(p, "finish")
  /\ UNCHANGED <<store, made, cookie, user, serverVars, outlived, broken, events>>

\* The finally block of resumeQueuedUploads: a wake that came meanwhile counts.
Finish(p) ==
  LET d == drain[p]
      resumeAgain == d.again \/ user[p] # d.owner
      rest == [Idle EXCEPT !.added = d.added]
  IN /\ d.at = "finish"
     /\ drain' = [drain EXCEPT ![p] = IF resumeAgain THEN Woken(rest, user[p]) ELSE rest]
     /\ UNCHANGED <<store, made, cookie, user, sync, serverVars, outlived, broken, events>>

-----------------------------------------------------------------------------
(* The service worker and the time.                                        *)

\* The sync event: without an account it throws, and the browser tries again.
SyncFires ==
  /\ drain[Worker].at = "idle" /\ sync = "waiting" /\ cookie # NoOwner
  /\ sync' = "firing"
  /\ drain' = [drain EXCEPT ![Worker] = [Idle EXCEPT !.at = "claim", !.owner = cookie]]
  /\ UNCHANGED <<store, made, cookie, user, serverVars, outlived, broken, events>>

\* The browser stops the worker: the event counts as failed.
WorkerStops ==
  /\ drain[Worker].at # "idle"
  /\ Event("mishap")
  /\ drain' = [drain EXCEPT ![Worker] = Idle]
  /\ sync' = "waiting"
  /\ UNCHANGED <<store, made, cookie, user, serverVars, outlived, broken>>

Holding(c) == drain[c].batch # 0

Tick ==
  /\ \E b \in DOMAIN store : store[b].lease > 0
  /\ store' = [b \in DOMAIN store |-> [store[b] EXCEPT !.lease = IF @ > 0 THEN @ - 1 ELSE 0]]
  /\ drain' = [c \in Context |-> [drain[c] EXCEPT !.lease = IF @ > 0 THEN @ - 1 ELSE 0]]
  /\ outlived' = outlived \cup {drain[c].batch : c \in {x \in Context : Holding(x) /\ drain[x].lease <= 1}}
  /\ UNCHANGED <<made, cookie, user, sync, serverVars, broken, events>>

DrainStep(c) == ClaimNext(c) \/ Answered(c) \/ Remove(c) \/ Release(c) \/ Tally(c)
PageStep(p) ==
  Open(p) \/ Announce(p) \/ Count(p) \/ CheckAccount(p) \/ Polled(p) \/ Finish(p) \/ DrainStep(p)

Next ==
  \/ \E p \in Page :
       \/ Open(p) \/ Close(p) \/ SignOut(p) \/ SessionLost(p) \/ Online(p)
       \/ Announce(p) \/ Count(p) \/ CheckAccount(p) \/ Polled(p) \/ Finish(p)
       \/ \E u \in Owner : SignIn(p, u)
       \/ \E n \in 1..MaxBatch : Enqueue(p, n)
  \/ \E c \in Context :
       \/ ClaimNext(c) \/ Answered(c) \/ Unanswered(c) \/ Remove(c) \/ Release(c)
       \/ RemoveFails(c) \/ StoreBreaks(c) \/ Tally(c)
  \/ SyncFires \/ WorkerStops \/ Tick
  \/ \E u \in Owner \cup {NoOwner} : AccountChanges(u)

\* What a context has begun it goes on with while it lives, the browser fires
\* a registered sync, and pages are opened again: none of the user's own steps.
Fairness ==
  /\ \A p \in Page : WF_vars(PageStep(p))
  /\ WF_vars(SyncFires \/ DrainStep(Worker)) /\ WF_vars(Tick)

Spec == Init /\ [][Next]_vars /\ Fairness

-----------------------------------------------------------------------------
(* Properties.                                                             *)

\* A photo chosen for upload is in the queue until the server has accepted it
\* for its account or has refused it for good: whatever is closed, aborted or
\* lost in between, and whoever removes or releases whose batch.
NothingLost ==
  \A b \in Batch :
    made[b] # NoOwner => b \in DOMAIN store \/ made[b] \in accepted[b] \/ b \in refused

\* A photo never enters the library of an account other than the one it was
\* queued for, though the browser's account changes between claim and request.
OwnLibraryOnly == \A b \in Batch : accepted[b] \subseteq {made[b]}

\* Both: what is queued lands, once it does, in its own library.
UploadsLand == NothingLost /\ OwnLibraryOnly

\* claimNext's promise: two contexts send the same batch only after one of its
\* senders has outlived the lease.
OneSenderWithinLease ==
  \A c, d \in Context :
    c # d /\ Holding(c) /\ drain[c].batch = drain[d].batch => drain[c].batch \in outlived

\* While the browser and its pages are signed in to its account, a queued photo
\* does not stay in the queue for ever: every wake that is dropped, lease that
\* is left behind or registration that is forgotten would leave it there. Two
\* cases wait for the user's next wake instead: in a browser without Background
\* Sync, a mishap or an account switched in the page, whose sign-in aborts the
\* drain it has started; and a drain that the store itself has ended.
UploadsDrain ==
  \A b \in Batch :
    []<>(\/ b \notin DOMAIN store
         \/ cookie # made[b] \/ \E p \in Page : user[p] # made[b]
         \/ broken
         \/ sync = "unsupported" /\ events.mishap + events.switch > 0)
=============================================================================
