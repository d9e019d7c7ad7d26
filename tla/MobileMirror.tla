---------------------------- MODULE MobileMirror ----------------------------
(***************************************************************************)
(* The phone's cache of one library: the mirror of the assets and its      *)
(* cursor into the server's change feed, and the queue of edits that the   *)
(* phone has made and not yet sent (mobile/src/lib/cache, library-api.ts,  *)
(* background-sync.ts).                                                    *)
(*                                                                         *)
(* The server is external: its handlers are modelled by what the phone can *)
(* observe.  The content of an asset is its version, the number of its     *)
(* changes, and a row of the mirror is the version that was read; every    *)
(* edit that leaves an asset in the library (favorite, album, tags) is an  *)
(* "update".                                                               *)
(***************************************************************************)
EXTENDS Integers, FiniteSets, Sequences, SequencesExt, FiniteSetsExt

CONSTANTS
  Asset,
  MaxIntent,   \* how many edits the phone ever makes
  MaxEvent,    \* edits on the web and on the phone, pages read, prunings, failures,
               \* aborts and crashes, all together
  Keep,        \* how many changes the pruned log keeps (change_log_keep)
  FeedPage,    \* changes in a page of the feed
  FeedPages,   \* pages in one catch-up (20 in the code)
  Batch,       \* rows of the queue read at once (100)
  Batches      \* and how often in one flush (5)

ASSUME MobileMirrorAssumption ==
  /\ {MaxIntent, MaxEvent} \subseteq Nat
  /\ {Keep, FeedPage, FeedPages, Batch, Batches} \subseteq Nat \ {0}
  /\ IsFiniteSet(Asset)

VARIABLES
  state,      \* each asset on the server: live, trashed or gone
  version,    \* and how often it has changed
  unlogged,   \* updates that are committed and not yet in the change log
  log,        \* the server's change log, pruned entries included
  floor,      \* the last pruned id
  late,       \* requests that were given up and may still reach the server
  handled,    \* what the server has made of each intent
  queue,      \* pending_mutations
  nextID,     \* the next id of that table
  rejected,   \* mutation_rejections
  tap,        \* an edit shown to the user and not yet in the queue
  row,        \* the mirror: the version of each asset (0: no row), and its trashed flag
  cursor,     \* the cursor of the feed, as stored
  page,       \* a page of the library or of the trash, read and not yet mirrored
  lane,       \* who holds the lane of ordered work, and how far it is
  stale,      \* assets whose row holds a version that the catch-up had gone past
  left        \* how many events may still happen

server == <<state, version, unlogged, log, floor>>
intents == <<handled, queue, nextID, rejected>>
mirror == <<row, cursor, stale>>
vars == <<state, version, unlogged, log, floor, late, handled, queue, nextID, rejected,
          tap, row, cursor, page, lane, stale, left>>

Kind == {"update", "trash", "restore", "purge"}
Intent == 1..MaxIntent
NoTap == [kind |-> "none"]
NoPage == [kind |-> "none"]
Free == [at |-> "free"]
NoRow == [v |-> 0, trashed |-> FALSE]

MobileMirrorTypeOK ==
  /\ state \in [Asset -> {"live", "trashed", "gone"}]
  /\ version \in [Asset -> Nat] /\ unlogged \subseteq [asset: Asset, v: Nat, by: Nat]
  /\ log \in Seq([asset: Asset, op: {"change", "delete"}, v: Nat]) /\ floor \in 0..Len(log)
  /\ handled \in [Intent -> {"no", "accepted", "refused"}]
  /\ nextID \in 1..(MaxIntent + 1) /\ rejected \subseteq 1..(nextID - 1)
  /\ late \cup ToSet(queue) \subseteq [id: 1..(nextID - 1), kind: Kind, asset: Asset]
  /\ row \in [Asset -> [v: Nat, trashed: BOOLEAN]] /\ stale \subseteq Asset
  /\ \A a \in Asset : row[a].v <= version[a]
  /\ cursor \in 0..Len(log)
  /\ lane.at \in {"free", "sending", "answered", "sync", "feed", "apply", "write", "clear",
                 "jump"}
  /\ left \in 0..MaxEvent

\* A phone that has followed the library since it was empty, or a new one.
Init ==
  /\ state = [a \in Asset |-> "live"] /\ version = [a \in Asset |-> 1] /\ unlogged = {}
  /\ log = [k \in 1..Cardinality(Asset) |->
              [asset |-> SetToSeq(Asset)[k], op |-> "change", v |-> 1]]
  /\ floor = 0 /\ late = {} /\ handled = [i \in Intent |-> "no"]
  /\ queue = <<>> /\ nextID = 1 /\ rejected = {}
  /\ tap = NoTap /\ page = NoPage /\ lane = Free /\ stale = {} /\ left = MaxEvent
  /\ \/ cursor = 0 /\ row = [a \in Asset |-> NoRow]
     \/ cursor = Len(log) /\ row = [a \in Asset |-> [v |-> 1, trashed |-> FALSE]]

Event == left > 0 /\ left' = left - 1

\* The last version of an asset that the log tells of up to an id (0: none).
Told(a, id) ==
  Max({0} \cup {log[k].v : k \in {j \in DOMAIN log : j <= id /\ log[j].asset = a}})

-----------------------------------------------------------------------------
(* The server.                                                             *)

Accepts(kind, a) ==
  state[a] = CASE kind = "update" -> "live" [] kind = "trash" -> "live"
               [] kind = "restore" -> "trashed" [] kind = "purge" -> "trashed"

\* The line of the log about a change of an asset.
Line(a, op, v) == [asset |-> a, op |-> op, v |-> v]

\* An edit of an asset, by an intent of the phone (0: the web); a refused one changes
\* nothing.  Trashing, restoring and purging write their line of the log in the
\* transaction of the change, an update after it.
Edit(kind, a, by) ==
  LET v == version[a] + 1 IN
  IF Accepts(kind, a)
  THEN /\ state' = [state EXCEPT ![a] = CASE kind \in {"update", "restore"} -> "live"
                                          [] kind = "trash" -> "trashed"
                                          [] kind = "purge" -> "gone"]
       /\ version' = [version EXCEPT ![a] = v]
       /\ IF kind = "update"
          THEN /\ unlogged' = unlogged \cup {[asset |-> a, v |-> v, by |-> by]}
               /\ UNCHANGED log
          ELSE /\ log' = Append(log, Line(a, IF kind = "restore" THEN "change" ELSE "delete", v))
               /\ UNCHANGED unlogged
       /\ UNCHANGED floor
  ELSE UNCHANGED server

\* An edit made elsewhere, on the web.
WebEdit(kind, a) ==
  /\ Accepts(kind, a) /\ Event
  /\ Edit(kind, a, 0)
  /\ UNCHANGED <<late, intents, tap, mirror, page, lane>>

\* logAssetChange, after the update is committed: its failure is only logged.
LogLine(l) ==
  /\ l \in unlogged /\ unlogged' = unlogged \ {l}
  /\ log' = Append(log, Line(l.asset, "change", l.v))
  /\ UNCHANGED <<state, version, floor, late, intents, tap, mirror, page, lane, left>>

LineLost(l) ==
  /\ l \in unlogged /\ unlogged' = unlogged \ {l} /\ Event
  /\ UNCHANGED <<state, version, log, floor, late, intents, tap, mirror, page, lane>>

Prune ==
  /\ Len(log) - Keep > floor /\ Event
  /\ floor' = Len(log) - Keep
  /\ UNCHANGED <<state, version, unlogged, log, late, intents, tap, mirror, page, lane>>

-----------------------------------------------------------------------------
(* An edit on the phone: shown and put in the mirror, then into the queue. *)

\* What the screens do first, the trash with what it lists, the others with what is
\* not known to be there: they change the row.
Tap(kind, a) ==
  /\ tap = NoTap /\ nextID <= MaxIntent /\ Event /\ row[a].trashed = (kind \in {"restore", "purge"})
  /\ tap' = [kind |-> kind, asset |-> a]
  /\ row' = CASE kind \in {"trash", "restore"} /\ row[a].v # 0 ->
                   [row EXCEPT ![a].trashed = (kind = "trash")]
              [] kind = "purge" -> [row EXCEPT ![a] = NoRow]
              [] OTHER -> row
  /\ UNCHANGED <<server, late, intents, cursor, page, lane, stale>>

EnqueueKeeps ==    \* (a mutant: the edit is still to be queued afterwards)
  /\ tap # NoTap
  /\ queue' = Append(queue, [id |-> nextID, kind |-> tap.kind, asset |-> tap.asset])
  /\ nextID' = nextID + 1
  /\ UNCHANGED <<server, late, tap, handled, rejected, mirror, page, lane, left>>

Enqueue ==
  /\ tap # NoTap
  /\ queue' = Append(queue, [id |-> nextID, kind |-> tap.kind, asset |-> tap.asset])
  /\ nextID' = nextID + 1 /\ tap' = NoTap
  /\ UNCHANGED <<server, late, handled, rejected, mirror, page, lane, left>>

-----------------------------------------------------------------------------
(* The flush of the queue, in the lane.                                    *)

FirstRows(q) == SubSeq(q, 1, IF Len(q) < Batch THEN Len(q) ELSE Batch)

\* A batch of rows is read and its first one sent; after a full batch, another one.
Flushing(q, batch) ==
  IF q = <<>> THEN Free
  ELSE [at |-> "sending", rows |-> FirstRows(q), full |-> Len(FirstRows(q)) = Batch,
        batch |-> batch]
NextRow(rows, q) ==
  IF rows # <<>> THEN [at |-> "sending", rows |-> rows, full |-> lane.full,
                       batch |-> lane.batch]
  ELSE IF lane.full /\ lane.batch < Batches THEN Flushing(q, lane.batch + 1) ELSE Free

BeginFlush ==
  /\ lane = Free /\ queue # <<>>
  /\ lane' = Flushing(queue, 1)
  /\ UNCHANGED <<server, late, intents, tap, mirror, page, left>>

\* classifyMutationResult.
ClassifyDropped(answer) ==    \* (a mutant: what fails is given up)
  IF answer = "accepted" THEN "sent" ELSE "drop"
Classify(answer) ==
  CASE answer = "accepted" -> "sent" [] answer = "refused" -> "drop" [] answer = "failed" -> "retry"

Answered(answer) == lane' = [at |-> "answered", rows |-> lane.rows, full |-> lane.full,
                             batch |-> lane.batch, outcome |-> Classify(answer)]

\* The server handles a request.
Answer(m) == IF Accepts(m.kind, m.asset) THEN "accepted" ELSE "refused"
Handle(m) ==
  /\ Edit(m.kind, m.asset, m.id)
  /\ handled' = [handled EXCEPT ![m.id] = IF @ = "accepted" THEN @ ELSE Answer(m)]

\* The request reaches the server, and the phone is to hear the answer.
Served ==
  /\ lane.at = "sending"
  /\ Handle(Head(lane.rows)) /\ Answered(Answer(Head(lane.rows)))
  /\ UNCHANGED <<late, queue, nextID, rejected, tap, mirror, page, left>>

\* No answer, or one that says to try again (401, 408, 429, 5xx).  The request may
\* have reached the server, or be on its way.
Failed ==
  /\ lane.at = "sending" /\ Event
  /\ late' \in {late, late \cup {Head(lane.rows)}}
  /\ Answered("failed")
  /\ UNCHANGED <<server, intents, tap, mirror, page>>

LateRequest(m) ==
  /\ m \in late /\ late' = late \ {m}
  /\ Handle(m)
  /\ UNCHANGED <<queue, nextID, rejected, tap, mirror, page, lane, left>>

\* What the phone does with the answer, in one transaction; the handler answers when
\* it has tried to log the change.  A retry keeps the row and ends the flush, so that
\* nothing overtakes it.
HoldAfterRetry == lane    \* (a mutant: the lane is held until the next attempt)
AfterRetry == Free

\* The queue without a row.
Without(m) ==
  LET same == {k \in DOMAIN queue : queue[k].id = m.id} IN
  IF same = {} THEN queue ELSE RemoveAt(queue, CHOOSE k \in same : TRUE)

Settle ==
  LET m == Head(lane.rows)
      rest == Without(m)
  IN /\ lane.at = "answered" /\ (lane.outcome = "sent" => \A l \in unlogged : l.by # m.id)
     /\ IF lane.outcome = "retry" THEN lane' = AfterRetry /\ UNCHANGED <<queue, rejected>>
        ELSE /\ queue' = rest
             /\ rejected' = IF lane.outcome = "drop" THEN rejected \cup {m.id} ELSE rejected
             /\ lane' = NextRow(Tail(lane.rows), rest)
     /\ UNCHANGED <<server, late, handled, nextID, tap, mirror, page, left>>

-----------------------------------------------------------------------------
(* The catch-up with the change feed, in the lane.                         *)

\* Where a reset sends the client: to the head.
AfterReset == Len(log)

\* The answer of /api/changes, from the entries that are there when they are listed.
Listed ==
  LET from == IF cursor > floor THEN cursor ELSE floor
      rest == Len(log) - from
      here == IF rest < FeedPage THEN rest ELSE FeedPage
  IN [ids |-> [k \in 1..here |-> from + k], more |-> rest > FeedPage,
      cursor |-> IF here = 0 THEN cursor ELSE from + here]

\* The cursor is read and sent, for the first page or the next one, and the handler
\* reads what the log keeps.
GetFeed ==
  /\ lane = Free \/ lane.at = "sync"
  /\ lane' = [at |-> "feed", pages |-> IF lane = Free THEN 1 ELSE lane.pages,
              floor |-> floor]
  /\ UNCHANGED <<server, late, intents, tap, mirror, page, left>>

ResetsNever == FALSE    \* (a mutant: no client is told that its changes are pruned)
Resets == cursor > 0 /\ cursor < lane.floor

\* It lists the changes in a statement of its own: what is pruned in between is listed
\* by neither, and the client is not told.  past is the change up to which the mirror
\* has been brought in this page, pruned what it will not hear of.
ListFeed ==
  /\ lane.at = "feed"
  /\ lane' = IF Resets \/ cursor > Len(log)
             THEN [at |-> "clear", pages |-> lane.pages, ids |-> <<>>, cursor |-> AfterReset,
                   more |-> FALSE, past |-> cursor, pruned |-> 0, v |-> 0]
             ELSE [at |-> "apply", pages |-> lane.pages, ids |-> Listed.ids,
                   cursor |-> Listed.cursor, more |-> Listed.more, past |-> cursor,
                   pruned |-> IF cursor = 0 \/ lane.floor <= cursor THEN floor ELSE 0, v |-> 0]
  /\ UNCHANGED <<server, late, intents, tap, mirror, page, left>>

NextChange == lane.ids[1]
Applied == [lane EXCEPT !.at = "apply", !.ids = Tail(@), !.past = NextChange]

\* applyChange: a deletion leaves the mirror at once, anything else is read again.
RemoveRow ==
  LET a == log[NextChange].asset IN
  /\ lane.at = "apply" /\ lane.ids # <<>> /\ log[NextChange].op = "delete"
  /\ row' = [row EXCEPT ![a] = NoRow] /\ stale' = stale \ {a}
  /\ lane' = Applied
  /\ UNCHANGED <<server, late, intents, tap, cursor, page, left>>

FetchAsset ==
  LET a == log[NextChange].asset IN
  /\ lane.at = "apply" /\ lane.ids # <<>> /\ log[NextChange].op # "delete"
  /\ lane' = [lane EXCEPT !.at = "write", !.v = IF state[a] = "live" THEN version[a] ELSE 0]
  /\ UNCHANGED <<server, late, intents, tap, mirror, page, left>>

\* The row that was read is written, or removed after a 404; the flag of a row in
\* the trash is none of the columns an upsert sets.
Upsert(a, v) == IF v = 0 THEN NoRow ELSE [row[a] EXCEPT !.v = v]

WriteRow ==
  LET a == log[NextChange].asset IN
  /\ lane.at = "write"
  /\ row' = [row EXCEPT ![a] = Upsert(a, lane.v)] /\ stale' = stale \ {a}
  /\ lane' = Applied
  /\ UNCHANGED <<server, late, intents, tap, cursor, page, left>>

\* The page is through, and only now the cursor goes past it.  A cursor of zero is
\* never reset, nor is one whose changes are pruned while the handler runs: rows that
\* were there before miss what was pruned.
SaveCursor ==
  /\ lane.at = "jump" \/ (lane.at = "apply" /\ lane.ids = <<>>)
  /\ cursor' = lane.cursor
  /\ stale' = stale \cup {a \in Asset : row[a].v # 0 /\ row[a].v < Told(a, lane.pruned)}
  /\ lane' = IF lane.more /\ lane.pages < FeedPages
             THEN [at |-> "sync", pages |-> lane.pages + 1] ELSE Free
  /\ UNCHANGED <<server, late, intents, tap, row, page, left>>

\* The feed was pruned past the cursor: the mirror is wiped, then the cursor jumps.
ClearRows ==
  /\ lane.at = "clear"
  /\ row' = [a \in Asset |-> NoRow] /\ stale' = {}
  /\ lane' = [lane EXCEPT !.at = "jump", !.past = lane.cursor]
  /\ UNCHANGED <<server, late, intents, tap, cursor, page, left>>

\* The deadline, the caller's signal or an unreachable server ends the work that
\* holds the lane and lets the next one in; a write that is under way is finished
\* before any later one (cache/writes.ts), so it is before or after this step.
Abort ==
  /\ lane # Free /\ Event
  /\ lane' = Free
  /\ late' \in {late} \cup (IF lane.at = "sending" THEN {late \cup {Head(lane.rows)}} ELSE {})
  /\ UNCHANGED <<server, intents, tap, mirror, page>>

Crash ==
  /\ Event
  /\ lane' = Free /\ tap' = NoTap /\ page' = NoPage
  /\ late' \in {late} \cup (IF lane.at = "sending" THEN {late \cup {Head(lane.rows)}} ELSE {})
  /\ UNCHANGED <<server, intents, mirror>>

-----------------------------------------------------------------------------
(* Pages that the screens read, mirrored outside the lane.                 *)

\* fetchLibrary and fetchAlbumAssets read live assets, fetchTrash the trash.
ReadPage(kind) ==
  LET here == {a \in Asset : state[a] = IF kind = "library" THEN "live" ELSE "trashed"} IN
  /\ page = NoPage /\ here # {} /\ Event
  /\ page' = [kind |-> kind, rows |-> [a \in here |-> version[a]]]
  /\ UNCHANGED <<server, late, intents, tap, mirror, lane>>

\* What the catch-up has brought the mirror to.
Past == IF lane.at \in {"apply", "write", "jump"} THEN lane.past ELSE cursor

MirrorPage ==
  LET here == DOMAIN page.rows
      older == {a \in here : page.rows[a] < Told(a, Past)}
  IN /\ page # NoPage /\ page' = NoPage
     /\ row' = [a \in Asset |->
                  IF a \notin here THEN row[a]
                  ELSE [v |-> page.rows[a],
                        trashed |-> row[a].trashed \/ page.kind = "trash"]]
     /\ stale' = (stale \ here) \cup older
     /\ UNCHANGED <<server, late, intents, tap, cursor, lane, left>>

-----------------------------------------------------------------------------
Flush == Served \/ Failed \/ Settle
Sync == (lane # Free /\ GetFeed) \/ ListFeed \/ RemoveRow \/ FetchAsset \/ WriteRow \/ SaveCursor \/ ClearRows

Next ==
  \/ \E k \in Kind, a \in Asset : WebEdit(k, a) \/ Tap(k, a)
  \/ \E l \in unlogged : LogLine(l) \/ LineLost(l)
  \/ Prune \/ Enqueue
  \/ BeginFlush \/ Served \/ Failed \/ Settle
  \/ \E m \in late : LateRequest(m)
  \/ GetFeed \/ ListFeed \/ RemoveRow \/ FetchAsset \/ WriteRow \/ SaveCursor \/ ClearRows
  \/ Abort \/ Crash
  \/ \E k \in {"library", "trash"} : ReadPage(k)
  \/ MirrorPage

\* The root layout drains queue and feed at every start, return to the foreground
\* and reconnection, and the OS wakes the app for it: each half runs again and again.
Fairness ==
  /\ WF_vars(\E l \in unlogged : LogLine(l))
  /\ WF_vars(Flush) /\ WF_vars(Sync) /\ WF_vars(Enqueue)
  /\ SF_vars(BeginFlush) /\ SF_vars(lane = Free /\ GetFeed)

Spec == Init /\ [][Next]_vars /\ Fairness

-----------------------------------------------------------------------------
(* Properties.                                                             *)

\* An edit leaves the queue only when the server has decided it: what is neither
\* queued nor reported as refused was accepted, through lost answers, aborted
\* flushes and crashes between the answer and the removal of the row.
EditsAreSettled ==
  \A i \in 1..(nextID - 1) :
    i \in {queue[k].id : k \in DOMAIN queue} \/ handled[i] = "accepted"
      \/ (i \in rejected /\ handled[i] = "refused")

\* The server meets the edits of a phone in the order they were made: none is
\* handled for the first time after a later one (a repetition may be).
FirstInOrder ==
  \A i, j \in Intent : i < j /\ handled[j] # "no" => handled[i] # "no"

\* Both: what the user did is neither lost nor overtaken on its way.
EditsAreOrderly == EditsAreSettled /\ FirstInOrder

\* The cursor passes no change that the mirror has missed: a row is never older than
\* what the log told of its asset up to the cursor, whatever aborted the catch-up.
\* Excepted are rows that a page read before the catch-up has overwritten since, and
\* rows older than changes that were pruned while the cursor was still zero, or between
\* the two statements of the handler.  Of a change whose line is lost, or not yet
\* written, the log does not tell.
MirrorFollows ==
  \A a \in Asset \ stale : row[a].v # 0 => row[a].v >= Told(a, cursor)

\* What the timeline shows from the mirror when the server is out of reach was not
\* trashed or purged by a change that the cursor has passed.
NoResurrection ==
  \A a \in Asset, k \in 1..cursor :
    log[k] = Line(a, "delete", Told(a, cursor)) /\ row[a].v \in 1..(log[k].v - 1)
      => row[a].trashed

\* Every edit is settled at last, and the mirror catches up when edits have ceased.
QueueDrains == \A i \in Intent : (nextID > i) ~> (\A k \in DOMAIN queue : queue[k].id # i)
CatchesUp == []<>(cursor = Len(log))
Synchronizes == QueueDrains /\ CatchesUp
=============================================================================
