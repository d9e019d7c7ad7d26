---------------------------- MODULE BackupEngine ----------------------------
(***************************************************************************)
(* When the phone backs up, and what a sweep over the camera roll visits:  *)
(* the BackupEngine of mobile/src/lib/backup-engine.ts with the state it   *)
(* keeps in backup-store.ts, and everything that starts or stops a pass:   *)
(* the Backup screen, the foreground effect of app/_layout.tsx, the retry  *)
(* timer, the OS wake of background.ts, a change of the connection.        *)
(*                                                                         *)
(* A page of the camera roll is one item here, items are numbered in the   *)
(* order of their creationTime, and the upload of an item (BackupUpload)   *)
(* succeeds, fails or is left waiting for its receipt.                     *)
(***************************************************************************)
EXTENDS Integers, FiniteSets, Sequences, FiniteSetsExt

CONSTANTS
  MaxItem,      \* how many items the camera roll ever holds
  FirstItems,   \* how many of them it holds at first
  AlbumOf,      \* the album of each item
  Selection,    \* the choices of albums, each a sequence
  Library,      \* libraries the phone may be connected to
  First,        \* the one it is connected to at first
  Nowhere,      \* not connected
  MaxPages,     \* pages of an album in one pass (20 in the code)
  Budget,       \* attempts after which a pass stops between pages (200)
  Broken,       \* items whose upload always fails
  MaxEvent      \* switches, crashes, failed uploads, deadlines, all together

Item == 1..MaxItem
Album == {AlbumOf[i] : i \in Item}

ASSUME BackupEngineAssumption ==
  /\ {MaxItem, FirstItems, MaxEvent} \subseteq Nat /\ {MaxPages, Budget} \subseteq Nat \ {0}
  /\ FirstItems <= MaxItem /\ Broken \subseteq Item /\ First \in Library /\ Nowhere \notin Library
  /\ Selection \subseteq Seq(Album) \ {<<>>}

VARIABLES
  roll,      \* how many items the camera roll holds
  conn,      \* the library the stored connection leads to
  disk,      \* the preferences in AsyncStorage
  history,   \* the scan position stored for each library
  mem,       \* the engine's state in memory, and the library it was loaded for
  pass,      \* the pass that is running, or dying
  retry,     \* allowRetry, moreWork, pending, the retry timer, and timers that lost
             \* their handle to a later one (several are as one)
  active,    \* the app is in the foreground
  due,       \* a foreground pass is due (shouldRunForegroundBackup)
  done,      \* items with a receipt, by library
  visited,   \* items that a library's sweep of some albums has tried or found backed up
  since,     \* how many items there were when that sweep began
  left       \* how many events may still happen

vars == <<roll, conn, disk, history, mem, pass, retry, active, due, done, visited,
          since, left>>
store == <<disk, history>>
sweep == <<done, visited, since>>

\* A scan position: the next album of the selection, and the item in it that was
\* visited last (0 if none was). NoScan is the undefined of the code.
Scan == {s \in [albums: Selection, album: Nat \ {0}, after: 0..MaxItem] :
           s.album <= Len(s.albums) + 1}
NoScan == [albums |-> <<>>, album |-> 0, after |-> 0]
Idle == [at |-> "idle", background |-> FALSE, aborted |-> FALSE, library |-> Nowhere,
         loaded |-> [auto |-> FALSE, albums |-> <<>>, scan |-> NoScan], start |-> NoScan,
         newest |-> FALSE, item |-> 0, album |-> 0, after |-> 0, pages |-> 0, attempts |-> 0]
Calm == [allowed |-> TRUE, more |-> FALSE, pending |-> FALSE, timer |-> FALSE,
         orphan |-> FALSE]

BackupEngineTypeOK ==
  /\ roll \in 0..MaxItem /\ conn \in Library \cup {Nowhere}
  /\ disk \in [auto: BOOLEAN, albums: Selection]
  /\ history \in [Library -> Scan \cup {NoScan}]
  /\ mem \in [auto: BOOLEAN, albums: Selection, scan: Scan \cup {NoScan},
              scope: Library \cup {Nowhere}]
  /\ pass.at \in {"idle", "begin", "load", "use", "newest", "page", "turn", "fetch"}
  /\ pass.item \in 0..MaxItem /\ pass.attempts \in 0..Budget
  /\ retry \in [allowed: BOOLEAN, more: BOOLEAN, pending: BOOLEAN, timer: BOOLEAN,
                orphan: BOOLEAN]
  /\ active \in BOOLEAN /\ due \in BOOLEAN
  /\ done \in [Library -> SUBSET (1..roll)] /\ since \in [Library -> [Selection -> 0..roll]]
  /\ visited \in [Library -> [Selection -> SUBSET (1..roll)]]
  /\ left \in 0..MaxEvent

Init ==
  /\ roll = FirstItems /\ conn = First
  /\ \E s \in Selection : disk = [auto |-> FALSE, albums |-> s]
  /\ history = [l \in Library |-> NoScan]
  /\ mem = [auto |-> disk.auto, albums |-> disk.albums, scan |-> NoScan, scope |-> Nowhere]
  /\ pass = Idle /\ retry = Calm /\ active = TRUE /\ due = TRUE
  /\ done = [l \in Library |-> {}] /\ visited = [l \in Library |-> [s \in Selection |-> {}]]
  /\ since = [l \in Library |-> [s \in Selection |-> FirstItems]]
  /\ left = MaxEvent

Event == left > 0 /\ left' = left - 1

-----------------------------------------------------------------------------
(* Starting and stopping.                                                  *)

\* run(): one pass at a time; who calls it during a pass gets that pass.
Started(p, background) ==
  IF p.at = "idle" THEN [Idle EXCEPT !.at = "begin", !.background = background] ELSE p
Allowed(r, p) == IF p.at = "idle" THEN [r EXCEPT !.allowed = TRUE] ELSE r

Run(background) ==
  pass' = Started(pass, background) /\ retry' = Allowed(retry, pass)

\* stop(): the pass notices at its next await, and the retry is called off, but
\* not a timer whose handle is gone.
Stopped(p) == IF p.at = "idle" THEN p ELSE [p EXCEPT !.aborted = TRUE]
Stop == pass' = Stopped(pass) /\ retry' = [retry EXCEPT !.allowed = FALSE, !.timer = FALSE]

\* persist(): the preferences, and the scan of the library that is loaded.
Persist(m) ==
  /\ disk' = [auto |-> m.auto, albums |-> m.albums]
  /\ history' = IF m.scope = Nowhere THEN history ELSE [history EXCEPT ![m.scope] = m.scan]

\* The switch on the Backup screen.
SetAuto(on) ==
  LET m == [mem EXCEPT !.auto = on] IN
  /\ on # mem.auto /\ Event
  /\ mem' = m
  /\ Persist(m)
  /\ IF on THEN Run(FALSE) ELSE Stop
  /\ UNCHANGED <<roll, conn, active, due, sweep>>

\* The choice of albums stops the pass, waits for its end and forgets the scan.
SetAlbums(s) ==
  LET m == [mem EXCEPT !.albums = s, !.scan = NoScan] IN
  /\ s # mem.albums /\ pass.at = "idle" /\ Event
  /\ mem' = m
  /\ Persist(m)
  /\ IF mem.auto
     THEN pass' = Started(pass, FALSE) /\ retry' = [Allowed(retry, pass) EXCEPT !.timer = FALSE]
     ELSE Stop
  /\ UNCHANGED <<roll, conn, active, due, sweep>>

\* "Back up now", the button of the free-up-space screen, and the switch for
\* Wi-Fi only, which waits for the end of the pass it may have stopped (Abort).
BackUpNow ==
  /\ active /\ pass.at = "idle" /\ Event
  /\ Run(FALSE)
  /\ UNCHANGED <<roll, conn, store, mem, active, due, sweep>>

\* The foreground effect: at most one pass a minute, if the switch is on.
Foreground ==
  IF mem.auto /\ due THEN due' = FALSE /\ Run(FALSE) ELSE UNCHANGED <<due, pass, retry>>

Minute ==
  /\ ~due /\ due' = TRUE
  /\ UNCHANGED <<roll, conn, store, mem, pass, retry, active, sweep, left>>

\* The app leaves the foreground, or comes back.
Leave ==
  /\ active /\ Event
  /\ active' = FALSE
  /\ UNCHANGED <<roll, conn, store, mem, pass, retry, due, sweep>>

Return ==
  /\ ~active /\ active' = TRUE
  /\ Foreground
  /\ UNCHANGED <<roll, conn, store, mem, sweep, left>>

\* The network is allowed again.
Reconnected ==
  /\ active /\ mem.auto /\ Event
  /\ due' = FALSE
  /\ Run(FALSE)
  /\ UNCHANGED <<roll, conn, store, mem, active, sweep>>

\* The connection changes: the engine's listener stops the pass and lets go of
\* the library; the effect of the layout then runs a pass for the new one.
Switch(l) ==
  /\ l # conn /\ Event
  /\ conn' = l
  /\ mem' = [mem EXCEPT !.scope = Nowhere]
  /\ LET p == Stopped(pass)
         r == [retry EXCEPT !.allowed = FALSE, !.timer = FALSE, !.pending = FALSE]
     IN IF mem.auto /\ active
        THEN /\ due' = FALSE
             /\ pass' = Started(p, FALSE) /\ retry' = Allowed(r, p)
        ELSE due' = TRUE /\ pass' = p /\ retry' = r
  /\ UNCHANGED <<roll, store, active, sweep>>

\* A retry timer of an earlier pass. It clears the handle, also that of a later one.
RetryFires ==
  /\ retry.orphan \/ retry.timer
  /\ LET r == [retry EXCEPT !.timer = FALSE, !.orphan = @ /\ retry.timer]
     IN IF active
        THEN pass' = Started(pass, FALSE) /\ retry' = Allowed(r, pass)
        ELSE retry' = r /\ UNCHANGED pass
  /\ UNCHANGED <<roll, conn, store, mem, active, due, sweep, left>>

\* The OS wakes the app for its registered task, also while it is open.
BackgroundWake ==
  /\ mem.auto /\ pass.at = "idle"
  /\ Run(TRUE)
  /\ UNCHANGED <<roll, conn, store, mem, active, due, sweep, left>>

\* A deadline, the network gate or the expiration of the wake aborts the pass.
Abort ==
  /\ pass.at # "idle" /\ ~pass.aborted /\ Event
  /\ pass' = Stopped(pass)
  /\ \E allowed \in {retry.allowed, FALSE} : retry' = [retry EXCEPT !.allowed = allowed]
  /\ UNCHANGED <<roll, conn, store, mem, active, due, sweep>>

\* The process ends, perhaps between the two writes of setAlbums, with the albums
\* stored and not the scan; what it starts with again is on the disk.
Crash(albums) ==
  /\ Event
  /\ albums = disk.albums \/ pass.at = "idle"
  /\ disk' = [disk EXCEPT !.albums = albums]
  /\ mem' = [auto |-> disk.auto, albums |-> albums, scan |-> NoScan, scope |-> Nowhere]
  /\ pass' = Idle /\ retry' = Calm /\ due' = TRUE
  /\ UNCHANGED <<roll, conn, history, active, sweep>>

\* A photo is taken.
TakePhoto ==
  /\ roll < MaxItem
  /\ roll' = roll + 1
  /\ UNCHANGED <<conn, store, mem, pass, retry, active, due, sweep, left>>

-----------------------------------------------------------------------------
(* A pass.                                                                 *)

\* The end of a pass, and the timer it leaves in the foreground, in the place of one
\* that still runs.
Ended(r) ==
  LET again == r.allowed /\ (r.more \/ r.pending) /\ ~pass.background /\ active IN
  /\ pass' = Idle
  /\ retry' = [r EXCEPT !.timer = @ \/ again, !.orphan = @ \/ (r.timer /\ again)]

Dying ==
  /\ pass.at # "idle" /\ pass.aborted
  /\ Ended(retry)
  /\ UNCHANGED <<roll, conn, store, mem, active, due, sweep, left>>

Going(step) == pass.at = step /\ ~pass.aborted

\* runPass up to the settings.
Begin ==
  /\ Going("begin")
  /\ IF conn = Nowhere \/ (pass.background /\ ~mem.auto) THEN Ended(retry)
     ELSE /\ pass' = [pass EXCEPT !.at = IF mem.scope = conn THEN "newest" ELSE "load",
                                  !.library = conn]
          /\ UNCHANGED retry
  /\ UNCHANGED <<roll, conn, store, mem, active, due, sweep, left>>

\* useLibrary reads the state of the library ...
Load ==
  /\ Going("load")
  /\ pass' = [pass EXCEPT !.at = "use",
                          !.loaded = [auto |-> disk.auto, albums |-> disk.albums,
                                      scan |-> history[pass.library]]]
  /\ UNCHANGED <<roll, conn, store, mem, retry, active, due, sweep, left>>

\* ... and some awaits later puts it in the place of the engine's own.
UseLibrary ==
  /\ Going("use")
  /\ mem' = [auto |-> pass.loaded.auto, albums |-> pass.loaded.albums,
             scan |-> pass.loaded.scan, scope |-> pass.library]
  /\ pass' = [pass EXCEPT !.at = "newest"]
  /\ UNCHANGED <<roll, conn, store, retry, active, due, sweep, left>>

\* Photo access or the network is refused: what an earlier pass left to do stays.
Refused ==
  /\ Going("newest") /\ Event
  /\ Ended(retry)
  /\ UNCHANGED <<roll, conn, store, mem, active, due, sweep>>

\* The page of an album after an item (0: its first page), and what follows it.
PageOf(album, after) ==
  LET rest == {i \in 1..roll : AlbumOf[i] = album /\ (after = 0 \/ i < after)} IN
  IF rest = {} THEN 0 ELSE Max(rest)
HasNext(album, item) == \E i \in 1..roll : AlbumOf[i] = album /\ i < item

\* Whether the saved scan position is one of the albums chosen now.
Saved == mem.scan.albums = mem.albums

\* The attempts of the pass are used up.
SpentLate == pass.attempts > Budget   \* (a mutant of Spent)
Spent == pass.attempts >= Budget

\* assetPages: always the newest page first, then the saved sweep goes on.
Newest ==
  LET item == PageOf(mem.albums[1], 0)
      start == IF Saved THEN mem.scan
               ELSE IF item # 0 /\ HasNext(mem.albums[1], item)
               THEN [albums |-> mem.albums, album |-> 1, after |-> item] ELSE NoScan
  IN /\ Going("newest")
     /\ pass' = [pass EXCEPT !.at = "page", !.newest = TRUE, !.item = item,
                             !.start = start]
     /\ retry' = [retry EXCEPT !.pending = FALSE, !.more = FALSE]
     /\ IF Saved THEN UNCHANGED <<visited, since>>
        ELSE /\ visited' = [visited EXCEPT ![pass.library][mem.albums] = {}]
             /\ since' = [since EXCEPT ![pass.library][mem.albums] = roll]
     /\ UNCHANGED <<roll, conn, store, mem, active, due, done, left>>

\* The page is worked off, unless the budget was used up before it; what came of an
\* attempt is stored with the rest of the engine's state.
Page ==
  LET l == pass.library
      i == pass.item
      seen == visited' = [visited EXCEPT ![l][mem.albums] = @ \cup ({i} \ {0})]
  IN /\ Going("page")
     /\ \/ /\ Spent
           /\ Ended([retry EXCEPT !.more = TRUE])
           /\ UNCHANGED <<store, done, visited, left>>
        \/ /\ ~Spent /\ (i = 0 \/ i \in done[l])
           /\ pass' = [pass EXCEPT !.at = "turn"]
           /\ seen /\ UNCHANGED <<store, retry, done, left>>
        \/ /\ ~Spent /\ i # 0 /\ i \notin done[l]
           /\ pass' = [pass EXCEPT !.at = "turn", !.attempts = @ + 1]
           /\ seen /\ Persist(mem)
           /\ \/ i \notin Broken /\ done' = [done EXCEPT ![l] = @ \cup {i}]
                 /\ UNCHANGED <<retry, left>>
              \/ i \in Broken /\ UNCHANGED <<retry, done, left>>
              \/ Event /\ UNCHANGED <<retry, done>>
              \/ Event /\ retry' = [retry EXCEPT !.pending = TRUE] /\ UNCHANGED done
     /\ UNCHANGED <<roll, conn, mem, active, due, since>>

\* The position of a page, once the page is consumed; the mutant saves the one of
\* the page that comes after it.
PositionAhead(album, after) ==
  [albums |-> mem.albums, album |-> album,
   after |-> IF after = 0 THEN 0 ELSE PageOf(mem.albums[album], after)]
Position(album, after) == [albums |-> mem.albums, album |-> album, after |-> after]
Albums == Len(mem.albums)

\* The generator goes on with the next page, or ends the sweep.
Goto(album, after, pages) ==
  pass' = [pass EXCEPT !.at = "fetch", !.album = album, !.after = after, !.pages = pages,
                       !.newest = FALSE]

\* Where the sweep goes on (a mutant: every pass begins it again).
FirstPlace == [album |-> 1, after |-> 0]
PlaceRestarted == FirstPlace
Place == IF pass.start = NoScan THEN FirstPlace
         ELSE [album |-> pass.start.album, after |-> pass.start.after]

\* After the newest page: where the sweep starts.
AfterNewest ==
  LET skip == Place = FirstPlace /\ ~HasNext(mem.albums[1], pass.item)
  IN /\ Going("turn") /\ pass.newest
     /\ IF skip THEN Goto(2, 0, 0) ELSE Goto(Place.album, Place.after, 0)
     /\ UNCHANGED <<roll, conn, store, mem, retry, active, due, sweep, left>>

Fetch ==
  /\ Going("fetch") /\ pass.album <= Albums
  /\ pass' = [pass EXCEPT !.at = "page", !.item = PageOf(mem.albums[pass.album], pass.after)]
  /\ UNCHANGED <<roll, conn, store, mem, retry, active, due, sweep, left>>

\* A page has been consumed: only now its position is saved.
AfterPage ==
  LET next == pass.item # 0 /\ HasNext(mem.albums[pass.album], pass.item)
      m == [mem EXCEPT !.scan = IF next THEN Position(pass.album, pass.item)
                                ELSE Position(pass.album + 1, 0)]
  IN /\ Going("turn") /\ ~pass.newest
     /\ mem' = m
     /\ Persist(m)
     /\ IF ~next THEN Goto(pass.album + 1, 0, 0) /\ UNCHANGED retry
        ELSE IF pass.pages + 1 < MaxPages
        THEN Goto(pass.album, pass.item, pass.pages + 1) /\ UNCHANGED retry
        ELSE Ended([retry EXCEPT !.more = TRUE])
     /\ UNCHANGED <<roll, conn, active, due, sweep, left>>

\* The last album is through.
SweepEnds ==
  LET m == [mem EXCEPT !.scan = NoScan] IN
  /\ Going("fetch") /\ pass.album > Albums
  /\ mem' = m
  /\ Persist(m)
  /\ Ended(retry)
  /\ UNCHANGED <<roll, conn, active, due, sweep, left>>

-----------------------------------------------------------------------------
Step ==
  \/ Dying \/ Begin \/ Load \/ UseLibrary \/ Newest \/ Page \/ AfterNewest \/ Fetch
  \/ AfterPage \/ SweepEnds

Next ==
  \/ \E on \in BOOLEAN : SetAuto(on)
  \/ \E s \in Selection : SetAlbums(s) \/ Crash(s)
  \/ \E l \in Library \cup {Nowhere} : Switch(l)
  \/ BackUpNow \/ Minute \/ Leave \/ Return \/ Reconnected \/ Refused
  \/ RetryFires \/ BackgroundWake \/ Abort
  \/ TakePhoto
  \/ Dying \/ Begin \/ Load \/ UseLibrary \/ Newest \/ Page \/ AfterNewest \/ Fetch
  \/ AfterPage \/ SweepEnds

\* A pass goes on while the process lives, the timer fires, and the OS wakes an
\* app whose task is registered.
Fairness == WF_vars(Step) /\ WF_vars(RetryFires) /\ WF_vars(BackgroundWake)

Spec == Init /\ [][Next]_vars /\ Fairness

-----------------------------------------------------------------------------
(* Properties.                                                             *)

\* A saved scan position skips nothing. Every item that was there when the sweep
\* began, in an album before the position or not older than it in the album of
\* the position, has been visited by that sweep, whatever passes it took, whatever
\* stopped them and whichever library was in use in between; a pass that is about
\* to close the sweep has visited every item of every album.
Passed(s, album, after) ==
  {i \in 1..roll : \E k \in DOMAIN s :
     AlbumOf[i] = s[k] /\ (k < album \/ (k = album /\ after # 0 /\ i >= after))}
SweepCoversRoll ==
  /\ \A l \in Library : LET h == history[l] IN h # NoScan =>
       Passed(h.albums, h.album, h.after) \cap (1..since[l][h.albums])
         \subseteq visited[l][h.albums]
  /\ Going("fetch") /\ pass.album > Albums =>
       Passed(mem.albums, pass.album, 0) \cap (1..since[pass.library][mem.albums])
         \subseteq visited[pass.library][mem.albums]

\* A pass works for the library it began with: while it is not told to stop, the
\* engine's state is that library's and so is the connection.
PassKeepsLibrary ==
  pass.at \in {"newest", "page", "turn", "fetch"} /\ ~pass.aborted =>
    pass.library = conn /\ mem.scope = conn

\* Both: a sweep that several passes share, of several libraries, stays whole.
SweepIsSound == SweepCoversRoll /\ PassKeepsLibrary

\* With the switch on, the phone connected and the OS waking the app, every item of
\* the chosen albums gets its receipt, though other items fail in every pass, use
\* up the budget each time, and newer ones keep arriving at the front.
Wanted(i, l) == mem.auto /\ conn = l /\ \E k \in DOMAIN mem.albums : mem.albums[k] = AlbumOf[i]
CatchesUp ==
  \A i \in Item \ Broken, l \in Library :
    <>[](i <= roll /\ Wanted(i, l)) => <>(i \in done[l])
=============================================================================
