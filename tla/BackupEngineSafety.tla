------------------------- MODULE BackupEngineSafety -------------------------
(***************************************************************************)
(* Proofs about BackupEngine, for any camera roll, any choices of albums,  *)
(* any libraries and any budget: a sweep that many passes share skips no   *)
(* item, and a pass works for one library.                                 *)
(***************************************************************************)
EXTENDS BackupEngine, WellFoundedInduction, TLAPS

-----------------------------------------------------------------------------
(* The inductive invariant.                                                *)

ScanOrNone == Scan \cup {NoScan}

PassState ==
  [at: {"idle", "begin", "load", "use", "newest", "page", "turn", "fetch"},
   background: BOOLEAN, aborted: BOOLEAN, library: Library \cup {Nowhere},
   loaded: [auto: BOOLEAN, albums: Selection \cup {<<>>}, scan: ScanOrNone],
   start: ScanOrNone, newest: BOOLEAN, item: 0..MaxItem, album: Nat, after: 0..MaxItem,
   pages: Nat, attempts: 0..Budget]

Memory == [auto: BOOLEAN, albums: Selection, scan: ScanOrNone, scope: Library \cup {Nowhere}]
Retry ==
  [allowed: BOOLEAN, more: BOOLEAN, pending: BOOLEAN, timer: BOOLEAN, orphan: BOOLEAN]

EngineTypes ==
  /\ conn \in Library \cup {Nowhere}
  /\ disk \in [auto: BOOLEAN, albums: Selection]
  /\ history \in [Library -> ScanOrNone]
  /\ mem \in Memory /\ pass \in PassState /\ retry \in Retry
  /\ active \in BOOLEAN /\ due \in BOOLEAN
  /\ left \in 0..MaxEvent

SweepTypes ==
  /\ roll \in 0..MaxItem
  /\ done \in [Library -> SUBSET (1..roll)]
  /\ since \in [Library -> [Selection -> 0..roll]]
  /\ visited \in [Library -> [Selection -> SUBSET (1..roll)]]

\* The engine's state is the stored one of the library it was loaded for.
MemoryOK ==
  /\ mem.albums = disk.albums
  /\ mem.scope # Nowhere => history[mem.scope] = mem.scan

\* A pass and its library.
PassOK ==
  ~pass.aborted =>
    /\ pass.at \notin {"idle", "begin"} => pass.library = conn /\ conn \in Library
    /\ pass.at \in {"load", "use"} => mem.scope # conn
    /\ pass.at = "use" =>
         pass.loaded.albums = mem.albums /\ pass.loaded.scan = history[conn]
    /\ pass.at \in {"newest", "page", "turn", "fetch"} => mem.scope = conn

\* The items behind a position that were there when the sweep began.
Behind(l, s, album, after) ==
  {i \in 1..since[l][s] : \E k \in DOMAIN s :
     AlbumOf[i] = s[k] /\ (k < album \/ (k = album /\ after # 0 /\ i >= after))}

\* No older item of an album comes before this one, in the order of the sweep.
NextIs(l, s, album, after, item) ==
  \A i \in 1..since[l][s] : AlbumOf[i] = s[album] /\ (after = 0 \/ i < after) => i <= item

\* The newest page, and where the sweep goes on after it.
NewestOK ==
  LET l == pass.library
      s == mem.albums
  IN pass.at \in {"page", "turn"} /\ pass.newest =>
       /\ NextIs(l, s, 1, 0, pass.item)
       /\ pass.start # NoScan =>
            /\ pass.start.albums = s
            /\ Behind(l, s, pass.start.album, pass.start.after)
                 \subseteq visited[l][s] \cup {pass.item}

\* A page of the sweep.
PageOK ==
  LET l == pass.library
      s == mem.albums
  IN pass.at \in {"page", "turn", "fetch"} /\ ~pass.newest =>
       /\ pass.album \in 1..(Len(s) + 1)
       /\ Behind(l, s, pass.album, pass.after) \subseteq visited[l][s]
       /\ pass.at # "fetch" =>
            pass.album <= Len(s) /\ NextIs(l, s, pass.album, pass.after, pass.item)

SweepOK ==
  ~pass.aborted =>
    /\ NewestOK /\ PageOK
    /\ pass.at = "fetch" => ~pass.newest
    /\ pass.at = "turn" /\ pass.item # 0 => pass.item \in visited[pass.library][mem.albums]
    /\ pass.at \in {"page", "turn"} => pass.item <= roll

HistoryOK ==
  \A l \in Library : \A h \in {history[l]} \ {NoScan} :
    Behind(l, h.albums, h.album, h.after) \subseteq visited[l][h.albums]

Sound == EngineTypes /\ SweepTypes /\ MemoryOK /\ PassOK /\ SweepOK /\ HistoryOK

-----------------------------------------------------------------------------
(* Facts the steps rest on.                                                *)

LEMMA MaxExists ==
  ASSUME NEW n \in Nat, NEW S \in SUBSET (0..n), S # {}
  PROVE  Max(S) \in S /\ \A y \in S : y <= Max(S)
  <1> DEFINE T == {n - x : x \in S}
  <1>1. T \subseteq Nat /\ T # {}
    <2>1. \A x \in S : n - x \in Nat
      OBVIOUS
    <2> QED BY <2>1
  <1>2. IsWellFoundedOn(OpToRel(<,Nat), Nat)
    BY NatLessThanWellFounded
  <1>3. PICK t \in T : \A u \in T : ~(<<u, t>> \in OpToRel(<,Nat))
    BY <1>1, <1>2, WFMin
  <1>4. \A u \in T : ~(u < t)
    BY <1>1, <1>3 DEF OpToRel
  <1>5. PICK x \in S : t = n - x
    BY <1>3
  <1>6. \A y \in S : y <= x
    <2> SUFFICES ASSUME NEW y \in S PROVE y <= x
      OBVIOUS
    <2>1. ~(n - y < n - x)
      BY <1>4, <1>5
    <2> QED BY <2>1
  <1> QED BY <1>6 DEF Max

\* The page after a position, and that nothing comes between.
LEMMA PageIs ==
  ASSUME roll \in Nat, NEW album, NEW after \in Nat
  PROVE  /\ PageOf(album, after) \in 0..roll
         /\ PageOf(album, after) # 0 =>
              /\ AlbumOf[PageOf(album, after)] = album
              /\ after = 0 \/ PageOf(album, after) < after
         /\ \A i \in 1..roll : AlbumOf[i] = album /\ (after = 0 \/ i < after) =>
              i <= PageOf(album, after)
  <1> DEFINE rest == {i \in 1..roll : AlbumOf[i] = album /\ (after = 0 \/ i < after)}
  <1>1. CASE rest = {}
    <2>1. PageOf(album, after) = 0
      BY <1>1 DEF PageOf
    <2> QED BY <1>1, <2>1
  <1>2. CASE rest # {}
    <2>1. PageOf(album, after) = Max(rest)
      BY <1>2 DEF PageOf
    <2>2. Max(rest) \in rest /\ \A y \in rest : y <= Max(rest)
      <3>1. rest \in SUBSET (0..roll)
        OBVIOUS
      <3> QED BY <1>2, <3>1, MaxExists
    <2> QED BY <2>1, <2>2
  <1> QED BY <1>1, <1>2

LEMMA IdleIs ==
  /\ Idle \in PassState /\ Idle.at = "idle" /\ Calm \in Retry
  /\ \A b \in BOOLEAN : LET p == [Idle EXCEPT !.at = "begin", !.background = b] IN
       p \in PassState /\ p.at = "begin"
  <1>1. 0 \in 0..MaxItem /\ 0 \in 0..Budget /\ NoScan \in ScanOrNone
    BY BackupEngineAssumption DEF ScanOrNone
  <1>2. Idle \in PassState
    BY <1>1 DEF Idle, PassState
  <1> QED BY <1>2 DEF Idle, PassState, Calm, Retry

\* A pass that works for no library, or does not go on.
Quiet(p) == p.aborted \/ p.at \in {"idle", "begin"}

LEMMA StartsAndStops ==
  ASSUME NEW p \in PassState, NEW b \in BOOLEAN
  PROVE  /\ Started(p, b) \in PassState /\ (Started(p, b) = p \/ Quiet(Started(p, b)))
         /\ Stopped(p) \in PassState /\ Quiet(Stopped(p))
         /\ Started(Stopped(p), b) \in PassState /\ Quiet(Started(Stopped(p), b))
  <1>1. /\ [p EXCEPT !.aborted = TRUE] \in PassState
        /\ [p EXCEPT !.aborted = TRUE].aborted
    BY DEF PassState
  <1>2. Stopped(p) \in PassState /\ Quiet(Stopped(p))
    BY <1>1 DEF Stopped, Quiet
  <1> QED BY <1>2, IdleIs DEF Started, Quiet

LEMMA AllowedType ==
  ASSUME NEW r \in Retry, NEW p
  PROVE  Allowed(r, p) \in Retry
  BY DEF Allowed, Retry

LEMMA EventType ==
  ASSUME EngineTypes, Event
  PROVE  left' \in 0..MaxEvent
  BY BackupEngineAssumption DEF EngineTypes, Event

LEMMA EndedType ==
  ASSUME EngineTypes, NEW r \in Retry, Ended(r)
  PROVE  pass' = Idle /\ pass' \in PassState /\ Quiet(pass') /\ retry' \in Retry
  <1>1. \A q, o \in BOOLEAN : [r EXCEPT !.timer = q, !.orphan = o] \in Retry
    BY DEF Retry
  <1>2. LET again == r.allowed /\ (r.more \/ r.pending) /\ ~pass.background /\ active
        IN (r.timer \/ again) \in BOOLEAN /\ (r.orphan \/ (r.timer /\ again)) \in BOOLEAN
    BY DEF Retry
  <1> QED BY <1>1, <1>2, IdleIs DEF Ended, Quiet

\* What is kept in the store is kept as it is.
LEMMA PersistSame ==
  ASSUME EngineTypes, MemoryOK, NEW m \in Memory, Persist(m),
         m.albums = mem.albums, m.scan = mem.scan, m.scope = mem.scope
  PROVE  /\ history' = history /\ disk'.albums = disk.albums
         /\ disk' \in [auto: BOOLEAN, albums: Selection]
  <1>1. disk' = [auto |-> m.auto, albums |-> m.albums]
    BY DEF Persist
  <1>2. history' = history
    BY DEF Persist, EngineTypes, MemoryOK, Memory
  <1> QED BY <1>1, <1>2 DEF Memory, MemoryOK, EngineTypes

\* What is stored of another position than a library's own is stored for it.
LEMMA PersistNew ==
  ASSUME EngineTypes, NEW m \in Memory, Persist(m)
  PROVE  /\ disk' \in [auto: BOOLEAN, albums: Selection] /\ disk'.albums = m.albums
         /\ history' \in [Library -> ScanOrNone]
         /\ \A l \in Library : history'[l] = IF l = m.scope THEN m.scan ELSE history[l]
         /\ m.scope # Nowhere => history'[m.scope] = m.scan
  <1>1. disk' = [auto |-> m.auto, albums |-> m.albums]
    BY DEF Persist
  <1>2. /\ history' \in [Library -> ScanOrNone]
        /\ \A l \in Library : history'[l] = IF l = m.scope THEN m.scan ELSE history[l]
    BY BackupEngineAssumption DEF Persist, EngineTypes, Memory
  <1>3. m.scope # Nowhere => m.scope \in Library
    BY DEF Memory
  <1> QED BY <1>1, <1>2, <1>3 DEF Memory

LEMMA QuietOK ==
  ASSUME Quiet(pass')
  PROVE  PassOK' /\ SweepOK'
  BY DEF Quiet, PassOK, SweepOK, NewestOK, PageOK

\* A step that no sweep notices.
LEMMA Steady ==
  ASSUME Sound, EngineTypes', UNCHANGED <<roll, sweep, history, conn>>,
         mem'.albums = mem.albums, mem'.scan = mem.scan, mem'.scope = mem.scope,
         disk'.albums = disk.albums, pass' = pass \/ Quiet(pass')
  PROVE  Sound'
  <1>1. SweepTypes' /\ MemoryOK' /\ HistoryOK'
    BY DEF Sound, SweepTypes, MemoryOK, HistoryOK, Behind, sweep
  <1>2. CASE pass' = pass
    <2>1. PassOK'
      BY <1>2 DEF Sound, PassOK
    <2>2. (NewestOK' /\ PageOK') \/ pass.aborted
      BY <1>2 DEF Sound, SweepOK, NewestOK, PageOK, NextIs, Behind, sweep
    <2>3. SweepOK'
      BY <1>2, <2>2 DEF Sound, SweepOK, sweep
    <2> QED BY <1>1, <2>1, <2>3 DEF Sound
  <1>3. CASE Quiet(pass')
    BY <1>1, <1>3, QuietOK DEF Sound
  <1> QED BY <1>2, <1>3

-----------------------------------------------------------------------------
(* Starting and stopping.                                                  *)

LEMMA OutsideKeeps ==
  ASSUME Sound,
         \/ BackUpNow \/ Minute \/ Leave \/ Return \/ Reconnected \/ Refused
         \/ RetryFires \/ BackgroundWake \/ Abort \/ Dying
  PROVE  Sound'
  <1>1. UNCHANGED <<roll, sweep, disk, history, conn, mem>>
    BY DEF BackUpNow, Minute, Leave, Return, Reconnected, Refused, RetryFires,
           BackgroundWake, Abort, Dying, store
  <1>2. EngineTypes /\ pass \in PassState /\ retry \in Retry
    BY DEF Sound, EngineTypes
  <1>3. active' \in BOOLEAN /\ due' \in BOOLEAN /\ left' \in 0..MaxEvent
    BY <1>2, EventType
       DEF BackUpNow, Minute, Leave, Return, Foreground, Reconnected, Refused, RetryFires,
           BackgroundWake, Abort, Dying, EngineTypes
  <1>4. pass' \in PassState /\ (pass' = pass \/ Quiet(pass'))
    <2>1. ASSUME NEW b \in BOOLEAN, pass' = Started(pass, b)
          PROVE  pass' \in PassState /\ (pass' = pass \/ Quiet(pass'))
      BY <1>2, <2>1, StartsAndStops
    <2>2. ASSUME Ended(retry)
          PROVE  pass' \in PassState /\ Quiet(pass')
      BY <1>2, <2>2, EndedType
    <2>3. ASSUME pass' = Stopped(pass)
          PROVE  pass' \in PassState /\ Quiet(pass')
      BY <1>2, <2>3, StartsAndStops
    <2> QED
      BY <1>2, <2>1, <2>2, <2>3
         DEF BackUpNow, Minute, Leave, Return, Foreground, Reconnected, Refused, RetryFires,
             BackgroundWake, Abort, Dying, Run
  <1>5. retry' \in Retry
    <2>1. Allowed(retry, pass) \in Retry
      BY <1>2, AllowedType
    <2>2. \A r \in Retry, b \in BOOLEAN : [r EXCEPT !.allowed = b] \in Retry
      BY DEF Retry
    <2>3. ASSUME Ended(retry) PROVE retry' \in Retry
      BY <1>2, <2>3, EndedType
    <2>4. retry.allowed \in BOOLEAN /\ (retry.orphan /\ retry.timer) \in BOOLEAN
      BY <1>2 DEF Retry
    <2>5. PICK q \in Retry :
            q = [retry EXCEPT !.timer = FALSE, !.orphan = @ /\ retry.timer]
      BY <1>2, <2>4 DEF Retry
    <2>6. RetryFires => retry' = q \/ retry' = Allowed(q, pass)
      BY <2>5 DEF RetryFires
    <2>7. RetryFires => retry' \in Retry
      BY <2>5, <2>6, AllowedType
    <2> QED
      BY <1>2, <2>1, <2>2, <2>3, <2>4, <2>7
         DEF BackUpNow, Minute, Leave, Return, Foreground, Reconnected, Refused, RetryFires,
             BackgroundWake, Abort, Dying, Run
  <1>6. EngineTypes'
    BY <1>1, <1>2, <1>3, <1>4, <1>5 DEF EngineTypes
  <1> QED BY <1>1, <1>4, <1>6, Steady

LEMMA StopIs ==
  ASSUME EngineTypes, Stop
  PROVE  pass' \in PassState /\ Quiet(pass') /\ retry' \in Retry
  <1>1. [retry EXCEPT !.allowed = FALSE, !.timer = FALSE] \in Retry
    BY DEF EngineTypes, Retry
  <1> QED BY <1>1, StartsAndStops DEF EngineTypes, Stop

LEMMA SetAutoKeeps ==
  ASSUME Sound, NEW on \in BOOLEAN, SetAuto(on)
  PROVE  Sound'
  <1>1. EngineTypes /\ MemoryOK /\ pass \in PassState /\ retry \in Retry /\ mem \in Memory
    BY DEF Sound, EngineTypes
  <1>2. PICK m \in Memory : /\ m = [mem EXCEPT !.auto = on] /\ m.albums = mem.albums
                            /\ m.scan = mem.scan /\ m.scope = mem.scope
    <2>1. [mem EXCEPT !.auto = on] \in Memory
      BY <1>1 DEF Memory
    <2> QED BY <1>1, <2>1 DEF Memory
  <1>3. mem' = m /\ Persist(m) /\ Event /\ UNCHANGED <<roll, conn, active, due, sweep>>
    BY <1>2 DEF SetAuto
  <1>4. /\ history' = history /\ disk'.albums = disk.albums
        /\ disk' \in [auto: BOOLEAN, albums: Selection]
    BY <1>1, <1>2, <1>3, PersistSame
  <1>5. pass' \in PassState /\ (pass' = pass \/ Quiet(pass')) /\ retry' \in Retry
    BY <1>1, StartsAndStops, AllowedType, StopIs DEF SetAuto, Run
  <1>6. EngineTypes'
    BY <1>1, <1>3, <1>4, <1>5, EventType DEF EngineTypes
  <1> QED BY <1>2, <1>3, <1>4, <1>5, <1>6, Steady

LEMMA SetAlbumsKeeps ==
  ASSUME Sound, NEW s \in Selection, SetAlbums(s)
  PROVE  Sound'
  <1>1. EngineTypes /\ MemoryOK /\ pass \in PassState /\ retry \in Retry /\ mem \in Memory
    BY DEF Sound, EngineTypes
  <1>2. PICK m \in Memory : /\ m = [mem EXCEPT !.albums = s, !.scan = NoScan]
                            /\ m.albums = s /\ m.scan = NoScan /\ m.scope = mem.scope
    <2>1. [mem EXCEPT !.albums = s, !.scan = NoScan] \in Memory
      BY <1>1 DEF Memory, ScanOrNone
    <2> QED BY <1>1, <2>1 DEF Memory
  <1>3. mem' = m /\ Persist(m) /\ Event /\ UNCHANGED <<roll, conn, active, due, sweep>>
        /\ pass.at = "idle"
    BY <1>2 DEF SetAlbums
  <1>4. pass' \in PassState /\ Quiet(pass') /\ retry' \in Retry
    <2>1. [Allowed(retry, pass) EXCEPT !.timer = FALSE] \in Retry
      BY <1>1, AllowedType DEF Retry
    <2>2. \A p \in {Started(pass, FALSE)} : p \in PassState /\ Quiet(p)
      BY <1>1, <1>3, IdleIs DEF Started, Quiet
    <2> QED BY <1>1, <2>1, <2>2, StopIs DEF SetAlbums
  <1>5. EngineTypes' /\ MemoryOK'
    BY <1>1, <1>2, <1>3, <1>4, EventType, PersistNew DEF EngineTypes, MemoryOK
  <1>6. HistoryOK'
    <2>1. \A l \in Library : history'[l] = NoScan \/ history'[l] = history[l]
      BY <1>1, <1>2, <1>3, PersistNew
    <2>2. UNCHANGED <<visited, since>>
      BY <1>3 DEF sweep
    <2> QED BY <2>1, <2>2 DEF Sound, HistoryOK, Behind
  <1>7. SweepTypes'
    BY <1>3 DEF Sound, SweepTypes, sweep
  <1> QED BY <1>4, <1>5, <1>6, <1>7, QuietOK DEF Sound

LEMMA SwitchKeeps ==
  ASSUME Sound, NEW l \in Library \cup {Nowhere}, Switch(l)
  PROVE  Sound'
  <1>1. EngineTypes /\ MemoryOK /\ pass \in PassState /\ retry \in Retry /\ mem \in Memory
    BY DEF Sound, EngineTypes
  <1>2. /\ Event /\ conn' = l /\ mem' = [mem EXCEPT !.scope = Nowhere]
        /\ UNCHANGED <<roll, disk, history, active, sweep>>
    BY DEF Switch, store
  <1>3. mem' \in Memory /\ mem'.albums = mem.albums /\ mem'.scope = Nowhere
    BY <1>1, <1>2 DEF Memory
  <1>4. pass' \in PassState /\ Quiet(pass') /\ retry' \in Retry /\ due' \in BOOLEAN
    <2>1. PICK r \in Retry :
            r = [retry EXCEPT !.allowed = FALSE, !.timer = FALSE, !.pending = FALSE]
      BY <1>1 DEF Retry
    <2>2. Allowed(r, Stopped(pass)) \in Retry
      BY AllowedType
    <2> QED BY <1>1, <2>1, <2>2, StartsAndStops DEF Switch
  <1>5. EngineTypes' /\ MemoryOK'
    BY <1>1, <1>2, <1>3, <1>4, EventType DEF EngineTypes, MemoryOK
  <1>6. SweepTypes' /\ HistoryOK'
    BY <1>2 DEF Sound, SweepTypes, HistoryOK, Behind, sweep
  <1> QED BY <1>4, <1>5, <1>6, QuietOK DEF Sound

LEMMA CrashKeeps ==
  ASSUME Sound, NEW s \in Selection, Crash(s)
  PROVE  Sound'
  <1>1. /\ Event /\ pass' = Idle /\ retry' = Calm /\ due' = TRUE
        /\ disk' = [disk EXCEPT !.albums = s]
        /\ mem' = [auto |-> disk.auto, albums |-> s, scan |-> NoScan, scope |-> Nowhere]
        /\ UNCHANGED <<roll, conn, history, active, sweep>>
    BY DEF Crash
  <1>2. /\ mem' \in Memory /\ mem'.albums = s /\ mem'.scope = Nowhere
        /\ disk' \in [auto: BOOLEAN, albums: Selection] /\ disk'.albums = s
    BY <1>1 DEF Sound, EngineTypes, Memory, ScanOrNone
  <1>3. EngineTypes' /\ MemoryOK' /\ Quiet(pass')
    BY <1>1, <1>2, EventType, IdleIs DEF Sound, EngineTypes, MemoryOK, Quiet
  <1>4. SweepTypes' /\ HistoryOK'
    BY <1>1 DEF Sound, SweepTypes, HistoryOK, Behind, sweep
  <1> QED BY <1>3, <1>4, QuietOK DEF Sound

\* A sweep knows how many items there were when it began.
LEMMA TakePhotoKeeps ==
  ASSUME Sound, TakePhoto
  PROVE  Sound'
  <1>1. /\ roll < MaxItem /\ roll' = roll + 1 /\ roll \in 0..MaxItem /\ MaxItem \in Nat
        /\ UNCHANGED <<conn, disk, history, mem, pass, retry, active, due, done, visited,
                       since, left>>
    BY BackupEngineAssumption DEF TakePhoto, Sound, SweepTypes, store, sweep
  <1>2. roll' \in 0..MaxItem /\ 1..roll \subseteq 1..roll' /\ 0..roll \subseteq 0..roll'
    BY <1>1
  <1>3. SweepTypes'
    <2>1. done' \in [Library -> SUBSET (1..roll')]
      BY <1>1, <1>2 DEF Sound, SweepTypes
    <2>2. since' \in [Library -> [Selection -> 0..roll']]
      BY <1>1, <1>2 DEF Sound, SweepTypes
    <2>3. visited' \in [Library -> [Selection -> SUBSET (1..roll')]]
      BY <1>1, <1>2 DEF Sound, SweepTypes
    <2> QED BY <1>2, <2>1, <2>2, <2>3 DEF SweepTypes
  <1>4. EngineTypes' /\ MemoryOK' /\ PassOK' /\ HistoryOK'
    BY <1>1 DEF Sound, EngineTypes, MemoryOK, PassOK, HistoryOK, Behind
  <1>5. SweepOK'
    <2>1. (NewestOK' /\ PageOK') \/ pass.aborted
      BY <1>1 DEF Sound, SweepOK, NewestOK, PageOK, NextIs, Behind
    <2>2. pass.item \in Nat
      BY BackupEngineAssumption DEF Sound, EngineTypes, PassState
    <2> QED BY <1>1, <2>1, <2>2 DEF Sound, SweepOK
  <1> QED BY <1>3, <1>4, <1>5 DEF Sound

-----------------------------------------------------------------------------
(* A pass finds its library.                                               *)

\* A step of a pass that has not begun its sweep.
LEMMA NotSweeping ==
  ASSUME Sound, EngineTypes', MemoryOK', PassOK', UNCHANGED <<roll, sweep, history>>,
         pass'.at \notin {"page", "turn", "fetch"}
  PROVE  Sound'
  <1>1. SweepTypes' /\ HistoryOK'
    BY DEF Sound, SweepTypes, HistoryOK, Behind, sweep
  <1>2. SweepOK'
    BY DEF SweepOK, NewestOK, PageOK
  <1> QED BY <1>1, <1>2 DEF Sound

LEMMA BeginKeeps ==
  ASSUME Sound, Begin
  PROVE  Sound'
  <1>1. EngineTypes /\ MemoryOK /\ pass \in PassState /\ retry \in Retry
        /\ UNCHANGED <<roll, conn, disk, history, mem, active, due, sweep, left>>
    BY DEF Sound, EngineTypes, Begin, store
  <1>2. CASE Ended(retry)
    <2>1. pass' \in PassState /\ Quiet(pass') /\ retry' \in Retry
      BY <1>1, <1>2, EndedType
    <2>2. EngineTypes'
      BY <1>1, <2>1 DEF EngineTypes
    <2> QED BY <1>1, <2>1, <2>2, Steady
  <1>3. CASE ~Ended(retry)
    <2>1. PICK at \in {"newest", "load"} : at = IF mem.scope = conn THEN "newest" ELSE "load"
      OBVIOUS
    <2>2. /\ conn \in Library /\ retry' = retry
          /\ pass' = [pass EXCEPT !.at = at, !.library = conn]
      BY <1>1, <1>3, <2>1 DEF Begin, EngineTypes
    <2>3. pass' \in PassState /\ pass'.at = at /\ pass'.library = conn
      BY <1>1, <2>2 DEF PassState
    <2>4. EngineTypes' /\ MemoryOK' /\ PassOK'
      BY <1>1, <2>1, <2>2, <2>3 DEF EngineTypes, MemoryOK, PassOK
    <2> QED BY <1>1, <2>1, <2>3, <2>4, NotSweeping
  <1> QED BY <1>2, <1>3

LEMMA LoadKeeps ==
  ASSUME Sound, Load
  PROVE  Sound'
  <1>1. EngineTypes /\ MemoryOK /\ PassOK /\ pass \in PassState
        /\ UNCHANGED <<roll, conn, disk, history, mem, retry, active, due, sweep, left>>
        /\ pass.at = "load" /\ ~pass.aborted
    BY DEF Sound, EngineTypes, Load, Going, store
  <1>2. pass.library = conn /\ conn \in Library
    BY <1>1 DEF PassOK
  <1>3. PICK loaded \in [auto: BOOLEAN, albums: Selection, scan: ScanOrNone] :
          /\ loaded = [auto |-> disk.auto, albums |-> disk.albums, scan |-> history[conn]]
          /\ loaded.albums = mem.albums /\ loaded.scan = history[conn]
    <2>1. disk.auto \in BOOLEAN /\ disk.albums \in Selection /\ history[conn] \in ScanOrNone
      BY <1>1, <1>2 DEF EngineTypes
    <2>2. disk.albums = mem.albums
      BY <1>1 DEF MemoryOK
    <2>3. [auto |-> disk.auto, albums |-> disk.albums, scan |-> history[conn]]
            \in [auto: BOOLEAN, albums: Selection, scan: ScanOrNone]
      BY <2>1
    <2> QED BY <2>2, <2>3
  <1>4. pass' = [pass EXCEPT !.at = "use", !.loaded = loaded]
    BY <1>2, <1>3 DEF Load
  <1>5. /\ pass' \in PassState /\ pass'.at = "use" /\ pass'.loaded = loaded
        /\ pass'.library = conn
    BY <1>1, <1>2, <1>3, <1>4 DEF PassState
  <1>6. EngineTypes' /\ MemoryOK' /\ PassOK'
    BY <1>1, <1>2, <1>3, <1>5 DEF EngineTypes, MemoryOK, PassOK
  <1> QED BY <1>1, <1>5, <1>6, NotSweeping

LEMMA UseLibraryKeeps ==
  ASSUME Sound, UseLibrary
  PROVE  Sound'
  <1>1. EngineTypes /\ MemoryOK /\ PassOK /\ pass \in PassState
        /\ UNCHANGED <<roll, conn, disk, history, retry, active, due, sweep, left>>
        /\ pass.at = "use" /\ ~pass.aborted
    BY DEF Sound, EngineTypes, UseLibrary, Going, store
  <1>2. /\ pass.library = conn /\ conn \in Library /\ pass.loaded.albums = mem.albums
        /\ pass.loaded.scan = history[conn] /\ pass.loaded.auto \in BOOLEAN
    BY <1>1 DEF PassOK, PassState
  <1>3. mem' = [auto |-> pass.loaded.auto, albums |-> mem.albums, scan |-> history[conn],
                scope |-> conn]
    BY <1>2 DEF UseLibrary
  <1>4. mem' \in Memory /\ mem'.albums = mem.albums /\ mem'.scan = history[conn]
        /\ mem'.scope = conn
    BY <1>1, <1>2, <1>3 DEF EngineTypes, Memory
  <1>5. pass' \in PassState /\ pass'.at = "newest" /\ pass'.library = conn
    BY <1>1, <1>2 DEF UseLibrary, PassState
  <1>6. EngineTypes' /\ MemoryOK' /\ PassOK'
    BY <1>1, <1>2, <1>4, <1>5 DEF EngineTypes, MemoryOK, PassOK
  <1> QED BY <1>1, <1>5, <1>6, NotSweeping

-----------------------------------------------------------------------------
(* The sweep.                                                              *)

\* What is known of a pass that sweeps.
LEMMA SweepFacts ==
  ASSUME Sound, ~pass.aborted, pass.at \in {"newest", "page", "turn", "fetch"}
  PROVE  /\ EngineTypes /\ SweepTypes /\ MemoryOK /\ SweepOK /\ HistoryOK
         /\ pass \in PassState /\ retry \in Retry /\ mem \in Memory
         /\ pass.library = conn /\ mem.scope = conn /\ conn \in Library /\ conn # Nowhere
         /\ history[conn] = mem.scan
         /\ mem.albums \in Selection /\ mem.albums \in Seq(Album) /\ Len(mem.albums) \in Nat \ {0}
         /\ DOMAIN mem.albums = 1..Len(mem.albums) /\ 1 \in DOMAIN mem.albums
         /\ roll \in Nat /\ roll <= MaxItem /\ MaxItem \in Nat
         /\ since[conn][mem.albums] \in 0..roll
  <1>1. /\ EngineTypes /\ SweepTypes /\ MemoryOK /\ SweepOK /\ HistoryOK
        /\ pass \in PassState /\ retry \in Retry /\ mem \in Memory
        /\ pass.library = conn /\ mem.scope = conn /\ conn \in Library /\ conn # Nowhere
    BY BackupEngineAssumption DEF Sound, EngineTypes, PassOK
  <1>2. history[conn] = mem.scan /\ mem.albums \in Selection
    BY <1>1 DEF MemoryOK, Memory
  <1>3. mem.albums \in Seq(Album) /\ mem.albums # <<>>
    BY <1>2, BackupEngineAssumption
  <1>4. Len(mem.albums) \in Nat \ {0} /\ DOMAIN mem.albums = 1..Len(mem.albums)
    BY <1>3
  <1>5. roll \in Nat /\ roll <= MaxItem /\ MaxItem \in Nat
        /\ since[conn][mem.albums] \in 0..roll
    BY <1>1, <1>2, BackupEngineAssumption DEF SweepTypes
  <1> QED BY <1>1, <1>2, <1>3, <1>4, <1>5

\* A sweep that goes on from a saved position, or begins.
LEMMA NewestKeeps ==
  ASSUME Sound, Newest
  PROVE  Sound'
  <1>1. /\ pass.at = "newest" /\ ~pass.aborted
        /\ UNCHANGED <<roll, conn, disk, history, mem, active, due, done, left>>
        /\ retry' = [retry EXCEPT !.pending = FALSE, !.more = FALSE]
    BY DEF Newest, Going, store
  <1>2. PICK l \in Library, s \in Selection : l = conn /\ s = mem.albums
    BY <1>1, SweepFacts
  <1>3. PICK item : item = PageOf(s[1], 0)
    OBVIOUS
  <1>4. /\ item \in 0..roll /\ item \in 0..MaxItem
        /\ \A i \in 1..roll : AlbumOf[i] = s[1] => i <= item
    BY <1>1, <1>3, PageIs, SweepFacts
  <1>5. PICK start : start = IF Saved THEN mem.scan
                             ELSE IF item # 0 /\ HasNext(s[1], item)
                             THEN [albums |-> s, album |-> 1, after |-> item] ELSE NoScan
    OBVIOUS
  <1>6. start \in ScanOrNone
    <2>1. [albums |-> s, album |-> 1, after |-> item] \in Scan
      BY <1>1, <1>2, <1>4, SweepFacts DEF Scan
    <2> QED BY <1>1, <1>5, <2>1, SweepFacts DEF ScanOrNone, Memory
  <1>7. pass' = [pass EXCEPT !.at = "page", !.newest = TRUE, !.item = item, !.start = start]
    BY <1>2, <1>3, <1>5 DEF Newest
  <1>8. /\ pass' \in PassState /\ pass'.at = "page" /\ pass'.newest /\ pass'.item = item
        /\ pass'.start = start /\ pass'.library = l
    BY <1>1, <1>2, <1>4, <1>6, <1>7, SweepFacts DEF PassState
  <1>9. EngineTypes' /\ MemoryOK' /\ PassOK'
    <2>1. retry' \in Retry
      BY <1>1, SweepFacts DEF Retry
    <2>2. EngineTypes'
      BY <1>1, <1>8, <2>1 DEF Sound, EngineTypes
    <2>3. MemoryOK' /\ PassOK'
      BY <1>1, <1>2, <1>8, SweepFacts DEF MemoryOK, PassOK
    <2> QED BY <2>2, <2>3
  <1>10. since[l][s] \in 0..roll /\ roll \in Nat /\ s # <<>> /\ DOMAIN s = 1..Len(s) /\ Len(s) \in Nat
    BY <1>1, <1>2, SweepFacts
  <1>11. CASE Saved
    <2>1. UNCHANGED <<visited, since>> /\ start = mem.scan /\ start.albums = s
      BY <1>2, <1>5, <1>11 DEF Newest, Saved
    <2>2. start # NoScan
      BY <1>10, <2>1 DEF NoScan
    <2>3. Behind(l, s, start.album, start.after) \subseteq visited[l][s]
      <3>1. start \in {history[l]} \ {NoScan} /\ HistoryOK
        BY <1>1, <1>2, <2>1, <2>2, SweepFacts
      <3> QED BY <2>1, <3>1 DEF HistoryOK
    <2>4. NewestOK'
      BY <1>1, <1>2, <1>4, <1>8, <1>10, <2>1, <2>3 DEF NewestOK, NextIs, Behind
    <2>5. HistoryOK' /\ SweepTypes'
      BY <1>1, <2>1 DEF Sound, HistoryOK, SweepTypes, Behind
    <2>6. SweepOK'
      BY <1>1, <1>4, <1>8, <2>4 DEF SweepOK, PageOK
    <2> QED BY <1>9, <2>5, <2>6 DEF Sound
  <1>12. CASE ~Saved
    <2>1. /\ visited' = [visited EXCEPT ![l][s] = {}]
          /\ since' = [since EXCEPT ![l][s] = roll]
      BY <1>1, <1>2, <1>12, SweepFacts DEF Newest
    <2>2. SweepTypes /\ SweepTypes'
      <3>1. SweepTypes
        BY DEF Sound
      <3>2. roll \in 0..roll /\ {} \in SUBSET (1..roll)
        BY <1>10
      <3> QED BY <1>1, <2>1, <3>1, <3>2 DEF SweepTypes
    <2>3. /\ visited'[l][s] = {} /\ since'[l][s] = roll
          /\ \A k \in Library, t \in Selection : k # l \/ t # s =>
               visited'[k][t] = visited[k][t] /\ since'[k][t] = since[k][t]
      BY <2>1, <2>2 DEF SweepTypes
    <2>4. HistoryOK'
      <3> SUFFICES ASSUME NEW k \in Library, NEW h \in {history[k]} \ {NoScan}
                   PROVE  Behind(k, h.albums, h.album, h.after)' \subseteq visited'[k][h.albums]
        BY <1>1 DEF HistoryOK
      <3>1. h.albums \in Selection
        BY DEF Sound, EngineTypes, ScanOrNone, Scan
      <3>2. k # l \/ h.albums # s
        BY <1>1, <1>2, <1>12, SweepFacts DEF Saved
      <3>3. visited'[k][h.albums] = visited[k][h.albums] /\ since'[k][h.albums] = since[k][h.albums]
        BY <2>3, <3>1, <3>2
      <3> QED BY <3>3 DEF Sound, HistoryOK, Behind
    <2>5. start # NoScan => start = [albums |-> s, album |-> 1, after |-> item]
      BY <1>5, <1>12
    <2>6. ASSUME start # NoScan
          PROVE  Behind(l, s, start.album, start.after)' \subseteq {item}
      <3>1. start.album = 1 /\ start.after = item
        BY <2>5, <2>6
      <3>2. \A i \in 1..roll, k \in DOMAIN s :
              AlbumOf[i] = s[k] /\ (k < 1 \/ (k = 1 /\ item # 0 /\ i >= item)) => i = item
        BY <1>4, <1>10
      <3> QED BY <2>3, <3>1, <3>2 DEF Behind
    <2>7. NewestOK'
      BY <1>1, <1>2, <1>4, <1>8, <1>10, <2>3, <2>5, <2>6 DEF NewestOK, NextIs, Behind
    <2>8. SweepOK'
      BY <1>1, <1>4, <1>8, <2>7 DEF SweepOK, PageOK
    <2> QED BY <1>9, <2>2, <2>4, <2>8 DEF Sound
  <1> QED BY <1>11, <1>12

\* An item that is worked off is one that was visited.
LEMMA PageKeeps ==
  ASSUME Sound, Page
  PROVE  Sound'
  <1>1. /\ pass.at = "page" /\ ~pass.aborted
        /\ UNCHANGED <<roll, conn, mem, active, due, since>>
    BY DEF Page, Going
  <1>2. PICK l \in Library, s \in Selection, item \in 0..roll :
          l = conn /\ l = pass.library /\ s = mem.albums /\ item = pass.item
    BY <1>1, SweepFacts DEF SweepOK, PassState
  <1>3. CASE Spent
    <2>1. [retry EXCEPT !.more = TRUE] \in Retry
      BY <1>1, SweepFacts DEF Retry
    <2>2. Ended([retry EXCEPT !.more = TRUE]) /\ UNCHANGED <<disk, history, done, visited, left>>
      BY <1>3 DEF Page, store
    <2>3. pass' \in PassState /\ Quiet(pass') /\ retry' \in Retry
      BY <2>1, <2>2, EndedType DEF Sound
    <2>4. EngineTypes'
      BY <1>1, <2>2, <2>3 DEF Sound, EngineTypes
    <2> QED BY <1>1, <2>2, <2>3, <2>4, Steady DEF sweep
  <1>4. CASE ~Spent
    <2>1. visited' = [visited EXCEPT ![l][s] = @ \cup ({item} \ {0})]
      BY <1>2, <1>4 DEF Page
    <2>2. history' = history /\ disk' \in [auto: BOOLEAN, albums: Selection]
          /\ disk'.albums = disk.albums
      BY <1>1, <1>4, SweepFacts, PersistSame DEF Page, store, EngineTypes
    <2>3. PICK attempts \in {pass.attempts, pass.attempts + 1} :
            /\ pass' = [pass EXCEPT !.at = "turn", !.attempts = attempts]
            /\ attempts \in 0..Budget
      <3>1. pass.attempts \in 0..Budget /\ pass.attempts < Budget /\ Budget \in Nat
        BY <1>1, <1>4, SweepFacts, BackupEngineAssumption DEF PassState, Spent
      <3>2. [pass EXCEPT !.at = "turn"] = [pass EXCEPT !.at = "turn", !.attempts = pass.attempts]
        BY <1>1, SweepFacts DEF PassState
      <3> QED BY <1>4, <3>1, <3>2 DEF Page
    <2>4. /\ pass' \in PassState /\ pass'.at = "turn" /\ pass'.newest = pass.newest
          /\ pass'.item = item /\ pass'.start = pass.start /\ pass'.library = l
          /\ pass'.album = pass.album /\ pass'.after = pass.after /\ pass'.aborted = pass.aborted
      BY <1>1, <1>2, <2>3, SweepFacts DEF PassState
    <2>5. retry' \in Retry /\ left' \in 0..MaxEvent
      <3>1. retry' = retry \/ retry' = [retry EXCEPT !.pending = TRUE]
        BY <1>4 DEF Page
      <3>2. left' = left \/ Event
        BY <1>4 DEF Page
      <3> QED BY <1>1, <3>1, <3>2, SweepFacts, EventType DEF Retry, EngineTypes
    <2>6. EngineTypes' /\ MemoryOK' /\ PassOK'
      BY <1>1, <1>2, <2>2, <2>4, <2>5, SweepFacts DEF EngineTypes, MemoryOK, PassOK
    <2>7. SweepTypes /\ SweepTypes'
      <3>1. SweepTypes /\ {item} \ {0} \subseteq 1..roll
        BY <1>1, <1>2, SweepFacts
      <3>2. visited' \in [Library -> [Selection -> SUBSET (1..roll)]]
        BY <1>2, <2>1, <3>1 DEF SweepTypes
      <3>3. done' = done \/ (item # 0 /\ done' = [done EXCEPT ![l] = @ \cup {item}])
        BY <1>2, <1>4 DEF Page
      <3>4. done' \in [Library -> SUBSET (1..roll)]
        BY <1>2, <3>1, <3>3 DEF SweepTypes
      <3> QED BY <1>1, <3>1, <3>2, <3>4 DEF SweepTypes
    <2>8. /\ visited[l][s] \subseteq visited'[l][s] /\ (item # 0 => item \in visited'[l][s])
          /\ \A k \in Library, t \in Selection : visited[k][t] \subseteq visited'[k][t]
      BY <2>1, <2>7 DEF SweepTypes
    <2>9. HistoryOK'
      <3> SUFFICES ASSUME NEW k \in Library, NEW h \in {history[k]} \ {NoScan}
                   PROVE  Behind(k, h.albums, h.album, h.after)' \subseteq visited'[k][h.albums]
        BY <2>2 DEF HistoryOK
      <3>1. h.albums \in Selection
        BY DEF Sound, EngineTypes, ScanOrNone, Scan
      <3> QED BY <1>1, <2>8, <3>1 DEF Sound, HistoryOK, Behind
    <2>10. NewestOK'
      <3>1. NewestOK
        BY <1>1, SweepFacts DEF SweepOK
      <3> QED BY <1>1, <1>2, <2>4, <2>8, <3>1 DEF NewestOK, NextIs, Behind
    <2>11. PageOK'
      <3>1. PageOK
        BY <1>1, SweepFacts DEF SweepOK
      <3> QED BY <1>1, <1>2, <2>4, <2>8, <3>1 DEF PageOK, NextIs, Behind
    <2>12. SweepOK'
      BY <1>1, <1>2, <2>4, <2>8, <2>10, <2>11 DEF SweepOK
    <2> QED BY <2>6, <2>7, <2>9, <2>12 DEF Sound
  <1> QED BY <1>3, <1>4

\* The pages between two positions.
LEMMA AfterNewestKeeps ==
  ASSUME Sound, AfterNewest
  PROVE  Sound'
  <1>1. /\ pass.at = "turn" /\ ~pass.aborted /\ pass.newest
        /\ UNCHANGED <<roll, conn, disk, history, mem, retry, active, due, sweep, left>>
    BY DEF AfterNewest, Going, store
  <1>2. PICK l \in Library, s \in Selection, item \in 0..roll :
          l = conn /\ l = pass.library /\ s = mem.albums /\ item = pass.item
    BY <1>1, SweepFacts DEF SweepOK, PassState
  <1>3. /\ NextIs(l, s, 1, 0, item)
        /\ pass.start # NoScan => pass.start.albums = s
             /\ Behind(l, s, pass.start.album, pass.start.after) \subseteq visited[l][s] \cup {item}
        /\ item # 0 => item \in visited[l][s]
    BY <1>1, <1>2, SweepFacts DEF SweepOK, NewestOK
  <1>4. /\ since[l][s] \in 0..roll /\ roll \in Nat /\ DOMAIN s = 1..Len(s) /\ Len(s) \in Nat \ {0}
        /\ pass \in PassState /\ pass.start \in ScanOrNone
    BY <1>1, <1>2, SweepFacts DEF PassState
  <1>5. ASSUME NEW album \in 1..(Len(s) + 1), NEW after \in 0..MaxItem, Goto(album, after, 0),
               Behind(l, s, album, after) \subseteq visited[l][s]
        PROVE  Sound'
    <2>1. pass' = [pass EXCEPT !.at = "fetch", !.album = album, !.after = after, !.pages = 0,
                               !.newest = FALSE]
      BY <1>5 DEF Goto
    <2>2. /\ pass' \in PassState /\ pass'.at = "fetch" /\ ~pass'.newest /\ pass'.library = l
          /\ pass'.album = album /\ pass'.after = after /\ pass'.aborted = pass.aborted
      <3>1. album \in Nat /\ 0 \in Nat
        BY <1>4
      <3> QED BY <1>2, <1>4, <2>1, <3>1 DEF PassState
    <2>3. EngineTypes' /\ MemoryOK' /\ PassOK'
      BY <1>1, <1>2, <2>2, SweepFacts DEF EngineTypes, MemoryOK, PassOK
    <2>4. SweepTypes' /\ HistoryOK'
      BY <1>1 DEF Sound, SweepTypes, HistoryOK, Behind, sweep
    <2>5. PageOK'
      BY <1>1, <1>2, <1>5, <2>2 DEF PageOK, Behind, sweep
    <2>6. SweepOK'
      BY <2>2, <2>5 DEF SweepOK, NewestOK
    <2> QED BY <2>3, <2>4, <2>6 DEF Sound
  <1>6. CASE Place = FirstPlace /\ ~HasNext(mem.albums[1], pass.item)
    <2>1. Goto(2, 0, 0)
      BY <1>6 DEF AfterNewest
    <2>2. \A i \in 1..since[l][s] : AlbumOf[i] = s[1] => i = item
      BY <1>2, <1>3, <1>4, <1>6 DEF HasNext, NextIs
    <2>3. Behind(l, s, 2, 0) \subseteq visited[l][s]
      BY <1>3, <1>4, <2>2 DEF Behind
    <2> QED BY <1>4, <1>5, <2>1, <2>3, BackupEngineAssumption
  <1>7. CASE ~(Place = FirstPlace /\ ~HasNext(mem.albums[1], pass.item))
    <2>1. Goto(Place.album, Place.after, 0)
      BY <1>7 DEF AfterNewest
    <2>2. CASE pass.start = NoScan
      <3>1. Place.album = 1 /\ Place.after = 0
        BY <2>2 DEF Place, FirstPlace
      <3>2. Behind(l, s, 1, 0) \subseteq visited[l][s]
        BY <1>4 DEF Behind
      <3> QED BY <1>4, <1>5, <2>1, <3>1, <3>2, BackupEngineAssumption
    <2>3. CASE pass.start # NoScan
      <3>1. Place.album = pass.start.album /\ Place.after = pass.start.after
        BY <2>3 DEF Place
      <3>2. pass.start.album \in 1..(Len(s) + 1) /\ pass.start.after \in 0..MaxItem
        BY <1>3, <1>4, <2>3 DEF ScanOrNone, Scan
      <3>3. Behind(l, s, pass.start.album, pass.start.after) \subseteq visited[l][s]
        BY <1>3, <1>4, <2>3 DEF Behind
      <3> QED BY <1>5, <2>1, <3>1, <3>2, <3>3
    <2> QED BY <2>2, <2>3
  <1> QED BY <1>6, <1>7

LEMMA FetchKeeps ==
  ASSUME Sound, Fetch
  PROVE  Sound'
  <1>1. /\ pass.at = "fetch" /\ ~pass.aborted /\ pass.album <= Len(mem.albums)
        /\ UNCHANGED <<roll, conn, disk, history, mem, retry, active, due, sweep, left>>
    BY DEF Fetch, Going, Albums, store
  <1>2. PICK l \in Library, s \in Selection, album \in 1..Len(mem.albums), after \in 0..MaxItem :
          /\ l = conn /\ l = pass.library /\ s = mem.albums
          /\ album = pass.album /\ after = pass.after
    BY <1>1, SweepFacts DEF SweepOK, PageOK, PassState
  <1>3. PICK item : item = PageOf(s[album], after)
    OBVIOUS
  <1>4. /\ item \in 0..roll /\ item \in 0..MaxItem
        /\ \A i \in 1..roll : AlbumOf[i] = s[album] /\ (after = 0 \/ i < after) => i <= item
    BY <1>1, <1>2, <1>3, PageIs, SweepFacts
  <1>5. pass' = [pass EXCEPT !.at = "page", !.item = item]
    BY <1>2, <1>3 DEF Fetch
  <1>6. /\ pass' \in PassState /\ pass'.at = "page" /\ pass'.newest = pass.newest
        /\ pass'.item = item /\ pass'.library = l /\ pass'.aborted = pass.aborted
        /\ pass'.album = album /\ pass'.after = after
    BY <1>1, <1>2, <1>4, <1>5, SweepFacts DEF PassState
  <1>7. EngineTypes' /\ MemoryOK' /\ PassOK'
    BY <1>1, <1>2, <1>6, SweepFacts DEF EngineTypes, MemoryOK, PassOK
  <1>8. SweepTypes' /\ HistoryOK'
    BY <1>1 DEF Sound, SweepTypes, HistoryOK, Behind, sweep
  <1>9. PageOK /\ ~pass.newest /\ since[l][s] \in 0..roll /\ roll \in Nat
    BY <1>1, <1>2, SweepFacts DEF SweepOK
  <1>10. PageOK'
    BY <1>1, <1>2, <1>4, <1>6, <1>9 DEF PageOK, NextIs, Behind, sweep
  <1>11. SweepOK'
    BY <1>1, <1>4, <1>6, <1>9, <1>10 DEF SweepOK, NewestOK
  <1> QED BY <1>7, <1>8, <1>11 DEF Sound

\* A position that is stored has nothing behind it that the sweep has not visited.
LEMMA PositionStored ==
  ASSUME Sound, ~pass.aborted, pass.at \in {"turn", "fetch"}, NEW scan \in ScanOrNone,
         NEW m, m = [mem EXCEPT !.scan = scan], mem' = m, Persist(m),
         scan # NoScan => Behind(conn, scan.albums, scan.album, scan.after)
                            \subseteq visited[conn][scan.albums],
         UNCHANGED <<roll, conn, active, due, sweep, left>>,
         pass' \in PassState, retry' \in Retry
  PROVE  /\ EngineTypes' /\ SweepTypes' /\ MemoryOK' /\ HistoryOK'
         /\ mem'.albums = mem.albums /\ mem'.scope = conn /\ history'[conn] = scan
  <1>1. mem \in Memory /\ mem.scope = conn /\ conn \in Library /\ conn # Nowhere /\ EngineTypes
    BY SweepFacts
  <1>2. m \in Memory /\ m.albums = mem.albums /\ m.scan = scan /\ m.scope = conn
    BY <1>1 DEF Memory
  <1>3. /\ disk' \in [auto: BOOLEAN, albums: Selection] /\ disk'.albums = m.albums
        /\ history' \in [Library -> ScanOrNone]
        /\ \A l \in Library : history'[l] = IF l = conn THEN scan ELSE history[l]
    BY <1>1, <1>2, PersistNew, ZenonT(40)
  <1>4. EngineTypes' /\ SweepTypes' /\ MemoryOK'
    BY <1>1, <1>2, <1>3 DEF Sound, EngineTypes, SweepTypes, MemoryOK, sweep
  <1>5. HistoryOK'
    <2>1. UNCHANGED <<visited, since>>
      BY DEF sweep
    <2> SUFFICES ASSUME NEW l \in Library, NEW h \in {history'[l]} \ {NoScan}
                 PROVE  Behind(l, h.albums, h.album, h.after)' \subseteq visited'[l][h.albums]
      BY DEF HistoryOK
    <2>2. CASE l = conn
      <3>1. h = scan /\ Behind(l, h.albums, h.album, h.after) \subseteq visited[l][h.albums]
        BY <1>3, <2>2
      <3> QED BY <2>1, <3>1 DEF Behind
    <2>3. CASE l # conn
      <3>1. Behind(l, h.albums, h.album, h.after) \subseteq visited[l][h.albums]
        BY <1>3, <2>3 DEF Sound, HistoryOK
      <3> QED BY <2>1, <3>1 DEF Behind
    <2> QED BY <2>2, <2>3
  <1> QED BY <1>1, <1>2, <1>3, <1>4, <1>5

LEMMA AfterPageKeeps ==
  ASSUME Sound, AfterPage
  PROVE  Sound'
  <1>1. /\ pass.at = "turn" /\ ~pass.aborted /\ ~pass.newest
        /\ UNCHANGED <<roll, conn, active, due, sweep, left>>
    BY DEF AfterPage, Going
  <1>2. PICK l \in Library, s \in Selection, item \in 0..roll,
             album \in 1..Len(mem.albums), after \in 0..MaxItem :
          /\ l = conn /\ l = pass.library /\ s = mem.albums /\ item = pass.item
          /\ album = pass.album /\ after = pass.after
    BY <1>1, SweepFacts DEF SweepOK, PageOK, PassState
  <1>3. /\ Behind(l, s, album, after) \subseteq visited[l][s]
        /\ NextIs(l, s, album, after, item)
        /\ item # 0 => item \in visited[l][s]
    BY <1>1, <1>2, SweepFacts DEF SweepOK, PageOK
  <1>4. /\ since[l][s] \in 0..roll /\ roll \in Nat /\ DOMAIN s = 1..Len(s) /\ Len(s) \in Nat \ {0}
        /\ pass \in PassState /\ retry \in Retry /\ 0 \in 0..MaxItem /\ item \in 0..MaxItem
        /\ pass.pages \in Nat
    BY <1>1, <1>2, SweepFacts DEF PassState
  <1>5. PICK next \in BOOLEAN : next = (pass.item # 0 /\ HasNext(mem.albums[pass.album], pass.item))
    OBVIOUS
  <1>6. PICK to \in 1..(Len(s) + 1), from \in 0..MaxItem :
          /\ next => to = album /\ from = item
          /\ ~next => to = album + 1 /\ from = 0
    <2>1. album \in 1..(Len(s) + 1) /\ album + 1 \in 1..(Len(s) + 1)
      BY <1>2, <1>4
    <2>2. CASE next
      BY <1>4, <2>1, <2>2
    <2>3. CASE ~next
      BY <1>4, <2>1, <2>3
    <2> QED BY <2>2, <2>3
  <1>7. Behind(l, s, to, from) \subseteq visited[l][s]
    <2> SUFFICES ASSUME NEW i \in 1..since[l][s], NEW k \in DOMAIN s, AlbumOf[i] = s[k],
                        k < to \/ (k = to /\ from # 0 /\ i >= from)
                 PROVE  i \in visited[l][s]
      BY DEF Behind
    <2>1. CASE k < album \/ (k = album /\ after # 0 /\ i >= after)
      BY <1>3, <2>1 DEF Behind
    <2>2. CASE ~(k < album \/ (k = album /\ after # 0 /\ i >= after))
      <3>1. k = album
        BY <1>2, <1>4, <1>6, <2>2
      <3>2. i <= item
        BY <1>2, <1>3, <1>4, <2>2, <3>1 DEF NextIs
      <3>3. i = item
        <4>1. i \in 1..roll /\ AlbumOf[i] = mem.albums[pass.album] /\ item = pass.item
          BY <1>2, <1>4, <3>1
        <4>2. CASE next
          <5>1. i >= item
            BY <1>2, <1>4, <1>6, <3>1, <4>2
          <5> QED BY <1>2, <3>2, <4>1, <5>1
        <4>3. CASE ~next
          <5>1. item # 0
            BY <1>2, <3>2, <4>1
          <5>2. ~(i < item)
            BY <1>5, <4>1, <4>3, <5>1 DEF HasNext
          <5> QED BY <1>2, <3>2, <4>1, <5>2
        <4> QED BY <4>2, <4>3
      <3> QED BY <1>3, <3>3
    <2> QED BY <2>1, <2>2
  <1>8. PICK scan \in Scan : /\ scan = [albums |-> s, album |-> to, after |-> from]
                             /\ scan.albums = s /\ scan.album = to /\ scan.after = from
    <2>1. [albums |-> s, album |-> to, after |-> from] \in Scan
      BY <1>4 DEF Scan
    <2> QED BY <2>1
  <1>9. PICK m : m = [mem EXCEPT !.scan = scan]
    OBVIOUS
  <1>10. mem' = m /\ Persist(m)
    <2>1. scan = IF next THEN Position(pass.album, pass.item) ELSE Position(pass.album + 1, 0)
      BY <1>2, <1>6, <1>8 DEF Position
    <2> QED BY <1>5, <1>9, <2>1 DEF AfterPage
  <1>11. ASSUME NEW p \in PassState, pass' = p, retry' \in Retry,
                \/ Quiet(p)
                \/ /\ p.at = "fetch" /\ ~p.newest /\ p.library = l
                   /\ p.album = to /\ p.after = from
         PROVE  Sound'
    <2>1. /\ EngineTypes' /\ SweepTypes' /\ MemoryOK' /\ HistoryOK'
          /\ mem'.albums = mem.albums /\ mem'.scope = conn /\ history'[conn] = scan
      BY <1>1, <1>2, <1>7, <1>8, <1>9, <1>10, <1>11, PositionStored DEF ScanOrNone
    <2>2. CASE Quiet(p)
      BY <1>11, <2>1, <2>2, QuietOK DEF Sound
    <2>3. CASE p.at = "fetch" /\ ~p.newest /\ p.library = l /\ p.album = to /\ p.after = from
      <3>1. PassOK'
        BY <1>1, <1>2, <1>11, <2>1, <2>3 DEF PassOK
      <3>2. PageOK'
        BY <1>1, <1>2, <1>7, <1>11, <2>1, <2>3 DEF PageOK, Behind, sweep
      <3>3. SweepOK'
        BY <1>11, <2>3, <3>2 DEF SweepOK, NewestOK
      <3> QED BY <2>1, <3>1, <3>3 DEF Sound
    <2> QED BY <1>11, <2>2, <2>3
  <1>12. ASSUME NEW pages \in Nat, Goto(to, from, pages), retry' = retry
         PROVE  Sound'
    <2>1. PICK p : p = [pass EXCEPT !.at = "fetch", !.album = to, !.after = from,
                                    !.pages = pages, !.newest = FALSE]
      OBVIOUS
    <2>2. /\ p \in PassState /\ p.at = "fetch" /\ ~p.newest /\ p.library = l
          /\ p.album = to /\ p.after = from
      <3>1. to \in Nat /\ pages \in Nat
        BY <1>4
      <3> QED BY <1>2, <1>4, <2>1, <3>1 DEF PassState
    <2>3. pass' = p
      BY <1>12, <2>1 DEF Goto
    <2> QED BY <1>4, <1>11, <1>12, <2>2, <2>3
  <1>13. CASE Ended([retry EXCEPT !.more = TRUE])
    <2>1. [retry EXCEPT !.more = TRUE] \in Retry
      BY <1>4 DEF Retry
    <2>2. pass' \in PassState /\ Quiet(pass') /\ retry' \in Retry /\ pass' = Idle
      BY <1>13, <2>1, EndedType DEF Sound
    <2> QED BY <1>11, <2>2, IdleIs
  <1>14. CASE ~Ended([retry EXCEPT !.more = TRUE])
    <2>1. retry' = retry /\ \E pages \in Nat : Goto(to, from, pages)
      <3>1. CASE next
        <4>1. Goto(pass.album, pass.item, pass.pages + 1) /\ retry' = retry
          BY <1>5, <1>14, <3>1 DEF AfterPage
        <4>2. pass.album = to /\ pass.item = from /\ pass.pages + 1 \in Nat
          BY <1>2, <1>4, <1>6, <3>1
        <4> QED BY <4>1, <4>2
      <3>2. CASE ~next
        <4>1. Goto(pass.album + 1, 0, 0) /\ retry' = retry
          BY <1>5, <3>2 DEF AfterPage
        <4>2. pass.album + 1 = to /\ from = 0 /\ 0 \in Nat
          BY <1>2, <1>4, <1>6, <3>2
        <4> QED BY <4>1, <4>2
      <3> QED BY <3>1, <3>2
    <2> QED BY <1>12, <2>1
  <1> QED BY <1>13, <1>14

LEMMA SweepEndsKeeps ==
  ASSUME Sound, SweepEnds
  PROVE  Sound'
  <1>1. /\ pass.at = "fetch" /\ ~pass.aborted /\ Ended(retry)
        /\ UNCHANGED <<roll, conn, active, due, sweep, left>>
    BY DEF SweepEnds, Going
  <1>2. PICK m : m = [mem EXCEPT !.scan = NoScan]
    OBVIOUS
  <1>3. mem' = m /\ Persist(m)
    BY <1>2 DEF SweepEnds
  <1>4. pass' \in PassState /\ Quiet(pass') /\ retry' \in Retry
    BY <1>1, EndedType, SweepFacts
  <1>5. EngineTypes' /\ SweepTypes' /\ MemoryOK' /\ HistoryOK'
    BY <1>1, <1>2, <1>3, <1>4, PositionStored DEF ScanOrNone
  <1> QED BY <1>4, <1>5, QuietOK DEF Sound

-----------------------------------------------------------------------------
LEMMA SoundInit == Init => Sound
  <1> SUFFICES ASSUME Init PROVE Sound
    OBVIOUS
  <1>1. PICK s \in Selection : disk = [auto |-> FALSE, albums |-> s]
    BY DEF Init
  <1>2. EngineTypes
    <2>1. mem \in Memory
      BY <1>1 DEF Init, Memory, ScanOrNone
    <2>2. history \in [Library -> ScanOrNone]
      BY DEF Init, ScanOrNone
    <2>3. disk \in [auto: BOOLEAN, albums: Selection] /\ left \in 0..MaxEvent
      BY <1>1, BackupEngineAssumption DEF Init
    <2>4. conn \in Library \cup {Nowhere} /\ active \in BOOLEAN /\ due \in BOOLEAN
      BY BackupEngineAssumption DEF Init
    <2>5. pass \in PassState /\ retry \in Retry
      BY IdleIs DEF Init
    <2> QED BY <2>1, <2>2, <2>3, <2>4, <2>5 DEF EngineTypes
  <1>3. SweepTypes
    BY BackupEngineAssumption DEF Init, SweepTypes
  <1>4. MemoryOK /\ HistoryOK
    BY <1>1 DEF Init, MemoryOK, HistoryOK
  <1>5. PassOK /\ SweepOK
    BY IdleIs DEF Init, PassOK, SweepOK, NewestOK, PageOK
  <1> QED BY <1>2, <1>3, <1>4, <1>5 DEF Sound

LEMMA SoundNext ==
  ASSUME Sound, [Next]_vars
  PROVE  Sound'
  <1>1. CASE UNCHANGED vars
    <2>1. UNCHANGED <<roll, sweep, history, conn, mem, disk, pass, retry, active, due, left>>
      BY <1>1 DEF vars, sweep
    <2>2. EngineTypes'
      BY <2>1 DEF Sound, EngineTypes
    <2> QED BY <2>1, <2>2, Steady
  <1>2. CASE \/ BackUpNow \/ Minute \/ Leave \/ Return \/ Reconnected \/ Refused
             \/ RetryFires \/ BackgroundWake \/ Abort \/ Dying
    BY <1>2, OutsideKeeps
  <1>3. CASE \/ (\E on \in BOOLEAN : SetAuto(on)) \/ (\E s \in Selection : SetAlbums(s) \/ Crash(s))
             \/ (\E l \in Library \cup {Nowhere} : Switch(l)) \/ TakePhoto
    BY <1>3, SetAutoKeeps, SetAlbumsKeeps, SwitchKeeps, CrashKeeps, TakePhotoKeeps
  <1>4. CASE Begin \/ Load \/ UseLibrary \/ Newest \/ Page \/ AfterNewest \/ Fetch
             \/ AfterPage \/ SweepEnds
    BY <1>4, BeginKeeps, LoadKeeps, UseLibraryKeeps, NewestKeeps, PageKeeps,
       AfterNewestKeeps, FetchKeeps, AfterPageKeeps, SweepEndsKeeps
  <1> QED BY <1>1, <1>2, <1>3, <1>4 DEF Next

LEMMA SoundHolds == Spec => []Sound
  BY SoundInit, SoundNext, PTL DEF Spec

-----------------------------------------------------------------------------
(* What follows.                                                           *)

\* The engine, its stored state and its passes stay within their types: a pass never
\* makes more attempts than its budget, and no position lies outside its selection.
THEOREM BackupEngineTypeCorrect == Spec => []BackupEngineTypeOK
  <1>1. Sound => BackupEngineTypeOK
    BY DEF Sound, EngineTypes, SweepTypes, PassState, Memory, Retry, ScanOrNone,
           BackupEngineTypeOK
  <1> QED BY <1>1, SoundHolds, PTL

\* A sweep that several passes share, of several libraries, skips no item, and a pass
\* works for the library it began with, whatever stops, wakes or redirects the passes.
THEOREM SweepsAreSound == Spec => []SweepIsSound
  <1>1. Sound => SweepIsSound
    <2> SUFFICES ASSUME Sound PROVE SweepIsSound
      OBVIOUS
    <2>1. PassKeepsLibrary
      BY DEF Sound, PassOK, PassKeepsLibrary
    <2>2. SweepTypes /\ roll \in Nat
      BY BackupEngineAssumption DEF Sound, SweepTypes
    <2>3. \A l \in Library : history[l] # NoScan =>
            Passed(history[l].albums, history[l].album, history[l].after)
              \cap (1..since[l][history[l].albums]) \subseteq visited[l][history[l].albums]
      <3> SUFFICES ASSUME NEW l \in Library, NEW h \in {history[l]} \ {NoScan}
                   PROVE  Passed(h.albums, h.album, h.after) \cap (1..since[l][h.albums])
                            \subseteq visited[l][h.albums]
        OBVIOUS
      <3>1. Behind(l, h.albums, h.album, h.after) \subseteq visited[l][h.albums]
        BY DEF Sound, HistoryOK
      <3> QED BY <3>1 DEF Behind, Passed
    <2>4. ASSUME Going("fetch"), pass.album > Albums
          PROVE  Passed(mem.albums, pass.album, 0) \cap (1..since[pass.library][mem.albums])
                   \subseteq visited[pass.library][mem.albums]
      <3>1. pass.at = "fetch" /\ ~pass.aborted
        BY <2>4 DEF Going
      <3>2. /\ Behind(pass.library, mem.albums, pass.album, pass.after)
                 \subseteq visited[pass.library][mem.albums]
            /\ pass.album \in Nat
        BY <3>1, SweepFacts DEF SweepOK, PageOK, PassState
      <3> QED BY <3>2 DEF Behind, Passed
    <2> QED BY <2>1, <2>3, <2>4 DEF SweepCoversRoll, SweepIsSound
  <1> QED BY <1>1, SoundHolds, PTL
=============================================================================
