-------------------------- MODULE MobileMirrorSafety --------------------------
(***************************************************************************)
(* Proofs about MobileMirror, for any assets, any sizes of pages, batches  *)
(* and logs, and any number of edits and events: what the user does on the *)
(* phone is neither lost nor overtaken on its way to the server, and the   *)
(* cursor passes no change that the mirror has missed.                     *)
(***************************************************************************)
EXTENDS MobileMirror, SequenceTheorems, FiniteSetTheorems, WellFoundedInduction, TLAPS

-----------------------------------------------------------------------------
(* The inductive invariant: types.                                         *)

Change == [asset: Asset, op: {"change", "delete"}, v: Nat]
Update == [asset: Asset, v: Nat, by: Nat]
Request == [id: 1..(nextID - 1), kind: Kind, asset: Asset]
Mirrored == [v: Nat, trashed: BOOLEAN]

\* The lane while the queue is flushed, and while a page of the feed is applied.
Sending == [at: {"sending"}, rows: Seq(Request), full: BOOLEAN, batch: Nat]
Heard == [at: {"answered"}, rows: Seq(Request), full: BOOLEAN, batch: Nat,
          outcome: {"sent", "drop", "retry"}]
Syncing == [at: {"sync"}, pages: Nat]
Asking == [at: {"feed"}, pages: Nat, floor: Nat]
Paging == [at: {"apply", "write", "clear", "jump"}, pages: Nat, ids: Seq(Nat), cursor: Nat,
           more: BOOLEAN, past: Nat, pruned: Nat, v: Nat]

ServerTypes ==
  /\ state \in [Asset -> {"live", "trashed", "gone"}]
  /\ version \in [Asset -> Nat]
  /\ log \in Seq(Change) /\ floor \in 0..Len(log)
  /\ \A k \in 1..Len(log) : log[k].v <= version[log[k].asset]
  /\ unlogged \subseteq Update /\ \A l \in unlogged : l.v <= version[l.asset]

QueueTypes ==
  /\ handled \in [Intent -> {"no", "accepted", "refused"}]
  /\ nextID \in 1..(MaxIntent + 1) /\ rejected \subseteq 1..(nextID - 1)
  /\ queue \in Seq(Request) /\ late \subseteq Request
  /\ tap # NoTap => tap \in [kind: Kind, asset: Asset] /\ nextID <= MaxIntent

MirrorTypes ==
  /\ row \in [Asset -> Mirrored] /\ stale \subseteq Asset
  /\ \A a \in Asset : row[a].v <= version[a]
  /\ cursor \in 0..Len(log)
  /\ page # NoPage =>
       /\ page.kind \in {"library", "trash"} /\ DOMAIN page.rows \subseteq Asset
       /\ \A a \in DOMAIN page.rows : page.rows[a] \in Nat /\ page.rows[a] <= version[a]

LaneTypes == lane \in {Free} \cup Sending \cup Heard \cup Syncing \cup Asking \cup Paging

Types == ServerTypes /\ QueueTypes /\ MirrorTypes /\ LaneTypes /\ left \in 0..MaxEvent

-----------------------------------------------------------------------------
(* The inductive invariant: the edits.                                     *)

\* The queue is in the order of the edits.
InOrder == \A i, j \in 1..Len(queue) : i < j => queue[i].id < queue[j].id

\* Whoever holds the lane has read the first rows of the queue, and nobody else
\* takes rows from it.
FirstRead ==
  lane.at \in {"sending", "answered"} =>
    /\ Len(lane.rows) \in 1..Len(queue)
    /\ \A k \in 1..Len(lane.rows) : lane.rows[k] = queue[k]

\* The outcome is what the server did.
OutcomeOK ==
  lane.at = "answered" =>
    /\ lane.outcome = "sent" => handled[lane.rows[1].id] = "accepted"
    /\ lane.outcome = "drop" => handled[lane.rows[1].id] # "no"

\* The server has met all that was made before an edit.
EarlierHandled(id) == \A i \in Intent : i < id => handled[i] # "no"

\* A request that is still on its way follows nothing the server has not met.
LateOK == \A m \in late : EarlierHandled(m.id)

Edits == InOrder /\ FirstRead /\ OutcomeOK /\ LateOK /\ EditsAreOrderly

-----------------------------------------------------------------------------
(* The inductive invariant: the mirror.                                    *)

InPage == lane.at \in {"apply", "write", "clear", "jump"}

\* Of what was pruned after the stored cursor and up to here nobody tells the phone.
Unknown == IF InPage THEN lane.pruned ELSE 0

\* The changes of a page follow each other, from what the mirror has been brought
\* to up to the cursor that is stored after them.
PageOK ==
  InPage =>
    /\ lane.past >= cursor /\ lane.cursor >= cursor /\ lane.cursor <= Len(log)
    /\ \A k \in 1..Len(lane.ids) : lane.ids[k] = lane.cursor - Len(lane.ids) + k
    /\ IF lane.ids = <<>> THEN lane.at \in {"apply", "jump"} => lane.past = lane.cursor
       ELSE lane.cursor - Len(lane.ids) = IF lane.past > lane.pruned THEN lane.past
                                                                     ELSE lane.pruned
    /\ lane.at \in {"clear", "jump"} => lane.pruned = 0 /\ lane.ids = <<>>
    /\ lane.at = "clear" => lane.past = cursor
    /\ lane.at = "write" =>
         /\ lane.ids # <<>> /\ lane.v <= version[log[NextChange].asset]
         /\ lane.v # 0 => \A k \in 1..NextChange :
              log[k].asset = log[NextChange].asset => lane.v >= log[k].v

\* What the mirror was told of, or ought to have been: by the pages before this one,
\* and by what has been applied of this one.
Heeded(k) == (k <= cursor \/ k > Unknown) /\ k <= Past

\* A row that is there is not older than any change the mirror was told of.
RowsOK ==
  \A a \in Asset \ stale : row[a].v # 0 =>
    \A k \in 1..Len(log) : Heeded(k) /\ log[k].asset = a => row[a].v >= log[k].v

Follows == PageOK /\ RowsOK

Sound == Types /\ Edits /\ Follows

-----------------------------------------------------------------------------
(* Facts the steps rest on.                                                *)

LEMMA LaneFacts ==
  ASSUME Types
  PROVE  /\ lane = Free <=> lane.at = "free"
         /\ lane.at = "sending" => lane \in Sending
         /\ lane.at = "answered" => lane \in Heard
         /\ lane.at = "sync" => lane \in Syncing
         /\ lane.at = "feed" => lane \in Asking
         /\ InPage => lane \in Paging
  <1>1. \/ lane = Free \/ lane \in Sending \/ lane \in Heard
        \/ lane \in Syncing \/ lane \in Asking \/ lane \in Paging
    BY DEF Types, LaneTypes
  <1>2. /\ Free.at = "free"
        /\ \A l \in Sending : l.at = "sending"
        /\ \A l \in Heard : l.at = "answered"
        /\ \A l \in Syncing : l.at = "sync"
        /\ \A l \in Asking : l.at = "feed"
        /\ \A l \in Paging : l.at \in {"apply", "write", "clear", "jump"}
    BY DEF Free, Sending, Heard, Syncing, Asking, Paging
  <1> QED BY <1>1, <1>2 DEF InPage

\* The change of a page that is applied next.
LEMMA PageFacts ==
  ASSUME Types, PageOK, InPage
  PROVE  /\ lane \in Paging /\ lane.past \in Nat /\ lane.pruned \in Nat
         /\ lane.cursor \in Nat /\ lane.v \in Nat /\ Len(log) \in Nat
         /\ lane.ids \in Seq(Nat) /\ Len(lane.ids) \in Nat /\ cursor \in Nat
         /\ (lane.ids = <<>>) <=> (Len(lane.ids) = 0)
         /\ Past = IF lane.at = "clear" THEN cursor ELSE lane.past
         /\ Unknown = lane.pruned
         /\ lane.ids # <<>> => /\ NextChange \in 1..Len(log) /\ log[NextChange] \in Change
                              /\ NextChange = lane.cursor - Len(lane.ids) + 1
  <1>1. lane \in Paging /\ cursor \in Nat /\ Len(log) \in Nat
    BY LaneFacts DEF Types, ServerTypes, MirrorTypes
  <1>2. lane.ids \in Seq(Nat) /\ (lane.ids = <<>> <=> Len(lane.ids) = 0)
    BY <1>1, EmptySeq DEF Paging
  <1>3. ASSUME lane.ids # <<>>
        PROVE  /\ NextChange \in 1..Len(log) /\ log[NextChange] \in Change
               /\ NextChange = lane.cursor - Len(lane.ids) + 1
    <2> DEFINE n == Len(lane.ids)
    <2>1. n \in Nat \ {0} /\ lane.past \in Nat /\ lane.pruned \in Nat /\ lane.cursor \in Nat
      BY <1>1, <1>2, <1>3 DEF Paging
    <2>2. /\ lane.cursor <= Len(log) /\ \A k \in 1..n : lane.ids[k] = lane.cursor - n + k
          /\ lane.cursor - n = IF lane.past > lane.pruned THEN lane.past ELSE lane.pruned
      BY <1>3 DEF PageOK
    <2> HIDE DEF n
    <2>3. 1 \in 1..n
      BY <2>1
    <2>4. NextChange = lane.cursor - n + 1
      BY <2>2, <2>3 DEF NextChange
    <2>5. lane.cursor - n \in Nat
      BY <2>1, <2>2
    <2>6. NextChange \in 1..Len(log)
      BY <1>1, <2>1, <2>2, <2>4, <2>5
    <2>7. log[NextChange] \in Change
      BY <2>6 DEF Types, ServerTypes
    <2> QED BY <2>4, <2>6, <2>7 DEF n
  <1> QED BY <1>1, <1>2, <1>3 DEF Paging, Past, Unknown, InPage

\* A server that goes on: nothing its log holds is taken back, and no asset goes back
\* to an earlier version.
ServerGrows ==
  /\ version' \in [Asset -> Nat] /\ \A a \in Asset : version[a] <= version'[a]
  /\ log' \in Seq(Change) /\ Len(log) <= Len(log')
  /\ \A k \in 1..Len(log) : log'[k] = log[k]

\* A line about a version that is there can be added to the log.
LEMMA LineAdded ==
  ASSUME ServerTypes, NEW c \in Change, log' = Append(log, c),
         version' \in [Asset -> Nat], \A a \in Asset : version[a] <= version'[a],
         c.v <= version'[c.asset]
  PROVE  /\ ServerGrows /\ log' \in Seq(Change)
         /\ \A k \in 1..Len(log') : log'[k].v <= version'[log'[k].asset]
  <1>1. /\ Len(log) \in Nat /\ Len(log') = Len(log) + 1 /\ log' \in Seq(Change)
        /\ \A k \in 1..Len(log) : log'[k] = log[k]
        /\ log'[Len(log) + 1] = c
    BY DEF ServerTypes
  <1>2. ServerGrows
    BY <1>1 DEF ServerGrows
  <1>3. ASSUME NEW k \in 1..Len(log')
        PROVE  log'[k].v <= version'[log'[k].asset]
    <2>1. CASE k = Len(log) + 1
      BY <1>1, <2>1
    <2>2. CASE k # Len(log) + 1
      <3>1. k \in 1..Len(log)
        BY <1>1, <2>2
      <3>2. log[k] \in Change /\ log[k].v <= version[log[k].asset]
        BY <3>1 DEF ServerTypes
      <3>3. log[k].asset \in Asset /\ log[k].v \in Nat
        BY <3>2 DEF Change
      <3>4. version[log[k].asset] \in Nat /\ version'[log[k].asset] \in Nat
            /\ version[log[k].asset] <= version'[log[k].asset]
        BY <3>3 DEF ServerTypes
      <3> QED BY <1>1, <3>1, <3>2, <3>3, <3>4
    <2> QED BY <2>1, <2>2
  <1> QED BY <1>1, <1>2, <1>3

\* Versions that have grown are not behind what was written of them.
LEMMA LinesStay ==
  ASSUME ServerTypes, log' = log, version' \in [Asset -> Nat],
         \A a \in Asset : version[a] <= version'[a]
  PROVE  /\ ServerGrows
         /\ \A k \in 1..Len(log') : log'[k].v <= version'[log'[k].asset]
         /\ \A l \in unlogged : l \in Update /\ l.v <= version'[l.asset]
  <1>1. ServerGrows
    BY DEF ServerTypes, ServerGrows
  <1>2. ASSUME NEW k \in 1..Len(log)
        PROVE  log[k].v <= version'[log[k].asset]
    <2>1. log[k].asset \in Asset /\ log[k].v \in Nat /\ log[k].v <= version[log[k].asset]
      <3>1. log[k] \in Change
        BY DEF ServerTypes
      <3> QED BY <3>1 DEF ServerTypes, Change
    <2>2. version[log[k].asset] \in Nat /\ version'[log[k].asset] \in Nat
      BY <2>1 DEF ServerTypes
    <2>3. version[log[k].asset] <= version'[log[k].asset]
      BY <2>1
    <2> QED BY <2>1, <2>2, <2>3
  <1>3. ASSUME NEW l \in unlogged
        PROVE  l \in Update /\ l.v <= version'[l.asset]
    <2>1. l \in Update /\ l.v <= version[l.asset]
      BY DEF ServerTypes
    <2>2. l.asset \in Asset /\ l.v \in Nat
      BY <2>1 DEF Update
    <2>3. version[l.asset] \in Nat /\ version'[l.asset] \in Nat
          /\ version[l.asset] <= version'[l.asset]
      BY <2>2 DEF ServerTypes
    <2> QED BY <2>1, <2>2, <2>3
  <1> QED BY <1>1, <1>2, <1>3

LEMMA EditFacts ==
  ASSUME ServerTypes, NEW kind \in Kind, NEW a \in Asset, NEW by \in Nat, Edit(kind, a, by)
  PROVE  ServerTypes' /\ ServerGrows
  <1>1. CASE ~Accepts(kind, a)
    BY <1>1 DEF Edit, server, ServerTypes, ServerGrows
  <1>2. CASE Accepts(kind, a)
    <2> DEFINE v == version[a] + 1
    <2>1. PICK s \in {"live", "trashed", "gone"} : state' = [state EXCEPT ![a] = s]
      BY <1>2 DEF Edit, Kind
    <2>2. state' \in [Asset -> {"live", "trashed", "gone"}] /\ floor' = floor
      BY <1>2, <2>1 DEF Edit, ServerTypes
    <2>3. /\ version' \in [Asset -> Nat] /\ \A b \in Asset : version[b] <= version'[b]
          /\ version'[a] = v /\ v \in Nat
      <3>1. version' = [version EXCEPT ![a] = v]
        BY <1>2 DEF Edit
      <3>2. version \in [Asset -> Nat] /\ v \in Nat /\ version[a] <= v
        BY DEF ServerTypes
      <3> HIDE DEF v
      <3>3. \A b \in Asset : version[b] \in Nat /\ version'[b] = IF b = a THEN v ELSE version[b]
        BY <3>1, <3>2
      <3> QED BY <3>1, <3>2, <3>3
    <2>4. CASE kind = "update"
      <3>1. unlogged' = unlogged \cup {[asset |-> a, v |-> v, by |-> by]} /\ log' = log
        BY <1>2, <2>4 DEF Edit
      <3> HIDE DEF v
      <3>2. /\ ServerGrows
            /\ \A k \in 1..Len(log') : log'[k].v <= version'[log'[k].asset]
            /\ \A l \in unlogged : l \in Update /\ l.v <= version'[l.asset]
        BY <2>3, <3>1, LinesStay
      <3>3. [asset |-> a, v |-> v, by |-> by] \in Update
        BY <2>3 DEF Update
      <3>4. \A l \in unlogged' : l \in Update /\ l.v <= version'[l.asset]
        BY <2>3, <3>1, <3>2, <3>3
      <3> QED BY <2>2, <2>3, <3>1, <3>2, <3>4 DEF ServerTypes
    <2>5. CASE kind # "update"
      <3>1. PICK op \in {"change", "delete"} : log' = Append(log, Line(a, op, v))
        BY <1>2, <2>5 DEF Edit
      <3>2. unlogged' = unlogged
        BY <1>2, <2>5 DEF Edit
      <3> HIDE DEF v
      <3>3. Line(a, op, v) \in Change /\ Line(a, op, v).v = v /\ Line(a, op, v).asset = a
        BY <2>3 DEF Line, Change
      <3>4. /\ ServerGrows /\ log' \in Seq(Change)
            /\ \A k \in 1..Len(log') : log'[k].v <= version'[log'[k].asset]
        BY <2>3, <3>1, <3>3, LineAdded
      <3>5. \A l \in unlogged : l \in Update /\ l.v <= version'[l.asset]
        <4> SUFFICES ASSUME NEW l \in unlogged
                     PROVE  l \in Update /\ l.v <= version'[l.asset]
          OBVIOUS
        <4>1. l \in Update /\ l.v <= version[l.asset] /\ l.asset \in Asset /\ l.v \in Nat
          BY DEF ServerTypes, Update
        <4>2. version[l.asset] \in Nat /\ version'[l.asset] \in Nat
              /\ version[l.asset] <= version'[l.asset]
          BY <2>3, <4>1 DEF ServerTypes
        <4> QED BY <4>1, <4>2
      <3>6. floor' \in 0..Len(log')
        BY <2>2, <3>4 DEF ServerTypes, ServerGrows
      <3> QED BY <2>2, <2>3, <3>2, <3>4, <3>5, <3>6 DEF ServerTypes
    <2> QED BY <2>4, <2>5
  <1> QED BY <1>1, <1>2

\* What is of a type stays so when the log and the table of edits have grown.
LEMMA TypesGrow ==
  ASSUME Types, ServerGrows, nextID' \in Nat, nextID <= nextID'
  PROVE  /\ Request \subseteq Request' /\ Seq(Request) \subseteq Seq(Request')
         /\ Sending \subseteq Sending' /\ Heard \subseteq Heard'
         /\ 0..Len(log) \subseteq 0..Len(log')
         /\ LaneTypes /\ lane' = lane => LaneTypes'
  <1>1. Len(log) \in Nat /\ Len(log') \in Nat /\ Len(log) <= Len(log') /\ nextID \in Nat
    BY DEF Types, ServerTypes, QueueTypes, ServerGrows
  <1>2. Request \subseteq Request' /\ 0..Len(log) \subseteq 0..Len(log')
    BY <1>1 DEF Request
  <1>3. Seq(Request) \subseteq Seq(Request')
    BY <1>2
  <1>4. Sending \subseteq Sending' /\ Heard \subseteq Heard'
    BY <1>3 DEF Sending, Heard
  <1> QED BY <1>2, <1>3, <1>4 DEF LaneTypes

LEMMA ServerStays ==
  ASSUME Types, UNCHANGED <<version, log>>
  PROVE  ServerGrows
  BY DEF Types, ServerTypes, ServerGrows

LEMMA TailFacts ==
  ASSUME NEW S, NEW s \in Seq(S), s # <<>>
  PROVE  /\ Tail(s) \in Seq(S) /\ Len(Tail(s)) = Len(s) - 1 /\ Len(s) \in Nat \ {0}
         /\ \A k \in 1..(Len(s) - 1) : Tail(s)[k] = s[k + 1]
         /\ Tail(s) # <<>> <=> Len(Tail(s)) # 0
  <1>1. Len(s) \in Nat /\ Len(s) # 0
    BY EmptySeq
  <1>2. Tail(s) \in Seq(S) /\ Len(Tail(s)) = Len(s) - 1
    BY <1>1
  <1>3. \A k \in 1..(Len(s) - 1) : Tail(s)[k] = s[k + 1]
    BY <1>1
  <1> QED BY <1>1, <1>2, <1>3, EmptySeq

-----------------------------------------------------------------------------
(* What a step that leaves a part alone keeps.                             *)

editsState == <<handled, queue, nextID, rejected>>

LEMMA EditsStay ==
  ASSUME Types, Edits, UNCHANGED <<late, editsState>>,
         lane' = lane \/ lane'.at \notin {"sending", "answered"}
  PROVE  Edits'
  <1>1. InOrder' /\ LateOK' /\ EditsAreOrderly'
    BY DEF Edits, editsState, InOrder, LateOK, EarlierHandled, EditsAreOrderly,
           EditsAreSettled, FirstInOrder
  <1>2. FirstRead' /\ OutcomeOK'
    BY DEF Edits, editsState, FirstRead, OutcomeOK
  <1> QED BY <1>1, <1>2 DEF Edits

LEMMA QueueTypesStay ==
  ASSUME Types, UNCHANGED <<late, editsState, tap>>
  PROVE  QueueTypes'
  BY DEF Types, QueueTypes, editsState, Request

LEMMA MirrorTypesStay ==
  ASSUME Types, ServerGrows, UNCHANGED <<mirror, page>>
  PROVE  MirrorTypes'
  <1>1. row' = row /\ stale' = stale /\ cursor' = cursor /\ page' = page
    BY DEF mirror
  <1>2. 0..Len(log) \subseteq 0..Len(log')
    BY DEF Types, ServerTypes, ServerGrows
  <1>3. ASSUME NEW a \in Asset, NEW v \in Nat, v <= version[a]
        PROVE  v <= version'[a]
    <2>1. version[a] \in Nat /\ version'[a] \in Nat /\ version[a] <= version'[a]
      BY DEF Types, ServerTypes, ServerGrows
    <2> QED BY <1>3, <2>1
  <1>4. \A a \in Asset : row[a].v \in Nat /\ row[a].v <= version[a]
    BY DEF Types, MirrorTypes, Mirrored
  <1>5. \A a \in Asset : row'[a].v <= version'[a]
    BY <1>1, <1>3, <1>4
  <1>6. page' # NoPage =>
          \A a \in DOMAIN page'.rows : page'.rows[a] \in Nat /\ page'.rows[a] <= version'[a]
    BY <1>1, <1>3 DEF Types, MirrorTypes
  <1> QED BY <1>1, <1>2, <1>5, <1>6 DEF Types, MirrorTypes

LEMMA LaneTypesStay ==
  ASSUME Types, ServerGrows, UNCHANGED <<nextID, lane>>
  PROVE  LaneTypes'
  <1>1. nextID' \in Nat /\ nextID <= nextID'
    BY DEF Types, QueueTypes
  <1> QED BY <1>1, TypesGrow DEF Types

\* Leaving the lane forgets how far a page had come: the cursor is behind that.
LEMMA FollowsStay ==
  ASSUME Types, Follows, ServerGrows, UNCHANGED mirror, lane' = lane \/ ~InPage'
  PROVE  Follows'
  <1>1. cursor' = cursor /\ row' = row /\ stale' = stale
        /\ cursor \in Nat /\ cursor <= Len(log)
        /\ Len(log) \in Nat /\ Len(log') \in Nat /\ Len(log) <= Len(log')
    BY DEF mirror, Types, MirrorTypes, ServerTypes, ServerGrows
  <1>2. CASE lane' = lane
    <2>1. Unknown' = Unknown /\ Past' = Past /\ (InPage' <=> InPage)
      BY <1>1, <1>2 DEF Unknown, Past, InPage
    <2>2. Past <= Len(log) /\ Past \in Nat
      <3>1. CASE ~InPage
        BY <1>1, <3>1 DEF Past, InPage
      <3>2. CASE InPage
        <4>1. lane.ids # <<>> => lane.past <= lane.cursor - Len(lane.ids)
          BY <3>2, PageFacts DEF Follows, PageOK
        <4>2. lane.ids = <<>> /\ lane.at # "clear" => lane.past <= lane.cursor
          BY <3>2, PageFacts DEF Follows, PageOK, InPage
        <4> QED BY <1>1, <3>2, <4>1, <4>2, PageFacts DEF Follows, PageOK
      <3> QED BY <3>1, <3>2
    <2>3. PageOK'
      <3>1. NextChange' = NextChange
        BY <1>2 DEF NextChange
      <3>2. ASSUME lane.at = "write"
            PROVE  /\ lane.ids # <<>> /\ lane.v <= version'[log'[NextChange].asset]
                   /\ lane.v # 0 => \A k \in 1..NextChange :
                        log'[k].asset = log'[NextChange].asset => lane.v >= log'[k].v
        <4>1. /\ lane.ids # <<>> /\ lane.v <= version[log[NextChange].asset]
              /\ lane.v # 0 => \A k \in 1..NextChange :
                   log[k].asset = log[NextChange].asset => lane.v >= log[k].v
          BY <3>2 DEF Follows, PageOK, InPage
        <4>2. /\ NextChange \in 1..Len(log) /\ log[NextChange].asset \in Asset /\ lane.v \in Nat
          BY <3>2, <4>1, PageFacts DEF Follows, InPage, Change
        <4>3. \A k \in 1..NextChange : log'[k] = log[k]
          BY <1>1, <4>2 DEF ServerGrows
        <4>4. log'[NextChange] = log[NextChange]
          BY <4>2 DEF ServerGrows
        <4> DEFINE a == log[NextChange].asset
        <4> HIDE DEF a
        <4>5. version[a] \in Nat /\ version'[a] \in Nat /\ version[a] <= version'[a]
          BY <4>2 DEF Types, ServerTypes, ServerGrows, a
        <4>6. lane.v <= version'[a]
          BY <4>1, <4>2, <4>5 DEF a
        <4> QED BY <4>1, <4>3, <4>4, <4>6 DEF a
      <3>3. /\ PageOK /\ (InPage' <=> InPage) /\ lane' = lane /\ cursor' = cursor
        BY <1>1, <1>2, <2>1 DEF Follows
      <3>4. InPage => lane.cursor <= Len(log')
        BY <1>1, <3>3, PageFacts DEF PageOK
      <3> QED BY <3>1, <3>2, <3>3, <3>4 DEF PageOK
    <2>4. RowsOK'
      BY <1>1, <2>1, <2>2 DEF Follows, RowsOK, Heeded, ServerGrows
    <2> QED BY <2>3, <2>4 DEF Follows
  <1>3. CASE ~InPage'
    <2>1. Unknown' = 0 /\ Past' = cursor /\ PageOK'
      BY <1>1, <1>3 DEF Unknown, Past, InPage, PageOK
    <2>2. \A k \in 1..Len(log') : k <= cursor => k <= Past
      <3>1. CASE ~InPage
        BY <1>1, <3>1 DEF Past, Unknown, InPage
      <3>2. CASE InPage
        BY <1>1, <3>2, PageFacts DEF Follows, PageOK
      <3> QED BY <3>1, <3>2
    <2>3. RowsOK'
      BY <1>1, <2>1, <2>2 DEF Follows, RowsOK, Heeded, ServerGrows
    <2> QED BY <2>1, <2>3 DEF Follows
  <1> QED BY <1>2, <1>3

-----------------------------------------------------------------------------
(* The server, the screens, and the lane when it is given up.              *)

LEMMA WebEditKeeps ==
  ASSUME Sound, NEW kind \in Kind, NEW a \in Asset, WebEdit(kind, a)
  PROVE  Sound'
  <1>1. /\ UNCHANGED <<late, editsState, tap, mirror, page, lane>>
        /\ Edit(kind, a, 0) /\ left' \in 0..MaxEvent
    BY MobileMirrorAssumption DEF WebEdit, intents, editsState, Event, Sound, Types
  <1>2. ServerTypes' /\ ServerGrows
    <2>1. 0 \in Nat
      OBVIOUS
    <2> QED BY <1>1, <2>1, EditFacts DEF Sound, Types
  <1>3. Types'
    BY <1>1, <1>2, QueueTypesStay, MirrorTypesStay, LaneTypesStay DEF Sound, Types, editsState
  <1>4. Edits' /\ Follows'
    BY <1>1, <1>2, EditsStay, FollowsStay DEF Sound
  <1> QED BY <1>3, <1>4 DEF Sound

\* The line of an update is written to the log, or lost.
LEMMA LineKeeps ==
  ASSUME Sound, NEW l \in unlogged, LogLine(l) \/ LineLost(l)
  PROVE  Sound'
  <1>1. /\ UNCHANGED <<state, version, floor, late, editsState, tap, mirror, page, lane>>
        /\ unlogged' = unlogged \ {l} /\ left' \in 0..MaxEvent
        /\ log' = log \/ log' = Append(log, Line(l.asset, "change", l.v))
    BY MobileMirrorAssumption DEF LogLine, LineLost, intents, editsState, Event, Sound, Types
  <1>2. /\ version' \in [Asset -> Nat] /\ \A a \in Asset : version[a] <= version'[a]
        /\ l \in Update /\ l.v <= version'[l.asset]
    BY <1>1 DEF Sound, Types, ServerTypes
  <1>3. ServerGrows /\ log' \in Seq(Change)
        /\ \A k \in 1..Len(log') : log'[k].v <= version'[log'[k].asset]
    <2>1. CASE log' = log
      BY <1>2, <2>1, LinesStay DEF Sound, Types, ServerTypes
    <2>2. CASE log' = Append(log, Line(l.asset, "change", l.v))
      <3> DEFINE c == Line(l.asset, "change", l.v)
      <3>1. c \in Change /\ c.v <= version'[c.asset]
        BY <1>2 DEF Line, Change, Update
      <3> HIDE DEF c
      <3>2. log' = Append(log, c)
        BY <2>2 DEF c
      <3> QED BY <1>2, <3>1, <3>2, LineAdded DEF Sound, Types
    <2> QED BY <1>1, <2>1, <2>2
  <1>4. ServerTypes'
    <2>1. floor' \in 0..Len(log')
      BY <1>1, <1>3 DEF Sound, Types, ServerTypes, ServerGrows
    <2>2. state' \in [Asset -> {"live", "trashed", "gone"}]
      BY <1>1 DEF Sound, Types, ServerTypes
    <2>3. unlogged' \subseteq Update /\ \A u \in unlogged' : u.v <= version'[u.asset]
      BY <1>1 DEF Sound, Types, ServerTypes
    <2> QED BY <1>2, <1>3, <2>1, <2>2, <2>3 DEF ServerTypes
  <1>5. Types'
    BY <1>1, <1>3, <1>4, QueueTypesStay, MirrorTypesStay, LaneTypesStay
       DEF Sound, Types, editsState
  <1>6. Edits' /\ Follows'
    BY <1>1, <1>3, EditsStay, FollowsStay DEF Sound
  <1> QED BY <1>5, <1>6 DEF Sound

LEMMA PruneKeeps ==
  ASSUME Sound, Prune
  PROVE  Sound'
  <1>1. /\ UNCHANGED <<state, version, unlogged, log, late, editsState, tap, mirror, page, lane>>
        /\ floor' = Len(log) - Keep /\ floor' > floor /\ left' \in 0..MaxEvent
    BY MobileMirrorAssumption DEF Prune, intents, editsState, Event, Sound, Types
  <1>2. ServerGrows
    BY <1>1, ServerStays DEF Sound
  <1>3. floor' \in 0..Len(log)
    BY <1>1, MobileMirrorAssumption DEF Sound, Types, ServerTypes
  <1>4. Types'
    <2>1. ServerTypes'
      BY <1>1, <1>3 DEF Sound, Types, ServerTypes
    <2> QED
      BY <1>1, <1>2, <2>1, QueueTypesStay, MirrorTypesStay, LaneTypesStay
         DEF Sound, Types, editsState
  <1>5. Edits' /\ Follows'
    BY <1>1, <1>2, EditsStay, FollowsStay DEF Sound
  <1> QED BY <1>4, <1>5 DEF Sound

LEMMA TapKeeps ==
  ASSUME Sound, NEW kind \in Kind, NEW a \in Asset, Tap(kind, a)
  PROVE  Sound'
  <1>1. /\ UNCHANGED <<state, version, unlogged, log, floor, late, editsState, cursor, page, lane, stale>>
        /\ tap' = [kind |-> kind, asset |-> a] /\ nextID <= MaxIntent
        /\ left' \in 0..MaxEvent
    BY MobileMirrorAssumption DEF Tap, server, intents, editsState, Event, Sound, Types
  <1>2. /\ row' \in [Asset -> Mirrored]
        /\ \A b \in Asset : row'[b].v # 0 => row'[b].v = row[b].v
    <2>1. /\ row \in [Asset -> Mirrored] /\ NoRow \in Mirrored /\ NoRow.v = 0
          /\ \A r \in Mirrored, t \in BOOLEAN :
               LET e == [r EXCEPT !.trashed = t] IN e \in Mirrored /\ e.v = r.v
      BY DEF Sound, Types, MirrorTypes, ServerTypes, NoRow, Mirrored
    <2>2. \/ \E t \in BOOLEAN : row' = [row EXCEPT ![a] = [row[a] EXCEPT !.trashed = t]]
          \/ row' = [row EXCEPT ![a] = NoRow]
          \/ row' = row
      BY DEF Tap, Kind
    <2>3. CASE \E t \in BOOLEAN : row' = [row EXCEPT ![a] = [row[a] EXCEPT !.trashed = t]]
      <3>1. PICK t \in BOOLEAN : row' = [row EXCEPT ![a] = [row[a] EXCEPT !.trashed = t]]
        BY <2>3
      <3>2. PICK e \in Mirrored : e = [row[a] EXCEPT !.trashed = t] /\ e.v = row[a].v
        BY <2>1
      <3> QED BY <2>1, <3>1, <3>2
    <2> QED BY <2>1, <2>2, <2>3
  <1>3. ServerGrows
    BY <1>1, ServerStays DEF Sound
  <1>4. Types'
    <2>1. ServerTypes'
      BY <1>1 DEF Sound, Types, ServerTypes
    <2>2. MirrorTypes'
      <3>1. \A b \in Asset : row'[b].v = 0 \/ row'[b].v = row[b].v
        BY <1>2
      <3>2. \A b \in Asset : version[b] \in Nat /\ row[b].v <= version[b]
        BY DEF Sound, Types, ServerTypes, MirrorTypes
      <3>3. \A b \in Asset : row'[b].v <= version[b]
        BY <3>1, <3>2
      <3> QED BY <1>1, <1>2, <3>3 DEF Sound, Types, MirrorTypes, Mirrored
    <2>3. QueueTypes'
      BY <1>1 DEF Sound, Types, QueueTypes, editsState, Request
    <2> QED
      BY <1>1, <1>3, <2>1, <2>2, <2>3, LaneTypesStay DEF Sound, Types, editsState
  <1>5. Edits'
    BY <1>1, EditsStay DEF Sound
  <1>6. Follows'
    <2>1. PageOK'
      BY <1>1 DEF Sound, Follows, PageOK, InPage, NextChange
    <2>2. RowsOK'
      BY <1>1, <1>2 DEF Sound, Follows, RowsOK, Heeded, Past, Unknown, InPage
    <2> QED BY <2>1, <2>2 DEF Follows
  <1> QED BY <1>4, <1>5, <1>6 DEF Sound

LEMMA EnqueueKeeps1 ==
  ASSUME Sound, Enqueue
  PROVE  Sound'
  <1> DEFINE new == [id |-> nextID, kind |-> tap.kind, asset |-> tap.asset]
  <1>1. /\ UNCHANGED <<state, version, unlogged, log, floor, late, handled, rejected, mirror, page, lane, left>>
        /\ queue' = Append(queue, new) /\ nextID' = nextID + 1 /\ tap' = NoTap /\ tap # NoTap
    BY DEF Enqueue, server
  <1>2. ServerGrows /\ nextID \in Nat /\ nextID <= MaxIntent /\ MaxIntent \in Nat
    BY <1>1, ServerStays, MobileMirrorAssumption DEF Sound, Types, QueueTypes
  <1>3. new \in Request'
    BY <1>1, <1>2 DEF Sound, Types, QueueTypes, Request
  <1>4. queue \in Seq(Request') /\ queue' \in Seq(Request')
    BY <1>1, <1>2, <1>3, TypesGrow DEF Sound, Types, QueueTypes
  <1>5. /\ Len(queue') = Len(queue) + 1 /\ Len(queue) \in Nat
        /\ queue'[Len(queue) + 1].id = nextID
        /\ \A k \in 1..Len(queue) : queue'[k] = queue[k] /\ queue[k].id < nextID
    <2>1. queue \in Seq(Request)
      BY DEF Sound, Types, QueueTypes
    <2>2. \A k \in 1..Len(queue) : queue[k].id < nextID
      <3>1. \A k \in 1..Len(queue) : queue[k] \in Request
        BY <2>1
      <3> QED BY <1>2, <3>1 DEF Request
    <2> QED BY <1>1, <1>2, <2>1, <2>2
  <1>6. Types'
    <2>1. ServerTypes' /\ MirrorTypes'
      BY <1>1, <1>2, MirrorTypesStay DEF Sound, Types, ServerTypes
    <2>2. LaneTypes'
      BY <1>1, <1>2, TypesGrow DEF Sound, Types
    <2>3. late \subseteq Request'
      BY <1>1, <1>2, TypesGrow DEF Sound, Types, QueueTypes
    <2>4. QueueTypes'
      BY <1>1, <1>2, <1>4, <2>3 DEF Sound, Types, QueueTypes
    <2> QED BY <1>1, <2>1, <2>2, <2>4 DEF Sound, Types
  <1>7. InOrder'
    <2> SUFFICES ASSUME NEW i \in 1..Len(queue'), NEW j \in 1..Len(queue'), i < j
                 PROVE  queue'[i].id < queue'[j].id
      BY DEF InOrder
    <2>1. i \in 1..Len(queue) /\ (j \in 1..Len(queue) \/ j = Len(queue) + 1)
      BY <1>5
    <2> QED BY <1>5, <2>1 DEF Sound, Edits, InOrder
  <1>8. FirstRead' /\ OutcomeOK' /\ LateOK'
    BY <1>1, <1>5 DEF Sound, Edits, FirstRead, OutcomeOK, LateOK, EarlierHandled
  <1>9. EditsAreOrderly'
    <2>1. FirstInOrder'
      BY <1>1 DEF Sound, Edits, EditsAreOrderly, FirstInOrder
    <2>2. EditsAreSettled'
      <3> SUFFICES ASSUME NEW i \in 1..nextID
                   PROVE  \/ \E k \in DOMAIN queue' : queue'[k].id = i
                          \/ handled[i] = "accepted"
                          \/ i \in rejected /\ handled[i] = "refused"
        BY <1>1, <1>2 DEF EditsAreSettled
      <3>1. DOMAIN queue = 1..Len(queue) /\ DOMAIN queue' = 1..Len(queue')
        BY <1>4 DEF Sound, Types, QueueTypes
      <3>2. CASE i = nextID
        BY <1>5, <3>1, <3>2
      <3>3. CASE i \in 1..(nextID - 1)
        BY <1>5, <3>1, <3>3 DEF Sound, Edits, EditsAreOrderly, EditsAreSettled
      <3> QED BY <1>2, <3>2, <3>3
    <2> QED BY <2>1, <2>2 DEF EditsAreOrderly
  <1>10. Follows'
    BY <1>1, <1>2, FollowsStay DEF Sound
  <1> QED BY <1>6, <1>7, <1>8, <1>9, <1>10 DEF Sound, Edits

\* A request that is given up follows nothing that the server has not met: it is
\* the first of the queue.
LEMMA FirstOfQueue ==
  ASSUME Sound, lane.at \in {"sending", "answered"}
  PROVE  /\ lane.rows \in Seq(Request) /\ lane.rows # <<>> /\ queue # <<>>
         /\ Head(lane.rows) = queue[1] /\ lane.rows[1] = queue[1] /\ queue[1] \in Request
         /\ Len(lane.rows) \in 1..Len(queue)
         /\ \A k \in 1..Len(lane.rows) : lane.rows[k] = queue[k]
         /\ queue[1].id \in Intent /\ EarlierHandled(queue[1].id)
  <1>1. lane.rows \in Seq(Request)
    BY LaneFacts DEF Sound, Sending, Heard
  <1>2. /\ Len(lane.rows) \in 1..Len(queue) /\ queue \in Seq(Request)
        /\ \A k \in 1..Len(lane.rows) : lane.rows[k] = queue[k]
    BY DEF Sound, Edits, FirstRead, Types, QueueTypes
  <1>3. /\ lane.rows # <<>> /\ queue # <<>> /\ Head(lane.rows) = queue[1]
        /\ lane.rows[1] = queue[1] /\ queue[1] \in Request
        /\ DOMAIN queue = 1..Len(queue) /\ Len(queue) \in Nat
    BY <1>1, <1>2
  <1>4. /\ nextID - 1 <= MaxIntent /\ MaxIntent \in Nat /\ nextID \in Nat
        /\ queue[1].id \in 1..(nextID - 1)
    BY <1>3, MobileMirrorAssumption DEF Sound, Types, QueueTypes, Request
  <1>5. queue[1].id \in Intent
    BY <1>4 DEF Intent
  <1>6. ASSUME NEW i \in Intent, i < queue[1].id
        PROVE  handled[i] # "no"
    <2>1. i \in 1..(nextID - 1)
      BY <1>4, <1>6 DEF Intent
    <2>2. \A k \in DOMAIN queue : queue[k].id # i
      <3>1. \A k \in 1..Len(queue) : queue[k].id \in Int /\ (k # 1 => queue[1].id < queue[k].id)
        <4>1. \A k \in 1..Len(queue) : queue[k].id \in Int
          <5>1. \A k \in 1..Len(queue) : queue[k] \in Request
            BY <1>2
          <5>2. nextID \in Nat
            BY <1>4
          <5> QED BY <5>1, <5>2 DEF Request
        <4>2. \A k \in 1..Len(queue) : k # 1 => 1 < k
          OBVIOUS
        <4> QED BY <1>2, <4>1, <4>2 DEF Sound, Edits, InOrder
      <3> QED BY <1>3, <1>4, <1>6, <2>1, <3>1
    <2> QED BY <2>1, <2>2 DEF Sound, Edits, EditsAreOrderly, EditsAreSettled
  <1> QED BY <1>1, <1>2, <1>3, <1>5, <1>6 DEF EarlierHandled

-----------------------------------------------------------------------------
(* The flush of the queue.                                                 *)

LEMMA HandleFacts ==
  ASSUME Sound, NEW m \in Request, EarlierHandled(m.id), Handle(m), late' \subseteq late,
         UNCHANGED <<queue, nextID, rejected, tap, mirror, page, left>>
  PROVE  /\ ServerTypes' /\ ServerGrows /\ QueueTypes' /\ MirrorTypes' /\ left' \in 0..MaxEvent
         /\ InOrder' /\ LateOK' /\ EditsAreOrderly'
         /\ m.id \in Intent /\ handled'[m.id] # "no"
         /\ Answer(m) = "accepted" => handled'[m.id] = "accepted"
  <1>1. /\ m.id \in 1..(nextID - 1) /\ m.kind \in Kind /\ m.asset \in Asset
        /\ nextID \in Nat /\ nextID - 1 <= MaxIntent /\ MaxIntent \in Nat
        /\ Answer(m) \in {"accepted", "refused"}
    BY MobileMirrorAssumption DEF Request, Sound, Types, QueueTypes, Answer
  <1>2. m.id \in Intent
    BY <1>1 DEF Intent
  <1>3. ServerTypes' /\ ServerGrows
    <2>1. m.id \in Nat
      BY <1>1
    <2> QED BY <1>1, <2>1, EditFacts DEF Handle, Sound, Types
  <1>4. /\ handled' \in [Intent -> {"no", "accepted", "refused"}]
        /\ \A i \in Intent : handled'[i] =
             IF i = m.id /\ handled[i] # "accepted" THEN Answer(m) ELSE handled[i]
    BY <1>1, <1>2 DEF Handle, Sound, Types, QueueTypes
  <1>5. /\ handled'[m.id] # "no"
        /\ Answer(m) = "accepted" => handled'[m.id] = "accepted"
    BY <1>1, <1>2, <1>4
  <1>6. \A i \in Intent : /\ handled[i] = "accepted" => handled'[i] = "accepted"
                          /\ handled[i] # "no" => handled'[i] # "no"
                          /\ i # m.id => handled'[i] = handled[i]
    BY <1>1, <1>4
  <1>7. QueueTypes'
    BY <1>4 DEF Sound, Types, QueueTypes, Request
  <1>8. MirrorTypes' /\ left' \in 0..MaxEvent
    BY <1>3, MirrorTypesStay DEF Sound, Types
  <1>9. InOrder' /\ LateOK'
    BY <1>6 DEF Sound, Edits, InOrder, LateOK, EarlierHandled
  <1>10. FirstInOrder'
    BY <1>6 DEF Sound, Edits, EditsAreOrderly, FirstInOrder, EarlierHandled
  <1>11. EditsAreSettled'
    <2> SUFFICES ASSUME NEW i \in 1..(nextID - 1)
                 PROVE  \/ i \in {queue[k].id : k \in DOMAIN queue}
                        \/ handled'[i] = "accepted"
                        \/ i \in rejected /\ handled'[i] = "refused"
      BY DEF EditsAreSettled
    <2>1. i \in Intent
      BY <1>1 DEF Intent
    <2>2. \/ i \in {queue[k].id : k \in DOMAIN queue}
          \/ handled[i] = "accepted"
          \/ i \in rejected /\ handled[i] = "refused"
      BY DEF Sound, Edits, EditsAreOrderly, EditsAreSettled
    <2> QED BY <1>1, <1>4, <2>1, <2>2
  <1> QED BY <1>2, <1>3, <1>5, <1>7, <1>8, <1>9, <1>10, <1>11 DEF EditsAreOrderly

LEMMA LateRequestKeeps ==
  ASSUME Sound, NEW m \in late, LateRequest(m)
  PROVE  Sound'
  <1>1. m \in Request /\ EarlierHandled(m.id)
    BY DEF Sound, Types, QueueTypes, Edits, LateOK
  <1>2. /\ Handle(m) /\ late' \subseteq late /\ lane' = lane
        /\ UNCHANGED <<queue, nextID, rejected, tap, mirror, page, left>>
    BY DEF LateRequest
  <1>3. /\ ServerTypes' /\ ServerGrows /\ QueueTypes' /\ MirrorTypes' /\ left' \in 0..MaxEvent
        /\ InOrder' /\ LateOK' /\ EditsAreOrderly'
    BY <1>1, <1>2, HandleFacts
  <1>4. LaneTypes' /\ Follows'
    BY <1>2, <1>3, LaneTypesStay, FollowsStay DEF Sound
  <1>5. FirstRead'
    BY <1>2 DEF Sound, Edits, FirstRead
  <1>6. OutcomeOK'
    <2> SUFFICES ASSUME lane.at = "answered"
                 PROVE  OutcomeOK'
      BY <1>2 DEF OutcomeOK
    <2>1. lane.rows[1].id \in Intent
      BY FirstOfQueue
    <2>2. \A i \in Intent : /\ handled[i] = "accepted" => handled'[i] = "accepted"
                            /\ handled[i] # "no" => handled'[i] # "no"
      BY <1>2 DEF Handle, Answer, Sound, Types, QueueTypes
    <2> QED BY <1>2, <2>1, <2>2 DEF Sound, Edits, OutcomeOK
  <1> QED BY <1>3, <1>4, <1>5, <1>6 DEF Sound, Types, Edits

LEMMA ServedKeeps ==
  ASSUME Sound, Served
  PROVE  Sound'
  <1> DEFINE m == Head(lane.rows)
  <1>1. /\ lane.at = "sending" /\ lane \in Sending /\ m = queue[1] /\ m \in Request
        /\ lane.rows \in Seq(Request) /\ lane.rows[1] = m /\ EarlierHandled(m.id)
        /\ Len(lane.rows) \in 1..Len(queue)
        /\ \A k \in 1..Len(lane.rows) : lane.rows[k] = queue[k]
    BY FirstOfQueue, LaneFacts DEF Served, Sound
  <1>2. /\ Handle(m) /\ late' = late /\ Answered(Answer(m))
        /\ UNCHANGED <<queue, nextID, rejected, tap, mirror, page, left>>
    BY DEF Served
  <1>3. /\ ServerTypes' /\ ServerGrows /\ QueueTypes' /\ MirrorTypes' /\ left' \in 0..MaxEvent
        /\ InOrder' /\ LateOK' /\ EditsAreOrderly'
        /\ handled'[m.id] # "no"
        /\ Answer(m) = "accepted" => handled'[m.id] = "accepted"
    BY <1>1, <1>2, HandleFacts
  <1>4. PICK outcome \in {"sent", "drop"} :
          /\ lane' = [at |-> "answered", rows |-> lane.rows, full |-> lane.full,
                      batch |-> lane.batch, outcome |-> outcome]
          /\ outcome = "sent" => Answer(m) = "accepted"
    BY <1>2 DEF Answered, Classify, Answer
  <1>5. LaneTypes'
    <2>1. lane' \in Heard
      BY <1>1, <1>4 DEF Heard, Sending
    <2>2. Heard' = Heard
      BY <1>2 DEF Heard, Request
    <2> QED BY <2>1, <2>2 DEF LaneTypes
  <1>6. FirstRead' /\ OutcomeOK'
    BY <1>1, <1>2, <1>3, <1>4 DEF FirstRead, OutcomeOK
  <1>7. Follows'
    BY <1>2, <1>3, <1>4, FollowsStay DEF Sound, InPage
  <1> QED BY <1>3, <1>5, <1>6, <1>7 DEF Sound, Types, Edits

\* What a step changes that gives up the request of the lane at most.
LEMMA GivenUp ==
  ASSUME Sound, UNCHANGED <<server, intents, mirror>>, left' \in 0..MaxEvent,
         tap' \in {tap, NoTap}, page' \in {page, NoPage},
         late' \in {late} \cup (IF lane.at = "sending" THEN {late \cup {Head(lane.rows)}}
                                ELSE {})
  PROVE  /\ ServerTypes' /\ ServerGrows /\ QueueTypes' /\ MirrorTypes' /\ left' \in 0..MaxEvent
         /\ InOrder' /\ LateOK' /\ EditsAreOrderly'
  <1>1. \A m \in late' : m \in late \/ (m \in Request /\ EarlierHandled(m.id))
    BY FirstOfQueue
  <1>2. UNCHANGED <<state, version, unlogged, log, floor, editsState, row, cursor, stale>>
    BY DEF server, intents, mirror, editsState
  <1>3. QueueTypes'
    <2>1. late' \subseteq Request
      BY <1>1 DEF Sound, Types, QueueTypes
    <2> QED BY <1>2, <2>1 DEF Sound, Types, QueueTypes, editsState, Request
  <1>4. ServerTypes' /\ ServerGrows
    BY <1>2, ServerStays DEF Sound, Types, ServerTypes
  <1>5. MirrorTypes'
    BY <1>2 DEF Sound, Types, MirrorTypes, Mirrored
  <1>6. LateOK' /\ InOrder' /\ EditsAreOrderly'
    BY <1>1, <1>2 DEF Sound, Edits, LateOK, EarlierHandled, InOrder, EditsAreOrderly,
       EditsAreSettled, FirstInOrder, editsState
  <1> QED BY <1>3, <1>4, <1>5, <1>6

LEMMA LaneGivenUp ==
  ASSUME Sound, UNCHANGED <<server, intents, mirror>>, left' \in 0..MaxEvent,
         tap' \in {tap, NoTap}, page' \in {page, NoPage}, lane' = Free,
         late' \in {late} \cup (IF lane.at = "sending" THEN {late \cup {Head(lane.rows)}}
                                ELSE {})
  PROVE  Sound'
  <1>1. /\ ServerTypes' /\ ServerGrows /\ QueueTypes' /\ MirrorTypes'
        /\ InOrder' /\ LateOK' /\ EditsAreOrderly'
    BY GivenUp
  <1>2. LaneTypes' /\ FirstRead' /\ OutcomeOK'
    BY DEF LaneTypes, Free, FirstRead, OutcomeOK
  <1>3. Follows'
    BY <1>1, FollowsStay DEF Sound, InPage, Free
  <1> QED BY <1>1, <1>2, <1>3 DEF Sound, Types, Edits

LEMMA AbortKeeps ==
  ASSUME Sound, Abort \/ Crash
  PROVE  Sound'
  <1>1. left' \in 0..MaxEvent
    BY MobileMirrorAssumption DEF Abort, Crash, Event, Sound, Types
  <1> QED BY <1>1, LaneGivenUp DEF Abort, Crash

LEMMA FailedKeeps ==
  ASSUME Sound, Failed
  PROVE  Sound'
  <1>1. /\ left' \in 0..MaxEvent /\ lane.at = "sending"
        /\ UNCHANGED <<server, intents, tap, mirror, page>>
        /\ late' \in {late, late \cup {Head(lane.rows)}}
    BY MobileMirrorAssumption DEF Failed, Event, Sound, Types
  <1>2. /\ ServerTypes' /\ ServerGrows /\ QueueTypes' /\ MirrorTypes'
        /\ InOrder' /\ LateOK' /\ EditsAreOrderly'
    BY <1>1, GivenUp
  <1>3. lane' = [at |-> "answered", rows |-> lane.rows, full |-> lane.full,
                 batch |-> lane.batch, outcome |-> "retry"]
    BY DEF Failed, Answered, Classify
  <1>4. LaneTypes'
    <2>1. lane' \in Heard
      BY <1>1, <1>3, LaneFacts DEF Heard, Sending, Sound
    <2>2. Heard' = Heard
      BY <1>1 DEF Heard, Request, intents
    <2> QED BY <2>1, <2>2 DEF LaneTypes
  <1>5. FirstRead' /\ OutcomeOK'
    BY <1>1, <1>3 DEF Sound, Edits, FirstRead, OutcomeOK, intents
  <1>6. Follows'
    BY <1>1, <1>2, <1>3, FollowsStay DEF Sound, InPage
  <1> QED BY <1>1, <1>2, <1>4, <1>5, <1>6 DEF Sound, Types, Edits

\* A lane that flushes q has its first rows in hand.
LEMMA FlushingOK ==
  ASSUME NEW q \in Seq(Request), NEW batch \in Nat
  PROVE  LET l == Flushing(q, batch) IN
         /\ l \in {Free} \cup Sending
         /\ l.at = "sending" => /\ Len(l.rows) \in 1..Len(q)
                                /\ \A k \in 1..Len(l.rows) : l.rows[k] = q[k]
         /\ l.at \notin {"answered", "apply", "write", "clear", "jump"}
  <1>1. CASE q = <<>>
    BY <1>1 DEF Flushing, Free
  <1>2. CASE q # <<>>
    <2>1. Len(q) \in Nat /\ Len(q) # 0
      BY <1>2, EmptySeq
    <2>2. PICK n \in 1..Len(q) : FirstRows(q) = SubSeq(q, 1, n)
      BY <2>1, MobileMirrorAssumption DEF FirstRows
    <2>3. /\ FirstRows(q) \in Seq(Request) /\ Len(FirstRows(q)) = n
          /\ \A k \in 1..n : FirstRows(q)[k] = q[k]
      BY <2>1, <2>2
    <2>4. Flushing(q, batch) = [at |-> "sending", rows |-> FirstRows(q),
                                full |-> Len(FirstRows(q)) = Batch, batch |-> batch]
      BY <1>2 DEF Flushing
    <2> HIDE DEF FirstRows
    <2>5. Flushing(q, batch) \in Sending
      BY <2>3, <2>4 DEF Sending
    <2> QED BY <2>3, <2>4, <2>5
  <1> QED BY <1>1, <1>2

LEMMA BeginFlushKeeps ==
  ASSUME Sound, BeginFlush
  PROVE  Sound'
  <1>1. /\ lane' = Flushing(queue, 1) /\ queue \in Seq(Request)
        /\ UNCHANGED <<state, version, unlogged, log, floor, late, editsState, tap, mirror, page, left>>
    BY DEF BeginFlush, server, intents, editsState, Sound, Types, QueueTypes
  <1>2. /\ lane' \in {Free} \cup Sending
        /\ lane'.at = "sending" => /\ Len(lane'.rows) \in 1..Len(queue)
                                   /\ \A k \in 1..Len(lane'.rows) : lane'.rows[k] = queue[k]
        /\ lane'.at \notin {"answered", "apply", "write", "clear", "jump"}
    BY <1>1, FlushingOK
  <1>3. ServerGrows /\ ServerTypes' /\ QueueTypes' /\ MirrorTypes'
    BY <1>1, ServerStays, QueueTypesStay, MirrorTypesStay DEF Sound, Types, ServerTypes
  <1>4. LaneTypes'
    <2>1. Request' = Request
      BY <1>1 DEF Request, editsState
    <2> QED BY <1>2, <2>1 DEF LaneTypes, Sending
  <1>5. InOrder' /\ LateOK' /\ EditsAreOrderly'
    BY <1>1 DEF Sound, Edits, editsState, InOrder, LateOK, EarlierHandled, EditsAreOrderly,
           EditsAreSettled, FirstInOrder
  <1>6. FirstRead' /\ OutcomeOK'
    BY <1>1, <1>2 DEF FirstRead, OutcomeOK, editsState
  <1>7. Follows'
    BY <1>1, <1>2, <1>3, FollowsStay DEF Sound, InPage
  <1> QED BY <1>1, <1>3, <1>4, <1>5, <1>6, <1>7 DEF Sound, Types, Edits

\* The row that is taken from the queue is its first one.
LEMMA WithoutFirst ==
  ASSUME Sound, lane.at = "answered"
  PROVE  LET rest == Without(Head(lane.rows)) IN
         /\ rest \in Seq(Request) /\ Len(rest) = Len(queue) - 1
         /\ \A k \in 1..Len(rest) : rest[k] = queue[k + 1]
  <1> DEFINE m == Head(lane.rows)
             same == {k \in DOMAIN queue : queue[k].id = m.id}
  <1>1. /\ queue \in Seq(Request) /\ DOMAIN queue = 1..Len(queue) /\ m = queue[1]
        /\ Len(queue) \in Nat \ {0}
    <2>1. queue \in Seq(Request) /\ queue # <<>> /\ m = queue[1]
      BY FirstOfQueue DEF Sound, Types, QueueTypes
    <2> QED BY <2>1, EmptySeq
  <1>2. \A k \in 1..Len(queue) : queue[k].id \in Int
    <2>1. \A k \in 1..Len(queue) : queue[k] \in Request
      BY <1>1
    <2> QED BY <2>1 DEF Request
  <1>3. \A k \in 1..Len(queue) : k # 1 => queue[1].id < queue[k].id
    BY <1>1 DEF Sound, Edits, InOrder
  <1>4. same = {1}
    BY <1>1, <1>2, <1>3
  <1>5. Without(m) = RemoveAt(queue, 1)
    BY <1>4 DEF Without
  <1>6. RemoveAt(queue, 1) = SubSeq(queue, 1, 0) \o SubSeq(queue, 2, Len(queue))
    BY DEF RemoveAt
  <1>7. /\ SubSeq(queue, 1, 0) = <<>> /\ SubSeq(queue, 2, Len(queue)) \in Seq(Request)
        /\ Len(SubSeq(queue, 2, Len(queue))) = Len(queue) - 1
        /\ \A k \in 1..(Len(queue) - 1) : SubSeq(queue, 2, Len(queue))[k] = queue[k + 1]
    BY <1>1
  <1>8. RemoveAt(queue, 1) = SubSeq(queue, 2, Len(queue))
    BY <1>6, <1>7
  <1> QED BY <1>5, <1>7, <1>8

LEMMA SettleKeeps ==
  ASSUME Sound, Settle
  PROVE  Sound'
  <1> DEFINE m == Head(lane.rows)
  <1>1. /\ lane.at = "answered" /\ lane \in Heard
        /\ UNCHANGED <<state, version, unlogged, log, floor, late, handled, nextID, tap, mirror, page, left>>
    BY LaneFacts DEF Settle, server, Sound
  <1>2. /\ m = queue[1] /\ m = lane.rows[1] /\ m \in Request /\ m.id \in Intent
        /\ lane.rows \in Seq(Request) /\ Len(lane.rows) \in 1..Len(queue)
        /\ \A k \in 1..Len(lane.rows) : lane.rows[k] = queue[k]
        /\ queue \in Seq(Request)
    BY <1>1, FirstOfQueue DEF Sound, Types, QueueTypes
  <1>3. ServerGrows /\ ServerTypes' /\ MirrorTypes'
    BY <1>1, ServerStays, MirrorTypesStay DEF Sound, Types, ServerTypes
  <1>4. CASE lane.outcome = "retry"
    <2>1. lane' = Free /\ UNCHANGED <<late, editsState>> /\ lane'.at = "free"
      BY <1>1, <1>4 DEF Settle, AfterRetry, editsState, Free
    <2>2. Edits' /\ QueueTypes'
      BY <1>1, <2>1, EditsStay, QueueTypesStay DEF Sound
    <2>3. LaneTypes' /\ Follows'
      BY <1>1, <1>3, <2>1, FollowsStay DEF LaneTypes, Sound, InPage
    <2> QED BY <1>1, <1>3, <2>2, <2>3 DEF Sound, Types
  <1>5. CASE lane.outcome # "retry"
    <2> DEFINE rest == Without(m)
    <2>1. /\ queue' = rest /\ lane' = NextRow(Tail(lane.rows), rest)
          /\ rejected' = IF lane.outcome = "drop" THEN rejected \cup {m.id} ELSE rejected
      BY <1>5 DEF Settle
    <2>2. /\ rest \in Seq(Request) /\ Len(rest) = Len(queue) - 1
          /\ \A k \in 1..Len(rest) : rest[k] = queue[k + 1]
      BY <1>1, WithoutFirst
    <2> HIDE DEF rest
    <2>3. /\ Tail(lane.rows) \in Seq(Request) /\ Len(Tail(lane.rows)) = Len(lane.rows) - 1
          /\ \A k \in 1..Len(Tail(lane.rows)) : Tail(lane.rows)[k] = lane.rows[k + 1]
          /\ Tail(lane.rows) # <<>> <=> Len(Tail(lane.rows)) # 0
      <3>1. lane.rows # <<>>
        BY <1>1, FirstOfQueue
      <3> QED BY <1>2, <3>1, TailFacts
    <2>4. /\ lane' \in {Free} \cup Sending
          /\ lane'.at = "sending" => /\ Len(lane'.rows) \in 1..Len(rest)
                                     /\ \A k \in 1..Len(lane'.rows) : lane'.rows[k] = rest[k]
          /\ lane'.at \notin {"answered", "apply", "write", "clear", "jump"}
      <3>1. CASE Tail(lane.rows) # <<>>
        <4>1. lane' = [at |-> "sending", rows |-> Tail(lane.rows), full |-> lane.full,
                       batch |-> lane.batch]
          BY <2>1, <3>1 DEF NextRow
        <4>2. lane' \in Sending
          BY <1>1, <2>3, <4>1 DEF Sending, Heard
        <4>3. Len(Tail(lane.rows)) \in 1..Len(rest)
          BY <1>2, <2>2, <2>3, <3>1
        <4>4. \A k \in 1..Len(Tail(lane.rows)) : Tail(lane.rows)[k] = rest[k]
          <5> SUFFICES ASSUME NEW k \in 1..Len(Tail(lane.rows))
                       PROVE  Tail(lane.rows)[k] = rest[k]
            OBVIOUS
          <5>1. k \in 1..Len(rest) /\ k + 1 \in 1..Len(lane.rows)
            BY <1>2, <2>3, <4>3
          <5> QED BY <1>2, <2>2, <2>3, <5>1
        <4> QED BY <4>1, <4>2, <4>3, <4>4
      <3>2. CASE Tail(lane.rows) = <<>>
        <4>1. lane.batch + 1 \in Nat
          BY <1>1 DEF Heard
        <4> DEFINE l == Flushing(rest, lane.batch + 1)
        <4>2. lane' = l \/ lane' = Free
          BY <2>1, <3>2 DEF NextRow
        <4>3. /\ l \in {Free} \cup Sending
              /\ l.at = "sending" => /\ Len(l.rows) \in 1..Len(rest)
                                     /\ \A k \in 1..Len(l.rows) : l.rows[k] = rest[k]
              /\ l.at \notin {"answered", "apply", "write", "clear", "jump"}
          BY <2>2, <4>1, FlushingOK
        <4> HIDE DEF l
        <4>4. Free.at = "free"
          BY DEF Free
        <4> QED BY <4>2, <4>3, <4>4
      <3> QED BY <3>1, <3>2
    <2>5. Request' = Request
      BY <1>1 DEF Request
    <2>6. LaneTypes'
      BY <2>4, <2>5 DEF LaneTypes, Sending
    <2>7. rejected' \subseteq 1..(nextID - 1) /\ rejected \subseteq rejected'
      BY <1>2, <2>1 DEF Request, Sound, Types, QueueTypes
    <2>8. QueueTypes'
      BY <1>1, <2>1, <2>2, <2>5, <2>7 DEF Sound, Types, QueueTypes
    <2>9. FirstRead' /\ OutcomeOK'
      BY <2>1, <2>4 DEF FirstRead, OutcomeOK
    <2>10. InOrder'
      BY <2>1, <2>2, <1>2 DEF Sound, Edits, InOrder
    <2>11. LateOK' /\ FirstInOrder'
      BY <1>1 DEF Sound, Edits, LateOK, EarlierHandled, EditsAreOrderly, FirstInOrder
    <2>12. EditsAreSettled'
      <3> SUFFICES ASSUME NEW i \in 1..(nextID - 1)
                   PROVE  \/ \E k \in DOMAIN rest : rest[k].id = i
                          \/ handled[i] = "accepted"
                          \/ i \in rejected' /\ handled[i] = "refused"
        BY <1>1, <2>1 DEF EditsAreSettled
      <3>1. DOMAIN rest = 1..Len(rest) /\ DOMAIN queue = 1..Len(queue) /\ Len(queue) \in Nat
        BY <1>2, <2>2
      <3>2. CASE i = m.id
        <4>1. lane.outcome \in {"sent", "drop"}
          BY <1>1, <1>5 DEF Heard
        <4>2. handled[i] \in {"no", "accepted", "refused"}
          BY <1>2, <3>2 DEF Sound, Types, QueueTypes
        <4> QED BY <1>1, <1>2, <2>1, <3>2, <4>1, <4>2 DEF Sound, Edits, OutcomeOK
      <3>3. CASE \E k \in DOMAIN queue : queue[k].id = i /\ i # m.id
        <4>1. PICK k \in 1..Len(queue) : queue[k].id = i /\ k # 1
          BY <1>2, <3>1, <3>3
        <4>2. k - 1 \in 1..Len(rest) /\ rest[k - 1] = queue[k]
          BY <2>2, <3>1, <4>1
        <4> QED BY <3>1, <4>1, <4>2
      <3> QED BY <2>7, <3>2, <3>3 DEF Sound, Edits, EditsAreOrderly, EditsAreSettled
    <2>13. Follows'
      BY <1>1, <1>3, <2>4, FollowsStay DEF Sound, InPage
    <2> QED
      BY <1>1, <1>3, <2>6, <2>8, <2>9, <2>10, <2>11, <2>12, <2>13
         DEF Sound, Types, Edits, EditsAreOrderly
  <1> QED BY <1>4, <1>5

-----------------------------------------------------------------------------
(* The catch-up with the change feed.                                      *)

LEMMA MaxExists ==
  ASSUME NEW n \in Nat, NEW S \in SUBSET (0..n), S # {}
  PROVE  Max(S) \in S /\ \A y \in S : y <= Max(S)
  <1> DEFINE T == {n - x : x \in S}
  <1>1. T \subseteq Nat /\ T # {}
    <2>1. \A x \in S : n - x \in Nat
      OBVIOUS
    <2> QED BY <2>1
  <1>2. IsWellFoundedOn(OpToRel(<,Nat), Nat)
    BY NatLessThanWellFounded
  <1>3. PICK t \in T : \A u \in T : ~(<<u, t>> \in OpToRel(<,Nat))
    BY <1>1, <1>2, WFMin
  <1>4. \A u \in T : ~(u < t)
    BY <1>1, <1>3 DEF OpToRel
  <1>5. PICK x \in S : t = n - x
    BY <1>3
  <1>6. \A y \in S : y <= x
    <2> SUFFICES ASSUME NEW y \in S PROVE y <= x
      OBVIOUS
    <2>1. ~(n - y < n - x)
      BY <1>4, <1>5
    <2> QED BY <2>1
  <1> QED BY <1>6 DEF Max

\* What the log tells of an asset up to an id is one of its lines, and no line is newer.
LEMMA ToldFacts ==
  ASSUME Types, NEW a \in Asset, NEW id \in Nat
  PROVE  /\ Told(a, id) \in Nat
         /\ Told(a, id) # 0 =>
              \E k \in 1..Len(log) : k <= id /\ log[k].asset = a /\ log[k].v = Told(a, id)
         /\ \A k \in 1..Len(log) : k <= id /\ log[k].asset = a => log[k].v <= Told(a, id)
  <1> DEFINE lines == {j \in DOMAIN log : j <= id /\ log[j].asset = a}
             S == {0} \cup {log[k].v : k \in lines}
  <1>1. DOMAIN log = 1..Len(log) /\ version[a] \in Nat
    BY DEF Types, ServerTypes
  <1>2. \A k \in lines : log[k].v \in Nat /\ log[k].v <= version[a]
    <2>1. \A k \in lines : log[k] \in Change /\ log[k].v <= version[log[k].asset]
      BY <1>1 DEF Types, ServerTypes
    <2> QED BY <2>1 DEF Change
  <1>3. S \in SUBSET (0..version[a]) /\ S # {}
    BY <1>1, <1>2
  <1>4. Max(S) \in S /\ \A y \in S : y <= Max(S)
    <2> HIDE DEF S
    <2> QED BY <1>1, <1>3, MaxExists
  <1>5. Told(a, id) = Max(S)
    BY DEF Told
  <1>6. \A k \in 1..Len(log) : k <= id /\ log[k].asset = a => log[k].v \in S
    BY <1>1
  <1>7. \A k \in lines : k \in 1..Len(log) /\ k <= id /\ log[k].asset = a
    BY <1>1
  <1>8. Max(S) = 0 \/ \E k \in lines : log[k].v = Max(S)
    BY <1>4
  <1>9. Max(S) \in Nat
    <2> HIDE DEF S
    <2>1. S \subseteq Nat
      BY <1>1, <1>3
    <2> DEFINE top == Max(S)
    <2>2. top \in S
      BY <1>4
    <2> HIDE DEF top
    <2>3. top \in Nat
      BY <2>1, <2>2
    <2> QED BY <2>3 DEF top
  <1> HIDE DEF lines, S
  <1> QED BY <1>4, <1>5, <1>6, <1>7, <1>8, <1>9

\* A page of the feed starts after the cursor, or after what is pruned.
LEMMA ListedFacts ==
  ASSUME Types
  PROVE  /\ Listed.ids \in Seq(Nat) /\ Listed.more \in BOOLEAN
         /\ Listed.cursor \in 0..Len(log) /\ Listed.cursor >= cursor
         /\ \A k \in 1..Len(Listed.ids) :
              Listed.ids[k] = Listed.cursor - Len(Listed.ids) + k
         /\ IF Listed.ids = <<>> THEN Listed.cursor = cursor
            ELSE Listed.cursor - Len(Listed.ids) = IF cursor > floor THEN cursor ELSE floor
  <1>1. /\ Len(log) \in Nat /\ floor \in 0..Len(log) /\ cursor \in 0..Len(log)
        /\ FeedPage \in Nat \ {0}
    BY MobileMirrorAssumption DEF Types, ServerTypes, MirrorTypes
  <1> DEFINE from == IF cursor > floor THEN cursor ELSE floor
             rest == Len(log) - from
             here == IF rest < FeedPage THEN rest ELSE FeedPage
             ids == [k \in 1..here |-> from + k]
  <1>2. from \in 0..Len(log) /\ rest \in Nat /\ here \in Nat /\ here <= rest /\ from >= cursor
    <2>1. from \in 0..Len(log) /\ from >= cursor
      BY <1>1
    <2> HIDE DEF from
    <2>2. rest \in Nat
      BY <1>1, <2>1
    <2> HIDE DEF rest
    <2>3. here \in Nat /\ here <= rest
      BY <1>1, <2>2
    <2> QED BY <2>1, <2>2, <2>3
  <1>3. Listed = [ids |-> ids, more |-> rest > FeedPage,
                  cursor |-> IF here = 0 THEN cursor ELSE from + here]
    BY DEF Listed
  <1>4. (rest > FeedPage) \in BOOLEAN
    OBVIOUS
  <1> HIDE DEF from, here
  <1>5. /\ ids \in Seq(Nat) /\ Len(ids) = here /\ \A k \in 1..here : ids[k] = from + k
    BY <1>2
  <1>6. ids = <<>> <=> here = 0
    BY <1>2, <1>5, EmptySeq
  <1> HIDE DEF ids
  <1>7. from + here \in 0..Len(log) /\ (from + here) - here = from
        /\ \A k \in 1..here : from + k = (from + here) - here + k
        /\ from + here >= cursor
    BY <1>1, <1>2
  <1>8. CASE here = 0
    BY <1>1, <1>3, <1>4, <1>5, <1>6, <1>8
  <1>9. CASE here # 0
    <2>1. Listed.ids = ids /\ Listed.more = (rest > FeedPage) /\ Listed.cursor = from + here
      BY <1>3, <1>9
    <2> QED BY <1>4, <1>5, <1>6, <1>7, <1>9, <2>1 DEF from
  <1> QED BY <1>8, <1>9

\* The steps of a page change nothing of the edits.
LEMMA PageSteps ==
  ASSUME Sound, UNCHANGED <<server, late, intents, tap, page, left>>,
         lane' \in {Free} \cup Syncing \cup Asking \cup Paging,
         row' \in [Asset -> Mirrored], \A a \in Asset : row'[a].v <= version[a],
         stale' \subseteq Asset, cursor' \in 0..Len(log)
  PROVE  Types' /\ Edits' /\ ServerGrows
  <1>1. UNCHANGED <<state, version, unlogged, log, floor, late, editsState, tap, page, left>>
    BY DEF server, intents, editsState
  <1>2. ServerGrows /\ ServerTypes' /\ QueueTypes'
    BY <1>1, ServerStays, QueueTypesStay DEF Sound, Types, ServerTypes
  <1>3. MirrorTypes'
    BY <1>1 DEF Sound, Types, MirrorTypes, Mirrored
  <1>4. LaneTypes'
    BY DEF LaneTypes
  <1>5. Edits'
    BY <1>1, EditsStay DEF Sound, Free, Syncing, Asking, Paging
  <1> QED BY <1>1, <1>2, <1>3, <1>4, <1>5 DEF Sound, Types

LEMMA GetFeedKeeps ==
  ASSUME Sound, GetFeed
  PROVE  Sound'
  <1>1. /\ ~InPage /\ UNCHANGED <<server, late, intents, tap, mirror, page, left>>
        /\ lane = Free \/ lane \in Syncing
    BY LaneFacts DEF GetFeed, InPage, Free, Sound
  <1>2. PICK pages \in Nat : lane' = [at |-> "feed", pages |-> pages, floor |-> floor]
    BY <1>1 DEF GetFeed, Syncing
  <1>3. lane' \in Asking /\ ~InPage'
    BY <1>2 DEF Asking, InPage, Sound, Types, ServerTypes
  <1>4. /\ row' \in [Asset -> Mirrored] /\ \A a \in Asset : row'[a].v <= version[a]
        /\ stale' \subseteq Asset /\ cursor' \in 0..Len(log)
    BY <1>1 DEF Sound, Types, MirrorTypes, mirror
  <1>5. Types' /\ Edits' /\ ServerGrows
    BY <1>1, <1>3, <1>4, PageSteps
  <1>6. Follows'
    BY <1>1, <1>3, <1>5, FollowsStay DEF Sound
  <1> QED BY <1>5, <1>6 DEF Sound

LEMMA ListFeedKeeps ==
  ASSUME Sound, ListFeed
  PROVE  Sound'
  <1>1. /\ lane.at = "feed" /\ lane \in Asking /\ lane.floor \in Nat /\ lane.pages \in Nat
        /\ ~InPage /\ UNCHANGED <<server, late, intents, tap, mirror, page, left>>
    BY LaneFacts DEF ListFeed, InPage, Asking, Sound
  <1>2. /\ Len(log) \in Nat /\ floor \in 0..Len(log) /\ cursor \in 0..Len(log)
        /\ row \in [Asset -> Mirrored] /\ \A a \in Asset : row[a].v <= version[a]
        /\ stale \subseteq Asset
    BY DEF Sound, Types, ServerTypes, MirrorTypes
  <1>3. UNCHANGED <<version, log, floor, row, cursor, stale>>
    BY <1>1 DEF server, mirror
  <1> DEFINE resets == Resets \/ cursor > Len(log)
  <1>4. CASE resets
    <2>1. lane' = [at |-> "clear", pages |-> lane.pages, ids |-> <<>>, cursor |-> Len(log),
                   more |-> FALSE, past |-> cursor, pruned |-> 0, v |-> 0]
      BY <1>4 DEF ListFeed, AfterReset
    <2>2. lane' \in Paging /\ <<>> \in Seq(Nat)
      BY <1>1, <1>2, <2>1, EmptySeq DEF Paging
    <2>3. \A k \in 1..Len(<<>>) : FALSE
      OBVIOUS
    <2>4. PageOK'
      BY <1>2, <1>3, <2>1, <2>3 DEF PageOK, InPage
    <2>5. Past' = cursor /\ Unknown' = 0
      BY <1>3, <2>1 DEF Past, Unknown, InPage
    <2> QED
      BY <1>1, <1>2, <1>3, <2>2, <2>4, <2>5, PageSteps
         DEF Sound, Follows, RowsOK, Heeded, Past, Unknown, InPage
  <1>5. CASE ~resets
    <2> DEFINE ids == Listed.ids
               end == Listed.cursor
               more == Listed.more
    <2>1. /\ ids \in Seq(Nat) /\ more \in BOOLEAN /\ end \in 0..Len(log) /\ end >= cursor
          /\ \A k \in 1..Len(ids) : ids[k] = end - Len(ids) + k
          /\ IF ids = <<>> THEN end = cursor
             ELSE end - Len(ids) = IF cursor > floor THEN cursor ELSE floor
      BY ListedFacts DEF Sound
    <2>2. cursor = 0 \/ lane.floor <= cursor
      BY <1>1, <1>2, <1>5 DEF Resets
    <2>3. lane' = [at |-> "apply", pages |-> lane.pages, ids |-> ids, cursor |-> end,
                   more |-> more, past |-> cursor, pruned |-> floor, v |-> 0]
      BY <1>5, <2>2 DEF ListFeed
    <2> HIDE DEF ids, end, more
    <2>4. lane' \in Paging
      BY <1>1, <1>2, <2>1, <2>3 DEF Paging
    <2>5. PageOK'
      BY <1>2, <1>3, <2>1, <2>3 DEF PageOK, InPage
    <2>6. Past' = cursor /\ Past = cursor /\ Unknown' = floor
      BY <1>1, <1>3, <2>3 DEF Past, Unknown, InPage
    <2>7. Types' /\ Edits'
      BY <1>1, <1>2, <1>3, <2>4, PageSteps
    <2>8. RowsOK'
      <3> SUFFICES ASSUME NEW a \in Asset \ stale, row[a].v # 0, NEW k \in 1..Len(log),
                          k <= cursor, log[k].asset = a
                   PROVE  row[a].v >= log[k].v
        BY <1>3, <2>6 DEF RowsOK, Heeded
      <3> QED BY <2>6 DEF Sound, Follows, RowsOK, Heeded
    <2> QED BY <2>5, <2>7, <2>8 DEF Sound, Follows
  <1> QED BY <1>4, <1>5

\* A change that is applied is the next one.
LEMMA AppliedFacts ==
  ASSUME Sound, lane.at \in {"apply", "write"}, lane.ids # <<>>, lane' = Applied,
         UNCHANGED <<log, cursor>>
  PROVE  /\ lane' \in Paging /\ PageOK' /\ NextChange \in 1..Len(log)
         /\ log[NextChange].asset \in Asset
         /\ Unknown' = Unknown /\ Past' = NextChange
         /\ \A k \in Nat : Heeded(k)' => Heeded(k) \/ k = NextChange
  <1> DEFINE ids == lane.ids
             n == Len(lane.ids)
  <1>1. /\ lane \in Paging /\ lane.past \in Nat /\ lane.pruned \in Nat
        /\ lane.cursor \in Nat /\ lane.v \in Nat /\ Len(log) \in Nat
        /\ ids \in Seq(Nat) /\ n \in Nat /\ n # 0 /\ cursor \in Nat
        /\ Past = lane.past /\ Unknown = lane.pruned
        /\ NextChange = lane.cursor - n + 1 /\ NextChange \in 1..Len(log)
        /\ log[NextChange] \in Change
    BY PageFacts DEF Sound, Follows, InPage
  <1>2. /\ lane.past >= cursor /\ lane.cursor >= cursor /\ lane.cursor <= Len(log)
        /\ \A k \in 1..n : ids[k] = lane.cursor - n + k
        /\ lane.cursor - n = IF lane.past > lane.pruned THEN lane.past ELSE lane.pruned
    BY DEF Sound, Follows, PageOK, InPage
  <1>3. NextChange \in Nat
    BY <1>1
  <1>4. /\ Tail(ids) \in Seq(Nat) /\ Len(Tail(ids)) = n - 1
        /\ \A k \in 1..(n - 1) : Tail(ids)[k] = ids[k + 1]
        /\ Tail(ids) # <<>> <=> n - 1 # 0
    BY <1>1, TailFacts
  <1>5. /\ lane' = [lane EXCEPT !.at = "apply", !.ids = Tail(ids), !.past = NextChange]
    BY DEF Applied
  <1>6. /\ lane' \in Paging /\ lane'.at = "apply" /\ lane'.ids = Tail(ids)
        /\ lane'.past = NextChange /\ lane'.cursor = lane.cursor /\ lane'.pruned = lane.pruned
    BY <1>1, <1>3, <1>4, <1>5 DEF Paging
  <1>7. \A k \in 1..(n - 1) : Tail(ids)[k] = lane.cursor - (n - 1) + k
    <2> SUFFICES ASSUME NEW k \in 1..(n - 1)
                 PROVE  Tail(ids)[k] = lane.cursor - (n - 1) + k
      OBVIOUS
    <2>1. k + 1 \in 1..n
      BY <1>1
    <2>2. Tail(ids)[k] = lane.cursor - n + (k + 1)
      BY <1>2, <1>4, <2>1
    <2>3. \A c, m \in Nat : c - m + (k + 1) = c - (m - 1) + k
      BY <1>1
    <2> QED BY <1>1, <2>2, <2>3
  <1>8. PageOK'
    <2>1. NextChange >= cursor /\ NextChange > lane.past /\ NextChange > lane.pruned
      <3> HIDE DEF n
      <3>1. \/ NextChange = lane.past + 1 /\ lane.past > lane.pruned
            \/ NextChange = lane.pruned + 1 /\ lane.past <= lane.pruned
        BY <1>1, <1>2, <1>3, SMTT(40)
      <3> QED BY <1>1, <1>2, <3>1, SMTT(40)
    <2>2. Tail(ids) = <<>> => NextChange = lane.cursor
      <3>1. \A c, m \in Nat : m - 1 = 0 => c - m + 1 = c
        OBVIOUS
      <3> QED BY <1>1, <1>3, <1>4, <3>1
    <2>3. lane.cursor - (n - 1) = NextChange
      BY <1>1, <1>3
    <2> QED BY <1>1, <1>2, <1>4, <1>6, <1>7, <2>1, <2>2, <2>3 DEF PageOK, InPage
  <1>9. Unknown' = lane.pruned /\ Past' = NextChange
    BY <1>6 DEF Unknown, Past, InPage
  <1>10. ASSUME NEW k \in Nat, Heeded(k)', k # NextChange
         PROVE  Heeded(k)
    <2>1. (k <= cursor \/ k > lane.pruned) /\ k <= NextChange
      BY <1>9, <1>10 DEF Heeded
    <2>2. k <= lane.past
      <3> HIDE DEF n
      <3>1. \/ NextChange = lane.past + 1
            \/ NextChange = lane.pruned + 1 /\ lane.past <= lane.pruned
        BY <1>1, <1>2, SMTT(40)
      <3> QED BY <1>1, <1>2, <1>3, <1>10, <2>1, <3>1, SMTT(40)
    <2> QED BY <1>1, <2>1, <2>2 DEF Heeded
  <1>11. log[NextChange].asset \in Asset
    BY <1>1 DEF Change
  <1> QED BY <1>1, <1>6, <1>8, <1>9, <1>10, <1>11

\* Applying a change: the row of its asset becomes one that is not older.
LEMMA ApplyKeeps ==
  ASSUME Sound, lane.at \in {"apply", "write"}, lane.ids # <<>>, lane' = Applied,
         NEW a \in Asset, a = log[NextChange].asset,
         NEW r \in Mirrored, r.v <= version[a],
         r.v # 0 => \A k \in 1..NextChange : log[k].asset = a => r.v >= log[k].v,
         row' = [row EXCEPT ![a] = r], stale' = stale \ {a},
         UNCHANGED <<server, late, intents, tap, cursor, page, left>>
  PROVE  Sound'
  <1>1. log' = log /\ cursor' = cursor
    BY DEF server
  <1>2. /\ lane' \in Paging /\ PageOK' /\ NextChange \in 1..Len(log)
        /\ Unknown' = Unknown /\ Past' = NextChange
        /\ \A k \in Nat : Heeded(k)' => Heeded(k) \/ k = NextChange
    BY <1>1, AppliedFacts
  <1>3. /\ row \in [Asset -> Mirrored] /\ stale \subseteq Asset /\ cursor \in 0..Len(log)
        /\ Len(log) \in Nat /\ \A b \in Asset : row[b].v <= version[b]
    BY DEF Sound, Types, ServerTypes, MirrorTypes
  <1>4. /\ row' \in [Asset -> Mirrored]
        /\ \A b \in Asset : row'[b] = IF b = a THEN r ELSE row[b]
        /\ \A b \in Asset : row'[b].v <= version[b]
    BY <1>3
  <1>5. Types' /\ Edits'
    BY <1>1, <1>2, <1>3, <1>4, PageSteps
  <1>6. RowsOK'
    <2> SUFFICES ASSUME NEW b \in Asset \ stale', row'[b].v # 0, NEW k \in 1..Len(log),
                        Heeded(k)', log[k].asset = b
                 PROVE  row'[b].v >= log[k].v
      BY <1>1 DEF RowsOK
    <2>1. CASE b = a
      <3>1. k \in 1..NextChange
        BY <1>2 DEF Heeded
      <3> QED BY <1>4, <2>1, <3>1
    <2>2. CASE b # a
      <3>1. Heeded(k)
        BY <1>2, <2>2
      <3> QED BY <1>4, <2>2, <3>1 DEF Sound, Follows, RowsOK
    <2> QED BY <2>1, <2>2
  <1> QED BY <1>2, <1>5, <1>6 DEF Sound, Follows

LEMMA RemoveRowKeeps ==
  ASSUME Sound, RemoveRow
  PROVE  Sound'
  <1>1. /\ lane.at = "apply" /\ lane.ids # <<>> /\ lane' = Applied
        /\ row' = [row EXCEPT ![log[NextChange].asset] = NoRow]
        /\ stale' = stale \ {log[NextChange].asset}
        /\ UNCHANGED <<server, late, intents, tap, cursor, page, left>>
    BY DEF RemoveRow
  <1>2. log[NextChange].asset \in Asset
    BY <1>1, AppliedFacts DEF server
  <1>3. NoRow \in Mirrored /\ NoRow.v = 0 /\ NoRow.v <= version[log[NextChange].asset]
    BY <1>2 DEF NoRow, Mirrored, Sound, Types, ServerTypes
  <1> QED BY <1>1, <1>2, <1>3, ApplyKeeps

LEMMA FetchAssetKeeps ==
  ASSUME Sound, FetchAsset
  PROVE  Sound'
  <1> DEFINE a == log[NextChange].asset
  <1>1. /\ lane.at = "apply" /\ lane.ids # <<>>
        /\ UNCHANGED <<server, late, intents, tap, mirror, page, left>>
    BY DEF FetchAsset
  <1>2. PICK v \in {0, version[a]} : lane' = [lane EXCEPT !.at = "write", !.v = v]
    BY DEF FetchAsset
  <1>3. /\ lane \in Paging /\ Len(log) \in Nat /\ lane.past \in Nat /\ lane.cursor \in Nat
        /\ lane.ids \in Seq(Nat) /\ NextChange \in 1..Len(log) /\ log[NextChange] \in Change
    BY <1>1, PageFacts DEF Sound, Follows, InPage
  <1>4. a \in Asset /\ version[a] \in Nat
    BY <1>3 DEF Change, Sound, Types, ServerTypes
  <1>5. \A k \in 1..NextChange : log[k].asset = a => version[a] >= log[k].v
    <2>1. \A k \in 1..NextChange : log[k] \in Change /\ log[k].v <= version[log[k].asset]
      <3>1. \A k \in 1..NextChange : k \in 1..Len(log)
        BY <1>3
      <3> QED BY <3>1 DEF Sound, Types, ServerTypes
    <2> QED BY <1>4, <2>1 DEF Change
  <1> HIDE DEF a
  <1>6. /\ v \in Nat /\ v <= version[a]
        /\ v # 0 => \A k \in 1..NextChange : log[k].asset = a => v >= log[k].v
    BY <1>4, <1>5
  <1>7. lane' \in Paging /\ lane'.at = "write" /\ lane'.v = v /\ lane'.ids = lane.ids
        /\ lane'.past = lane.past /\ lane'.cursor = lane.cursor /\ lane'.pruned = lane.pruned
    BY <1>2, <1>3, <1>6 DEF Paging
  <1>8. /\ row \in [Asset -> Mirrored] /\ stale \subseteq Asset /\ cursor \in 0..Len(log)
        /\ \A b \in Asset : row[b].v <= version[b]
        /\ UNCHANGED <<version, log, row, cursor, stale>>
    BY <1>1 DEF Sound, Types, MirrorTypes, server, mirror
  <1>9. Types' /\ Edits'
    BY <1>1, <1>7, <1>8, PageSteps
  <1>10. PageOK'
    <2>1. NextChange' = NextChange
      BY <1>7 DEF NextChange
    <2>2. /\ lane'.v <= version'[log'[NextChange].asset]
          /\ lane'.v # 0 => \A k \in 1..NextChange :
               log'[k].asset = log'[NextChange].asset => lane'.v >= log'[k].v
      BY <1>6, <1>7, <1>8 DEF a
    <2>3. PageOK /\ InPage /\ InPage' /\ cursor' = cursor /\ log' = log
      BY <1>1, <1>7, <1>8 DEF Sound, Follows, InPage
    <2>4. /\ lane.past >= cursor /\ lane.cursor >= cursor /\ lane.cursor <= Len(log)
          /\ \A k \in 1..Len(lane.ids) : lane.ids[k] = lane.cursor - Len(lane.ids) + k
          /\ lane.cursor - Len(lane.ids) = IF lane.past > lane.pruned THEN lane.past
                                                                     ELSE lane.pruned
      BY <1>1, <2>3 DEF PageOK
    <2>5. /\ lane'.past >= cursor' /\ lane'.cursor >= cursor' /\ lane'.cursor <= Len(log')
          /\ \A k \in 1..Len(lane'.ids) : lane'.ids[k] = lane'.cursor - Len(lane'.ids) + k
          /\ lane'.cursor - Len(lane'.ids) = IF lane'.past > lane'.pruned THEN lane'.past
                                                                        ELSE lane'.pruned
      BY <1>7, <2>3, <2>4
    <2>6. lane'.ids # <<>> /\ lane'.at = "write"
      BY <1>1, <1>7
    <2> QED BY <2>1, <2>2, <2>5, <2>6 DEF PageOK
  <1>11. Past' = Past /\ Unknown' = Unknown
    BY <1>1, <1>7 DEF Past, Unknown, InPage
  <1>12. RowsOK'
    BY <1>8, <1>11 DEF Sound, Follows, RowsOK, Heeded
  <1> QED BY <1>9, <1>10, <1>12 DEF Sound, Follows

LEMMA WriteRowKeeps ==
  ASSUME Sound, WriteRow
  PROVE  Sound'
  <1> DEFINE a == log[NextChange].asset
             r == Upsert(a, lane.v)
  <1>1. /\ lane.at = "write" /\ lane' = Applied
        /\ row' = [row EXCEPT ![a] = r] /\ stale' = stale \ {a}
        /\ UNCHANGED <<server, late, intents, tap, cursor, page, left>>
    BY DEF WriteRow
  <1>2. /\ lane.ids # <<>> /\ lane.v <= version[a]
        /\ lane.v # 0 => \A k \in 1..NextChange : log[k].asset = a => lane.v >= log[k].v
    BY <1>1 DEF Sound, Follows, PageOK, InPage
  <1>3. a \in Asset
    BY <1>1, <1>2, AppliedFacts DEF server
  <1>4. lane.v \in Nat /\ Len(log) \in Nat
    BY <1>1, PageFacts DEF Sound, Follows, InPage
  <1>5. row[a] \in Mirrored /\ version[a] \in Nat
    BY <1>3 DEF Sound, Types, ServerTypes, MirrorTypes
  <1> HIDE DEF a
  <1>6. r \in Mirrored /\ (r.v = lane.v \/ (r.v = 0 /\ lane.v = 0))
    BY <1>4, <1>5 DEF Upsert, NoRow, Mirrored
  <1>7. /\ r.v <= version[a]
        /\ r.v # 0 => \A k \in 1..NextChange : log[k].asset = a => r.v >= log[k].v
    BY <1>2, <1>6
  <1> HIDE DEF r
  <1> QED BY <1>1, <1>2, <1>3, <1>6, <1>7, ApplyKeeps DEF a

\* The cursor that is stored is what the mirror has been brought to; what the page knew
\* nothing of is written off.
LEMMA SaveCursorKeeps ==
  ASSUME Sound, SaveCursor
  PROVE  Sound'
  <1>1. /\ InPage /\ lane.at # "clear" /\ cursor' = lane.cursor
        /\ stale' = stale \cup {a \in Asset : row[a].v # 0
                                               /\ row[a].v < Told(a, lane.pruned)}
        /\ UNCHANGED <<server, late, intents, tap, row, page, left>>
    BY DEF SaveCursor, InPage
  <1>2. /\ lane \in Paging /\ lane.past = lane.cursor /\ lane.cursor \in 0..Len(log)
        /\ lane.pruned \in Nat /\ Len(log) \in Nat /\ Past = lane.past /\ Unknown = lane.pruned
    BY <1>1, PageFacts DEF Sound, Follows, PageOK, InPage, SaveCursor
  <1>3. lane' \in {Free} \cup Syncing
    BY <1>2 DEF SaveCursor, Syncing, Paging
  <1>4. /\ row \in [Asset -> Mirrored] /\ stale' \subseteq Asset /\ log' = log /\ row' = row
        /\ \A a \in Asset : row[a].v <= version[a]
    BY <1>1 DEF Sound, Types, MirrorTypes, server
  <1>5. Types' /\ Edits'
    BY <1>1, <1>2, <1>3, <1>4, PageSteps
  <1>6. ~InPage' /\ PageOK' /\ Past' = lane.cursor /\ Unknown' = 0
    BY <1>1, <1>3 DEF InPage, PageOK, Past, Unknown, Free, Syncing
  <1>7. RowsOK'
    <2> SUFFICES ASSUME NEW a \in Asset \ stale', row[a].v # 0, NEW k \in 1..Len(log),
                        k <= lane.cursor, log[k].asset = a
                 PROVE  row[a].v >= log[k].v
      BY <1>4, <1>6 DEF RowsOK, Heeded
    <2>1. CASE k > lane.pruned
      <3>1. Heeded(k)
        BY <1>2, <2>1 DEF Heeded
      <3> QED BY <1>1, <3>1 DEF Sound, Follows, RowsOK
    <2>2. CASE k <= lane.pruned
      <3>1. log[k].v <= Told(a, lane.pruned) /\ Told(a, lane.pruned) \in Nat
        BY <1>2, <2>2, ToldFacts DEF Sound
      <3>2. row[a].v \in Nat
        BY <1>4 DEF Mirrored
      <3>3. row[a].v >= Told(a, lane.pruned)
        BY <1>1, <3>1, <3>2
      <3>4. log[k].v \in Nat
        <4>1. log[k] \in Change
          BY DEF Sound, Types, ServerTypes
        <4> QED BY <4>1 DEF Change
      <3> QED BY <3>1, <3>2, <3>3, <3>4
    <2> QED BY <1>2, <2>1, <2>2
  <1> QED BY <1>5, <1>6, <1>7 DEF Sound, Follows

LEMMA ClearRowsKeeps ==
  ASSUME Sound, ClearRows
  PROVE  Sound'
  <1>1. /\ lane.at = "clear" /\ row' = [a \in Asset |-> NoRow] /\ stale' = {}
        /\ lane' = [lane EXCEPT !.at = "jump", !.past = lane.cursor]
        /\ UNCHANGED <<server, late, intents, tap, cursor, page, left>>
    BY DEF ClearRows
  <1>2. /\ lane \in Paging /\ lane.cursor \in Nat /\ cursor \in 0..Len(log)
        /\ Len(log) \in Nat /\ lane.pruned = 0 /\ lane.ids = <<>> /\ lane.cursor <= Len(log)
    BY <1>1, PageFacts DEF Sound, Follows, PageOK, InPage, Types, MirrorTypes
  <1>3. /\ lane' \in Paging /\ lane'.at = "jump" /\ lane'.ids = <<>>
        /\ lane'.past = lane.cursor /\ lane'.cursor = lane.cursor /\ lane'.pruned = 0
    BY <1>1, <1>2 DEF Paging
  <1>4. NoRow \in Mirrored /\ NoRow.v = 0
    BY <1>2 DEF NoRow, Mirrored
  <1>5. /\ row' \in [Asset -> Mirrored] /\ stale' \subseteq Asset /\ log' = log
        /\ cursor' = cursor /\ \A a \in Asset : row'[a].v <= version[a]
    BY <1>1, <1>4 DEF server, Sound, Types, ServerTypes
  <1>6. Types' /\ Edits'
    BY <1>1, <1>2, <1>3, <1>5, PageSteps
  <1>7. RowsOK'
    BY <1>1, <1>4 DEF RowsOK
  <1>8. PageOK'
    <2>1. \A k \in 1..Len(<<>>) : FALSE
      OBVIOUS
    <2>2. lane.cursor >= cursor
      BY <1>1, <1>2 DEF Sound, Follows, PageOK, InPage
    <2> QED BY <1>2, <1>3, <1>5, <2>1, <2>2 DEF PageOK, InPage
  <1> QED BY <1>6, <1>7, <1>8 DEF Sound, Follows

-----------------------------------------------------------------------------
(* Pages that the screens read.                                            *)

LEMMA ReadPageKeeps ==
  ASSUME Sound, NEW kind \in {"library", "trash"}, ReadPage(kind)
  PROVE  Sound'
  <1> DEFINE here == {a \in Asset : state[a] = IF kind = "library" THEN "live" ELSE "trashed"}
  <1>1. /\ page' = [kind |-> kind, rows |-> [a \in here |-> version[a]]]
        /\ UNCHANGED <<state, version, unlogged, log, floor, late, editsState, tap, mirror, lane>>
        /\ left' \in 0..MaxEvent
    BY MobileMirrorAssumption DEF ReadPage, server, intents, editsState, Event, Sound, Types
  <1>2. \A a \in here : version[a] \in Nat
    BY DEF Sound, Types, ServerTypes
  <1>3. ServerGrows /\ ServerTypes' /\ QueueTypes' /\ LaneTypes'
    BY <1>1, ServerStays, QueueTypesStay, LaneTypesStay DEF Sound, Types, ServerTypes, editsState
  <1>4. MirrorTypes'
    <2>1. row \in [Asset -> Mirrored] /\ stale \subseteq Asset /\ cursor \in 0..Len(log)
          /\ UNCHANGED <<row, stale, cursor, version, log>>
          /\ \A a \in Asset : row[a].v <= version[a]
      BY <1>1 DEF Sound, Types, MirrorTypes, mirror
    <2>2. page'.kind \in {"library", "trash"} /\ DOMAIN page'.rows \subseteq Asset
      BY <1>1
    <2>3. \A a \in DOMAIN page'.rows : page'.rows[a] \in Nat /\ page'.rows[a] <= version[a]
      BY <1>1, <1>2
    <2> QED BY <2>1, <2>2, <2>3 DEF MirrorTypes, Mirrored
  <1>5. Edits' /\ Follows'
    BY <1>1, <1>3, EditsStay, FollowsStay DEF Sound
  <1> QED BY <1>1, <1>3, <1>4, <1>5 DEF Sound, Types

LEMMA MirrorPageKeeps ==
  ASSUME Sound, MirrorPage
  PROVE  Sound'
  <1> DEFINE here == DOMAIN page.rows
             older == {a \in here : page.rows[a] < Told(a, Past)}
  <1>1. /\ page # NoPage /\ page' = NoPage /\ stale' = (stale \ here) \cup older
        /\ row' = [a \in Asset |->
                     IF a \notin here THEN row[a]
                     ELSE [v |-> page.rows[a],
                           trashed |-> row[a].trashed \/ page.kind = "trash"]]
        /\ UNCHANGED <<state, version, unlogged, log, floor, late, editsState, tap, cursor, lane, left>>
    BY DEF MirrorPage, server, intents, editsState
  <1>2. /\ here \subseteq Asset
        /\ \A a \in here : page.rows[a] \in Nat /\ page.rows[a] <= version[a]
        /\ \A a \in Asset : row[a].v <= version[a]
        /\ row \in [Asset -> Mirrored] /\ stale \subseteq Asset /\ cursor \in 0..Len(log)
        /\ Len(log) \in Nat
    BY <1>1 DEF Sound, Types, ServerTypes, MirrorTypes
  <1> HIDE DEF here
  <1>3. row' \in [Asset -> Mirrored]
    <2>1. ASSUME NEW a \in here
          PROVE  [v |-> page.rows[a], trashed |-> row[a].trashed \/ page.kind = "trash"]
                    \in Mirrored
      <3>1. (row[a].trashed \/ page.kind = "trash") \in BOOLEAN
        OBVIOUS
      <3> QED BY <1>2, <3>1 DEF Mirrored
    <2> QED BY <1>1, <1>2, <2>1
  <1>4. stale' \subseteq Asset
    BY <1>1, <1>2
  <1>5. ServerGrows /\ ServerTypes' /\ QueueTypes' /\ LaneTypes'
    BY <1>1, ServerStays, QueueTypesStay, LaneTypesStay DEF Sound, Types, ServerTypes, editsState
  <1>6. MirrorTypes'
    <2>1. \A a \in Asset : row'[a].v <= version[a]
      BY <1>1, <1>2
    <2> QED BY <1>1, <1>2, <1>3, <1>4, <2>1 DEF MirrorTypes
  <1>7. Edits'
    BY <1>1, EditsStay DEF Sound
  <1>8. PageOK'
    BY <1>1 DEF Sound, Follows, PageOK, InPage, NextChange
  <1>9. Past \in Nat /\ Past' = Past /\ Unknown' = Unknown
    <2>1. CASE InPage
      BY <1>1, <1>2, <2>1, PageFacts DEF Sound, Follows, Past, Unknown, InPage
    <2>2. CASE ~InPage
      BY <1>1, <1>2, <2>2 DEF Past, Unknown, InPage
    <2> QED BY <2>1, <2>2
  <1>10. RowsOK'
    <2> SUFFICES ASSUME NEW a \in Asset \ stale', row'[a].v # 0, NEW k \in 1..Len(log),
                        Heeded(k), log[k].asset = a
                 PROVE  row'[a].v >= log[k].v
      BY <1>1, <1>9 DEF RowsOK, Heeded
    <2>1. CASE a \in here
      <3>1. row'[a].v = page.rows[a] /\ ~(page.rows[a] < Told(a, Past))
        BY <1>1, <2>1
      <3>2. log[k].v <= Told(a, Past) /\ Told(a, Past) \in Nat
        BY <1>2, <1>9, ToldFacts DEF Sound, Heeded
      <3>3. page.rows[a] \in Nat
        BY <1>2, <2>1
      <3>4. log[k].v \in Nat
        <4>1. log[k] \in Change
          BY DEF Sound, Types, ServerTypes
        <4> QED BY <4>1 DEF Change
      <3> QED BY <3>1, <3>2, <3>3, <3>4
    <2>2. CASE a \notin here
      BY <1>1, <2>2 DEF Sound, Follows, RowsOK
    <2> QED BY <2>1, <2>2
  <1> QED BY <1>1, <1>5, <1>6, <1>7, <1>8, <1>10 DEF Sound, Types, Follows

-----------------------------------------------------------------------------
(* The theorems.                                                           *)

\* The order in which the first assets were imported is one of all of them.
LEMMA OrderFacts ==
  LET n == Cardinality(Asset)
      order == SetToSeq(Asset)
  IN /\ n \in Nat /\ order \in [1..n -> Asset]
     /\ \A i, j \in 1..n : order[i] = order[j] => i = j
     /\ \A a \in Asset : \E i \in 1..n : order[i] = a
  <1> DEFINE n == Cardinality(Asset)
  <1>1. n \in Nat /\ ExistsBijection(1..n, Asset) /\ IsFiniteSet(Asset)
    BY MobileMirrorAssumption, FS_NatBijection, FS_CardinalityType
  <1>2. PICK f \in [1..n -> Asset] : IsInjective(f)
    <2>1. PICK f : f \in Bijection(1..n, Asset)
      BY <1>1 DEF ExistsBijection
    <2> QED BY <2>1 DEF Bijection, Injection, IsInjective
  <1>3. SetToSeq(Asset) \in [1..n -> Asset] /\ IsInjective(SetToSeq(Asset))
    BY <1>2 DEF SetToSeq
  <1> DEFINE order == SetToSeq(Asset)
  <1> HIDE DEF order
  <1>4. \A i, j \in 1..n : order[i] = order[j] => i = j
    BY <1>3 DEF IsInjective, order
  <1>5. order \in Injection(1..n, Asset)
    BY <1>3, <1>4 DEF Injection, order
  <1>6. Cardinality(1..n) = n
    BY <1>1, FS_Interval
  <1>7. order \in Surjection(1..n, Asset)
    BY <1>1, <1>5, <1>6, FS_Injection
  <1>8. \A a \in Asset : \E i \in 1..n : order[i] = a
    BY <1>7 DEF Surjection
  <1> QED BY <1>1, <1>3, <1>4, <1>8 DEF order

LEMMA InitIsSound == Init => Sound
  <1> SUFFICES ASSUME Init PROVE Sound
    OBVIOUS
  <1> DEFINE n == Cardinality(Asset)
             order == SetToSeq(Asset)
  <1>1. /\ n \in Nat /\ order \in [1..n -> Asset]
        /\ \A i, j \in 1..n : order[i] = order[j] => i = j
        /\ \A a \in Asset : \E i \in 1..n : order[i] = a
    BY OrderFacts
  <1>2. log = [k \in 1..n |-> [asset |-> order[k], op |-> "change", v |-> 1]]
    BY DEF Init
  <1> HIDE DEF n, order
  <1>3. /\ log \in Seq(Change) /\ Len(log) = n /\ DOMAIN log = 1..n
        /\ \A k \in 1..n : log[k].asset = order[k] /\ log[k].v = 1
    <2>1. \A k \in 1..n : [asset |-> order[k], op |-> "change", v |-> 1] \in Change
      BY <1>1 DEF Change
    <2> QED BY <1>1, <1>2, <2>1
  <1>4. ServerTypes
    <2>1. /\ state = [a \in Asset |-> "live"] /\ floor = 0
          /\ version = [a \in Asset |-> 1] /\ unlogged = {}
      BY DEF Init
    <2>2. state \in [Asset -> {"live", "trashed", "gone"}]
      BY <2>1
    <2> QED BY <1>1, <1>3, <2>1, <2>2 DEF ServerTypes
  <1>5. QueueTypes
    <2>1. MaxIntent \in Nat
      BY MobileMirrorAssumption
    <2> QED BY <2>1 DEF Init, QueueTypes
  <1>6. lane = Free /\ lane.at = "free" /\ ~InPage
    BY DEF Init, Free, InPage
  <1>7. /\ row \in [Asset -> Mirrored] /\ cursor \in 0..Len(log)
        /\ \A a \in Asset : row[a].v \in {0, 1} /\ version[a] = 1
    <2>1. version = [a \in Asset |-> 1]
      BY DEF Init
    <2>2. CASE cursor = 0 /\ row = [a \in Asset |-> NoRow]
      BY <1>1, <1>3, <2>1, <2>2 DEF NoRow, Mirrored
    <2>3. CASE cursor = Len(log) /\ row = [a \in Asset |-> [v |-> 1, trashed |-> FALSE]]
      <3>1. [v |-> 1, trashed |-> FALSE] \in Mirrored
        BY DEF Mirrored
      <3> QED BY <1>1, <1>3, <2>1, <2>3, <3>1
    <2> QED BY <2>2, <2>3 DEF Init
  <1>8. Types
    <2>1. page = NoPage /\ stale = {} /\ left = MaxEvent
      BY DEF Init
    <2>2. MirrorTypes
      BY <1>7, <2>1 DEF MirrorTypes
    <2>3. LaneTypes /\ left \in 0..MaxEvent
      BY <1>6, <2>1, MobileMirrorAssumption DEF LaneTypes
    <2> QED BY <1>4, <1>5, <2>2, <2>3 DEF Types
  <1>9. Edits
    BY <1>6 DEF Init, Edits, InOrder, FirstRead, OutcomeOK, LateOK, EditsAreOrderly,
       EditsAreSettled, FirstInOrder
  <1>10. Follows
    <2>1. RowsOK
      BY <1>3, <1>7 DEF RowsOK
    <2> QED BY <1>6, <2>1 DEF Follows, PageOK
  <1> QED BY <1>8, <1>9, <1>10 DEF Sound

LEMMA NextKeeps ==
  ASSUME Sound, [Next]_vars
  PROVE  Sound'
  <1>1. CASE UNCHANGED vars
    <2>1. UNCHANGED <<state, version, unlogged, log, floor, late, editsState, tap, mirror, page, lane, left>>
      BY <1>1 DEF vars, editsState, mirror
    <2>2. ServerGrows /\ ServerTypes'
      BY <2>1, ServerStays DEF Sound, Types, ServerTypes
    <2>3. Types'
      BY <2>1, <2>2, QueueTypesStay, MirrorTypesStay, LaneTypesStay DEF Sound, Types, editsState
    <2>4. Edits' /\ Follows'
      BY <2>1, <2>2, EditsStay, FollowsStay DEF Sound
    <2> QED BY <2>3, <2>4 DEF Sound
  <1>2. ASSUME NEW kind \in Kind, NEW a \in Asset, WebEdit(kind, a) \/ Tap(kind, a)
        PROVE  Sound'
    BY <1>2, WebEditKeeps, TapKeeps
  <1>3. CASE Prune \/ Enqueue \/ BeginFlush \/ Served \/ Failed \/ Settle
    BY <1>3, PruneKeeps, EnqueueKeeps1, BeginFlushKeeps, ServedKeeps, FailedKeeps, SettleKeeps
  <1>4. ASSUME NEW m \in late, LateRequest(m)
        PROVE  Sound'
    BY <1>4, LateRequestKeeps
  <1>5. CASE GetFeed \/ ListFeed \/ RemoveRow \/ FetchAsset \/ WriteRow \/ SaveCursor \/ ClearRows
    BY <1>5, GetFeedKeeps, ListFeedKeeps, RemoveRowKeeps, FetchAssetKeeps, WriteRowKeeps, SaveCursorKeeps,
       ClearRowsKeeps
  <1>6. CASE Abort \/ Crash \/ MirrorPage
    BY <1>6, AbortKeeps, MirrorPageKeeps
  <1>7. ASSUME NEW kind \in {"library", "trash"}, ReadPage(kind)
        PROVE  Sound'
    BY <1>7, ReadPageKeeps
  <1>8. ASSUME NEW l \in unlogged, LogLine(l) \/ LineLost(l)
        PROVE  Sound'
    BY <1>8, LineKeeps
  <1> QED BY <1>1, <1>2, <1>3, <1>4, <1>5, <1>6, <1>7, <1>8 DEF Next

LEMMA SoundHolds == Spec => []Sound
  <1>1. Sound /\ [Next]_vars => Sound'
    BY NextKeeps
  <1> QED BY InitIsSound, <1>1, PTL DEF Spec

\* The queue, the mirror and the cursor keep their types: no id is given twice, and
\* neither a row nor the cursor is ahead of the server's log.
THEOREM MobileMirrorTypeCorrect == Spec => []MobileMirrorTypeOK
  <1>1. Sound => MobileMirrorTypeOK
    <2> SUFFICES ASSUME Sound PROVE MobileMirrorTypeOK
      OBVIOUS
    <2>1. lane.at \in {"free", "sending", "answered", "sync", "feed", "apply", "write", "clear",
                       "jump"}
      BY DEF Sound, Types, LaneTypes, Free, Sending, Heard, Syncing, Asking, Paging
    <2>2. ToSet(queue) \subseteq Request
      BY DEF Sound, Types, QueueTypes, ToSet
    <2> QED
      BY <2>1, <2>2 DEF MobileMirrorTypeOK, Sound, Types, ServerTypes, QueueTypes,
         MirrorTypes, Change, Update, Request, Mirrored
  <1> QED BY SoundHolds, <1>1, PTL

\* What the user did on the phone is neither lost nor overtaken on its way to the
\* server, through lost answers, aborted flushes, crashes and late requests.
THEOREM EditsKeepTheirOrder == Spec => []EditsAreOrderly
  <1>1. Sound => EditsAreOrderly
    BY DEF Sound, Edits
  <1> QED BY SoundHolds, <1>1, PTL

\* The cursor passes no change that the mirror has missed, whatever is read beside the
\* catch-up and wherever it is cut off.
THEOREM MirrorsFollow == Spec => []MirrorFollows
  <1>1. Sound => MirrorFollows
    <2> SUFFICES ASSUME Sound, NEW a \in Asset \ stale, row[a].v # 0
                 PROVE  row[a].v >= Told(a, cursor)
      BY DEF MirrorFollows
    <2>1. /\ cursor \in Nat /\ cursor <= Len(log) /\ Len(log) \in Nat
          /\ row[a].v \in Nat
      BY DEF Sound, Types, ServerTypes, MirrorTypes, Mirrored
    <2>2. CASE Told(a, cursor) = 0
      BY <2>1, <2>2
    <2>3. CASE Told(a, cursor) # 0
      <3>1. PICK k \in 1..Len(log) : k <= cursor /\ log[k].asset = a /\ log[k].v = Told(a, cursor)
        BY <2>1, <2>3, ToldFacts DEF Sound
      <3>2. k <= Past
        <4>1. CASE InPage
          BY <2>1, <3>1, <4>1, PageFacts DEF Sound, Follows, PageOK
        <4>2. CASE ~InPage
          BY <2>1, <3>1, <4>2 DEF Past, InPage
        <4> QED BY <4>1, <4>2
      <3>3. row[a].v >= log[k].v
        BY <3>1, <3>2 DEF Sound, Follows, RowsOK, Heeded
      <3> QED BY <3>1, <3>3
    <2> QED BY <2>2, <2>3
  <1> QED BY SoundHolds, <1>1, PTL
=============================================================================
