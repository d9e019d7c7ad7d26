------------------------- MODULE BackupUploadSafety -------------------------
(***************************************************************************)
(* Proofs about BackupUpload, for any items, any libraries, files of any   *)
(* number of chunks and any number of events: a receipt proves the bytes   *)
(* of the version it is for, and the phone gives up its own copy of an     *)
(* item only for originals that the library has.                           *)
(*                                                                         *)
(* The argument for receipts is that of the version.  Nothing read while   *)
(* an item is uploaded is known to be of the version listed; but when the  *)
(* item still has that version at the end, it had it all the time, and so  *)
(* all that was read since the session was opened is of it.                *)
(***************************************************************************)
EXTENDS BackupUpload, SequenceTheorems, FiniteSetTheorems, TLAPS

-----------------------------------------------------------------------------
(* The inductive invariant: types.                                         *)

Parts(a) == IF a \in LivePhoto THEN 2 ELSE 1

Receipt == [version: Version \cup {0}, originals: Seq(Original)]

\* A receipt has one original for each component, in their order.
ReceiptOK(a, receipt) ==
  receipt # NoReceipt =>
    /\ receipt.version # 0
    /\ Len(receipt.originals) = Parts(a)
    /\ \A i \in Part(a) : receipt.originals[i].of = <<a, i>>

Statuses == {"missing", "receiving", "queued", "succeeded", "failed"}

LedgerTypes ==
  /\ receipts \in [Library -> [Asset -> Receipt]]
  /\ saved \in [Library -> [Component -> [version: Version \cup {0}, offset: Nat]]]
  /\ \A l \in Library : \A a \in Asset : ReceiptOK(a, receipts[l][a])
  /\ \A l \in Library : \A c \in Component :
       /\ saved[l][c].version = 0 => saved[l][c] = NoUpload
       /\ saved[l][c].offset <= Size[c]

ServerTypes ==
  /\ session \in [Library -> [Component -> [got: Seq(Bytes), status: Statuses]]]
  /\ jobs \in [Library -> SUBSET Original]
  /\ live \in [Library -> SUBSET Original]
  /\ trashed \in [Library -> SUBSET Original]
  /\ \A l \in Library : live[l] \cap trashed[l] = {}

PhoneTypes ==
  /\ phone \in [Asset -> [bytes: Bytes, version: Version, here: BOOLEAN]]
  /\ conn \in Library \cup {Nowhere}
  /\ removing \in [Library -> SUBSET Original]
  /\ late \subseteq Asset /\ blurred \subseteq Asset
  /\ left \in 0..MaxEvent

UpTypes ==
  up \in [at: {"idle", "open", "ask", "send", "complete", "poll", "check"},
          library: Library \cup {Nowhere}, asset: Asset \cup {0},
          version: Version \cup {0}, part: 1..2, copy: Bytes \cup {0},
          offset: Nat, restarts: Nat, proofs: Seq(Original)]

RmTypes ==
  rm \in [at: {"idle", "remove", "dialog"}, library: Library \cup {Nowhere},
          todo: SUBSET Asset, asset: Asset \cup {0}, part: 1..2,
          hashed: BOOLEAN, receipts: [Asset -> Receipt], chosen: SUBSET Asset]

Types == LedgerTypes /\ ServerTypes /\ PhoneTypes /\ UpTypes /\ RmTypes

-----------------------------------------------------------------------------
(* The inductive invariant: what was read, and what was proven.            *)

\* Every event edits at most once, so bytes and versions stay in their range;
\* an item whose every edit left a trace has as many versions as bytes.
PhoneOK ==
  \A a \in Asset :
    /\ phone[a].version <= phone[a].bytes
    /\ phone[a].bytes + left <= MaxEvent + 1
    /\ a \notin blurred => phone[a].version = phone[a].bytes

\* The item still is what it was in this version.
Unedited(a, v) == phone[a].version = v /\ a \notin blurred

\* All a session received was read in the version its upload was opened for,
\* if the item has it still.  The phone never counts more than it received.
SessionOK(l, c) ==
  /\ saved[l][c].version <= phone[c[1]].version
  /\ Unedited(c[1], saved[l][c].version) =>
       \A k \in 1..Len(session[l][c].got) :
         session[l][c].got[k] = saved[l][c].version
  /\ Len(session[l][c].got) <= Size[c]
  /\ session[l][c].status # "missing" =>
       saved[l][c].offset <= Len(session[l][c].got)
  /\ session[l][c].status \in {"queued", "succeeded", "failed"} =>
       Len(session[l][c].got) = Size[c]
SessionsOK == \A l \in Library : \A c \in Component : SessionOK(l, c)

\* The pass works on one component after the other, and has the proof of each
\* it is done with.
Sending == {"ask", "send", "complete", "poll"}
UpOK ==
  up.at # "idle" =>
    /\ up.library \in Library /\ up.asset \in Asset /\ up.part \in Part(up.asset)
    /\ up.version \in 1..phone[up.asset].version
    /\ up.at \in Sending => Upload.version = up.version
    /\ up.at = "send" => up.offset = Upload.offset /\ up.offset < Size[Current]
    /\ up.at \in {"ask", "complete"} => Upload.offset = Size[Current]
    /\ up.at \in Sending /\ up.copy # 0 /\ Unedited(up.asset, up.version) =>
         up.copy = up.version
    /\ Len(up.proofs) = IF up.at = "check" THEN Parts(up.asset) ELSE up.part - 1
    /\ \A i \in 1..Len(up.proofs) :
         /\ up.proofs[i].of = <<up.asset, i>>
         /\ Unedited(up.asset, up.version) =>
              up.proofs[i] = Pure(<<up.asset, i>>, up.version)

\* The bytes that component i of the item has now are a live original of the
\* library the removal is for, and nobody is about to trash it.
Proven(a, i) ==
  Pure(<<a, i>>, phone[a].bytes) \in live[rm.library] \ removing[rm.library]

\* The check of item a has come as far as rm.part, and the item has not changed
\* since it began.
CheckOK(a) ==
  /\ Len(rm.receipts[a].originals) = Parts(a)
  /\ \A i \in Part(a) : rm.receipts[a].originals[i] \notin removing[rm.library]
  /\ \A i \in Part(a) : i < rm.part => Proven(a, i)
  /\ rm.hashed =>
       Pure(<<a, rm.part>>, phone[a].bytes) = rm.receipts[a].originals[rm.part]

RmOK ==
  /\ rm.todo \subseteq rm.chosen
  /\ rm.at = "idle" => rm = Away
  /\ rm.at # "idle" => rm.library \in Library
  /\ rm.at = "dialog" => rm.todo = {} /\ rm.asset = 0
  /\ rm.asset # 0 => rm.asset \in Checked /\ rm.part \in Part(rm.asset)
  /\ rm.asset = 0 => ~rm.hashed
  /\ \A a \in Asset : ReceiptOK(a, rm.receipts[a])
  /\ \A a \in Checked \ late :
       IF a = rm.asset THEN CheckOK(a) ELSE \A i \in Part(a) : Proven(a, i)

Sound == Types /\ PhoneOK /\ SessionsOK /\ UpOK /\ ReceiptIsTrue /\ RmOK

-----------------------------------------------------------------------------
(* Facts about the operators.                                              *)

\* An item has one component, or two.
LEMMA PartFacts ==
  ASSUME NEW a \in Asset
  PROVE  /\ Parts(a) \in {1, 2} /\ Part(a) = 1..Parts(a) /\ Part(a) \subseteq 1..2
         /\ Cardinality(Part(a)) = Parts(a)
         /\ \A i \in Part(a) : <<a, i>> \in Component
<1>1. Parts(a) \in {1, 2} /\ Part(a) = 1..Parts(a)
  BY DEF Parts, Part
<1>2. Cardinality(Part(a)) = Parts(a)
  <2>1. Cardinality(1..Parts(a)) = Parts(a) - 1 + 1
    BY <1>1, FS_Interval
  <2> QED
    BY <1>1, <2>1
<1>3. Part(a) \subseteq 1..2
  BY <1>1
<1>4. \A i \in Part(a) : <<a, i>> \in Component
  BY <1>1 DEF Component
<1> QED
  BY <1>1, <1>2, <1>3, <1>4

LEMMA ComponentFacts ==
  ASSUME NEW c \in Component
  PROVE  c[1] \in Asset /\ c[2] \in Part(c[1]) /\ c = <<c[1], c[2]>> /\ Size[c] \in Nat \ {0}
  BY BackupUploadAssumption DEF Component

\* The original that one and the same bytes make.
LEMMA PureFacts ==
  ASSUME NEW c \in Component, NEW b \in Bytes
  PROVE  Pure(c, b) \in Original /\ Pure(c, b).of = c
<1>1. Size[c] \in Nat
  BY ComponentFacts
<1>2. [k \in 1..Size[c] |-> b] \in Seq(Bytes) /\ Len([k \in 1..Size[c] |-> b]) = Size[c]
  BY <1>1
<1> QED
  BY <1>2 DEF Pure, Original

\* A session that received the whole of it, all of the same bytes, makes it.
LEMMA ReceivedIsPure ==
  ASSUME NEW c \in Component, NEW b, NEW got \in Seq(Bytes), Len(got) = Size[c],
         \A k \in 1..Len(got) : got[k] = b
  PROVE  [of |-> c, chunks |-> got] = Pure(c, b)
<1>1. Size[c] \in Nat
  BY ComponentFacts
<1>2. got = [k \in 1..Size[c] |-> b]
  BY <1>1
<1> QED
  BY <1>2 DEF Pure

LEMMA ReceivedIsOriginal ==
  ASSUME NEW c \in Component, NEW got \in Seq(Bytes)
  PROVE  [of |-> c, chunks |-> got] \in Original <=> Len(got) = Size[c]
  BY DEF Original

LEMMA Appended ==
  ASSUME NEW S, NEW s \in Seq(S), NEW e \in S
  PROVE  /\ Append(s, e) \in Seq(S) /\ Len(Append(s, e)) = Len(s) + 1
         /\ \A i \in 1..(Len(s) + 1) :
              Append(s, e)[i] = IF i <= Len(s) THEN s[i] ELSE e
  OBVIOUS

-----------------------------------------------------------------------------
(* What each part of the invariant rests on.                               *)

LEMMA SessionsFrame ==
  ASSUME SessionsOK, UNCHANGED <<saved, session, phone, blurred>>
  PROVE  SessionsOK'
  BY DEF SessionsOK, SessionOK, Unedited

LEMMA UpFrame ==
  ASSUME UpOK, UNCHANGED <<up, saved, phone, blurred>>
  PROVE  UpOK'
  BY DEF UpOK, Unedited, Upload, Current

LEMMA ReceiptsFrame ==
  ASSUME ReceiptIsTrue, UNCHANGED receipts, blurred \subseteq blurred'
  PROVE  ReceiptIsTrue'
  BY DEF ReceiptIsTrue

\* A removal is not disturbed by what happens to other originals than those of
\* the items it has checked; and what does is remembered in late.
LEMMA RmFrame ==
  ASSUME RmOK, Types, UNCHANGED <<rm, phone>>, late \subseteq late',
         rm.library \in Library => \A o \in Original :
           o.of[1] \in Checked \ late' =>
             /\ o \in live[rm.library] => o \in live'[rm.library]
             /\ o \in removing'[rm.library] => o \in removing[rm.library]
  PROVE  RmOK'
<1>1. rm.at = "idle" => Checked = {}
  BY DEF RmOK, Away, Checked
<1>2. Checked' = Checked
  BY DEF Checked
<1>3. ASSUME NEW a \in Checked \ late', NEW i \in Part(a), Proven(a, i)
      PROVE  Proven(a, i)'
  <2>1. a \in Asset /\ rm.library \in Library
    BY <1>1 DEF RmOK, Types, RmTypes, Checked
  <2>2. Pure(<<a, i>>, phone[a].bytes) \in Original
    BY <2>1, PartFacts, PureFacts DEF Types, PhoneTypes
  <2>3. Pure(<<a, i>>, phone[a].bytes).of[1] = a
    BY <2>1, PartFacts, PureFacts DEF Types, PhoneTypes
  <2> QED
    BY <1>3, <2>1, <2>2, <2>3 DEF Proven
<1>4. ASSUME NEW a \in Checked \ late', a = rm.asset
      PROVE  CheckOK(a)'
  <2>1. a \in Asset /\ rm.library \in Library /\ CheckOK(a) /\ a \in Checked \ late
    BY <1>1, <1>4 DEF RmOK, Types, RmTypes, Checked
  <2>2. ASSUME NEW i \in Part(a)
        PROVE  rm.receipts[a].originals[i] \notin removing'[rm.library]
    <3>1. rm.receipts[a] \in Receipt /\ ReceiptOK(a, rm.receipts[a])
      BY <2>1 DEF RmOK, Types, RmTypes
    <3>2. rm.receipts[a].originals \in Seq(Original) /\ i \in 1..Len(rm.receipts[a].originals)
      BY <2>1, <3>1, PartFacts DEF CheckOK, Receipt
    <3>3. rm.receipts[a].originals[i] \in Original
      BY <3>2, ElementOfSeq
    <3>4. rm.receipts[a].originals[i].of[1] = a
      BY <3>1, <3>2 DEF ReceiptOK, NoReceipt
    <3> QED
      BY <2>1, <3>3, <3>4, <1>4 DEF CheckOK
  <2>3. \A i \in Part(a) : i < rm.part => Proven(a, i)'
    BY <1>3, <1>4, <2>1 DEF CheckOK
  <2> QED
    BY <2>1, <2>2, <2>3 DEF CheckOK
<1>5. \A a \in Checked' \ late' :
        IF a = rm'.asset THEN CheckOK(a)' ELSE \A i \in Part(a) : Proven(a, i)'
  BY <1>2, <1>3, <1>4 DEF RmOK
<1> QED
  BY <1>2, <1>5 DEF RmOK

-----------------------------------------------------------------------------
(* Steps of the world around the phone's code.                             *)

\* An edit ends the version, or is remembered as blurred; in a removal that has
\* checked the item it comes late.
LEMMA EditKeeps ==
  ASSUME Sound, NEW a \in Asset, Edit(a) \/ EditSilently(a)
  PROVE  Sound'
<1> USE DEF Sound
<1>1. phone[a] \in [bytes: Bytes, version: Version, here: BOOLEAN] /\ left \in Nat /\ MaxEvent \in Nat
  BY BackupUploadAssumption DEF Types, PhoneTypes
<1>2. /\ phone' \in [Asset -> [bytes: Int, version: Int, here: BOOLEAN]]
      /\ \A b \in Asset : b # a => phone'[b] = phone[b]
      /\ phone'[a].bytes = phone[a].bytes + 1
      /\ \/ phone'[a].version = phone[a].version + 1 /\ blurred' = blurred
         \/ phone'[a].version = phone[a].version /\ blurred' = blurred \cup {a}
      /\ left > 0 /\ left' = left - 1
      /\ late' = late \cup ({a} \cap Checked)
  <2>1. CASE Edit(a)
    BY <2>1, <1>1 DEF Edit, Disturbed, Types, PhoneTypes, Bytes, Version
  <2>2. CASE EditSilently(a)
    BY <2>2, <1>1 DEF EditSilently, Disturbed, Types, PhoneTypes, Bytes, Version
  <2> QED
    BY <2>1, <2>2
<1>3. UNCHANGED <<conn, receipts, saved, removing, session, jobs, live, trashed, up, rm>>
  BY DEF Edit, EditSilently, ledger, server
<1>4. PhoneOK'
  BY <1>1, <1>2 DEF PhoneOK, Types, PhoneTypes, Bytes, Version
<1>5. \A b \in Asset : phone'[b].bytes \in Bytes /\ phone'[b].version \in Version
  BY <1>1, <1>2, <1>4 DEF PhoneOK, Types, PhoneTypes, Bytes, Version
<1>6. Types'
  <2>1. PhoneTypes'
    BY <1>1, <1>2, <1>3, <1>5 DEF Types, PhoneTypes
  <2> QED
    BY <2>1, <1>3 DEF Types, LedgerTypes, ServerTypes, UpTypes, RmTypes
<1>7. \A b \in Asset :
        /\ phone[b].version <= phone'[b].version
        /\ \A v \in Int : v <= phone[b].version /\ Unedited(b, v)' => Unedited(b, v)
  BY <1>1, <1>2 DEF Unedited, Types, PhoneTypes, Version
<1>8. SessionsOK'
  <2> SUFFICES ASSUME NEW l \in Library, NEW c \in Component
               PROVE  SessionOK(l, c)'
    BY DEF SessionsOK
  <2>1. c[1] \in Asset /\ SessionOK(l, c)
    BY ComponentFacts DEF SessionsOK
  <2>2. saved[l][c].version \in Int /\ phone[c[1]].version \in Int /\ phone'[c[1]].version \in Int
    BY <2>1, <1>6 DEF Types, LedgerTypes, PhoneTypes, Version
  <2> QED
    BY <1>3, <1>7, <2>1, <2>2 DEF SessionOK
<1>9. UpOK'
  <2>1. up'.at # "idle" => up.asset \in Asset /\ up.version \in 1..phone[up.asset].version
    BY <1>3 DEF UpOK
  <2>2. up.at # "idle" /\ Unedited(up.asset, up.version)' => Unedited(up.asset, up.version)
    BY <1>3, <1>7, <2>1
  <2>3. up.at # "idle" => up.version \in 1..phone'[up.asset].version
    BY <1>7, <1>6, <1>3, <2>1 DEF Types, PhoneTypes, Version
  <2> QED
    BY <1>3, <2>1, <2>2, <2>3 DEF UpOK, Upload, Current, Unedited
<1>10. ReceiptIsTrue'
  BY <1>2, <1>3, ReceiptsFrame
<1>11. RmOK'
  <2>1. Checked' = Checked
    BY <1>3 DEF Checked
  <2>2. ASSUME NEW b \in Checked \ late'
        PROVE  b # a /\ b \in Checked \ late /\ b \in Asset
    BY <2>2, <1>2 DEF RmOK, Types, RmTypes, Checked
  <2>3. \A b \in Checked \ late' : phone'[b] = phone[b]
    BY <2>2, <1>2
  <2>4. \A b \in Checked \ late' :
          IF b = rm'.asset THEN CheckOK(b)' ELSE \A i \in Part(b) : Proven(b, i)'
    BY <2>2, <2>3, <1>3 DEF RmOK, CheckOK, Proven
  <2> QED
    BY <1>3, <2>1, <2>4 DEF RmOK
<1> QED
  BY <1>4, <1>6, <1>8, <1>9, <1>10, <1>11

LEMMA SwitchKeeps ==
  ASSUME Sound, NEW l \in Library \cup {Nowhere}, Switch(l)
  PROVE  Sound'
<1>0. left \in 0..MaxEvent /\ MaxEvent \in Nat
  BY BackupUploadAssumption DEF Sound, Types, PhoneTypes
<1>1. Types'
  <2>1. PhoneTypes'
    BY <1>0 DEF Sound, Switch, Disturbed, Types, PhoneTypes, ghosts
  <2> QED
    BY <2>1 DEF Sound, Switch, Types, LedgerTypes, ServerTypes, UpTypes, RmTypes, ledger,
       server
<1>2. PhoneOK'
  BY <1>0 DEF Sound, Switch, Disturbed, PhoneOK, Types, PhoneTypes, ghosts, Bytes
<1>3. SessionsOK' /\ UpOK' /\ ReceiptIsTrue'
  BY SessionsFrame, UpFrame, ReceiptsFrame DEF Sound, Switch, ledger, server, ghosts
<1>4. RmOK'
  BY RmFrame DEF Sound, Switch, ledger, server, ghosts
<1> QED
  BY <1>1, <1>2, <1>3, <1>4 DEF Sound

\* Originals that are trashed, restored, purged or queued for the trash: a
\* removal that has checked the item of one of them has it in late.
OriginalMoves(o) ==
  /\ UNCHANGED <<phone, conn, receipts, saved, session, jobs, up, rm, blurred>>
  /\ left' \in 0..left
  /\ late' = late \cup ({o.of[1]} \cap Checked)
  /\ removing' \in [Library -> SUBSET Original]
  /\ live' \in [Library -> SUBSET Original]
  /\ trashed' \in [Library -> SUBSET Original]
  /\ \A l \in Library :
       /\ live'[l] \cap trashed'[l] = {}
       /\ live[l] \subseteq live'[l] \cup {o}
       /\ removing'[l] \subseteq removing[l] \cup {o}

LEMMA OriginalMovesKeeps ==
  ASSUME Sound, NEW o \in Original, OriginalMoves(o)
  PROVE  Sound'
<1>0. left \in 0..MaxEvent /\ MaxEvent \in Nat
  BY BackupUploadAssumption DEF Sound, Types, PhoneTypes
<1>1. Types'
  <2>1. PhoneTypes'
    BY <1>0 DEF Sound, OriginalMoves, Types, PhoneTypes, RmTypes, Checked
  <2>2. ServerTypes'
    BY DEF Sound, OriginalMoves, Types, ServerTypes
  <2> QED
    BY <2>1, <2>2 DEF Sound, OriginalMoves, Types, LedgerTypes, UpTypes, RmTypes
<1>2. PhoneOK'
  BY <1>0 DEF Sound, OriginalMoves, PhoneOK, Types, PhoneTypes, Bytes
<1>3. SessionsOK' /\ UpOK' /\ ReceiptIsTrue'
  BY SessionsFrame, UpFrame, ReceiptsFrame DEF Sound, OriginalMoves
<1>4. RmOK'
  <2>1. ASSUME NEW p \in Original, p.of[1] \in Checked \ late'
        PROVE  p # o
    BY <2>1 DEF OriginalMoves
  <2>2. RmOK /\ Types /\ UNCHANGED <<rm, phone>> /\ late \subseteq late'
    BY DEF Sound, OriginalMoves
  <2>3. rm.library \in Library => \A p \in Original :
           p.of[1] \in Checked \ late' =>
             /\ p \in live[rm.library] => p \in live'[rm.library]
             /\ p \in removing'[rm.library] => p \in removing[rm.library]
    BY <2>1 DEF OriginalMoves
  <2> QED
    BY <2>2, <2>3, RmFrame
<1> QED
  BY <1>1, <1>2, <1>3, <1>4 DEF Sound

LEMMA QueueRemovalKeeps ==
  ASSUME Sound, NEW o \in Original, QueueRemoval(o)
  PROVE  Sound'
<1>1. OriginalMoves(o)
  BY BackupUploadAssumption DEF Sound, Types, PhoneTypes, ServerTypes, QueueRemoval,
     OriginalMoves, Disturbed, ledger, server
<1> QED
  BY <1>1, OriginalMovesKeeps

LEMMA SendRemovalKeeps ==
  ASSUME Sound, NEW o \in Original, SendRemoval(o)
  PROVE  Sound'
<1>1. OriginalMoves(o)
  BY BackupUploadAssumption DEF Sound, Types, PhoneTypes, ServerTypes, SendRemoval,
     OriginalMoves, ledger
<1> QED
  BY <1>1, OriginalMovesKeeps

LEMMA ChangeKeeps ==
  ASSUME Sound, NEW o \in Original, NEW l \in Library, Change(l, o)
  PROVE  Sound'
<1>1. /\ live' \in [Library -> SUBSET Original] /\ trashed' \in [Library -> SUBSET Original]
      /\ \A k \in Library :
           live'[k] \cap trashed'[k] = {} /\ live[k] \subseteq live'[k] \cup {o}
  <2>1. /\ live \in [Library -> SUBSET Original] /\ trashed \in [Library -> SUBSET Original]
        /\ \A k \in Library : live[k] \cap trashed[k] = {}
    BY DEF Sound, Types, ServerTypes
  <2>2. CASE /\ o \in live[l]
             /\ live' = [live EXCEPT ![l] = @ \ {o}]
             /\ trashed' = [trashed EXCEPT ![l] = @ \cup {o}]
    BY <2>1, <2>2
  <2>3. CASE /\ o \in trashed[l]
             /\ live' = [live EXCEPT ![l] = @ \cup {o}]
             /\ trashed' = [trashed EXCEPT ![l] = @ \ {o}]
    BY <2>1, <2>3
  <2>4. CASE trashed' = [trashed EXCEPT ![l] = @ \ {o}] /\ UNCHANGED live
    BY <2>1, <2>4
  <2> QED
    BY <2>2, <2>3, <2>4 DEF Change
<1>2. OriginalMoves(o)
  BY <1>1, BackupUploadAssumption DEF Sound, Types, PhoneTypes, Change, OriginalMoves,
     Disturbed, ledger
<1> QED
  BY <1>2, OriginalMovesKeeps

\* An import only adds to the live originals.
LEMMA ImportedFacts ==
  ASSUME ServerTypes, NEW l \in Library, NEW o \in Original, Imported(l, o), UNCHANGED trashed
  PROVE  /\ live' \in [Library -> SUBSET Original]
         /\ \A k \in Library : live[k] \subseteq live'[k] /\ live'[k] \cap trashed'[k] = {}
  BY DEF ServerTypes, Imported

LEMMA LiveGrows ==
  ASSUME RmOK, Types, UNCHANGED <<rm, phone, late, removing>>,
         \A k \in Library : live[k] \subseteq live'[k]
  PROVE  RmOK'
  BY RmFrame

\* What the server does to one session, its original included.
SessionMoves(l, c, new) ==
  /\ session' = [session EXCEPT ![l][c] = new]
  /\ UNCHANGED <<phone, conn, receipts, saved, removing, jobs, trashed, up, rm, late, blurred>>
  /\ left' \in 0..left

LEMMA SessionMovesKeeps ==
  ASSUME Sound, NEW l \in Library, NEW c \in Component,
         NEW new \in [got: Seq(Bytes), status: Statuses], SessionMoves(l, c, new),
         \/ new = NoSession
         \/ /\ new.got = session[l][c].got
            /\ Len(new.got) = Size[c] /\ saved[l][c].offset <= Len(new.got),
         live' \in [Library -> SUBSET Original],
         \A k \in Library : live[k] \subseteq live'[k] /\ live'[k] \cap trashed[k] = {}
  PROVE  Sound'
<1>0. left \in 0..MaxEvent /\ MaxEvent \in Nat
  BY BackupUploadAssumption DEF Sound, Types, PhoneTypes
<1>1. Types'
  <2>1. PhoneTypes'
    BY <1>0 DEF Sound, SessionMoves, Types, PhoneTypes
  <2>2. ServerTypes'
    BY DEF Sound, SessionMoves, Types, ServerTypes
  <2> QED
    BY <2>1, <2>2 DEF Sound, SessionMoves, Types, LedgerTypes, UpTypes, RmTypes
<1>2. PhoneOK'
  BY <1>0 DEF Sound, SessionMoves, PhoneOK, Types, PhoneTypes, Bytes
<1>3. UpOK' /\ ReceiptIsTrue' /\ RmOK'
  BY UpFrame, ReceiptsFrame, LiveGrows DEF Sound, SessionMoves
<1>4. SessionsOK'
  <2> SUFFICES ASSUME NEW k \in Library, NEW d \in Component
               PROVE  SessionOK(k, d)'
    BY DEF SessionsOK
  <2>1. SessionOK(k, d) /\ UNCHANGED <<saved, phone, blurred>>
    BY DEF Sound, SessionsOK, SessionMoves
  <2>2. session'[k][d] = IF k = l /\ d = c THEN new ELSE session[k][d]
    BY DEF Sound, Types, ServerTypes, SessionMoves
  <2>3. CASE new = NoSession
    BY <2>1, <2>2, <2>3, ComponentFacts DEF SessionOK, NoSession, Unedited
  <2>4. CASE new # NoSession
    BY <2>1, <2>2, <2>4, ComponentFacts DEF SessionOK, Unedited
  <2> QED
    BY <2>3, <2>4
<1> QED
  BY <1>1, <1>2, <1>3, <1>4 DEF Sound

LEMMA NoSessionType == NoSession \in [got: Seq(Bytes), status: Statuses]
  BY DEF NoSession, Statuses

LEMMA ImportKeeps ==
  ASSUME Sound, NEW l \in Library, NEW c \in Component, Import(l, c)
  PROVE  Sound'
<1>1. /\ session[l][c] \in [got: Seq(Bytes), status: Statuses]
      /\ session[l][c].status = "queued" /\ SessionOK(l, c)
      /\ saved[l][c].offset <= Size[c] /\ left \in Nat
      /\ ServerTypes
  BY DEF Sound, Types, ServerTypes, LedgerTypes, PhoneTypes, SessionsOK, Import
<1>2. Len(session[l][c].got) = Size[c] /\ Received(l, c) \in Original
  BY <1>1, ReceivedIsOriginal DEF SessionOK, Received
<1>3. CASE /\ session' = [session EXCEPT ![l][c].status = "succeeded"]
           /\ Imported(l, Received(l, c)) /\ UNCHANGED left
  <2> DEFINE new == [session[l][c] EXCEPT !.status = "succeeded"]
  <2>1. new \in [got: Seq(Bytes), status: Statuses] /\ new.got = session[l][c].got
    BY <1>1 DEF Statuses
  <2>2. SessionMoves(l, c, new)
    BY <1>1, <1>3 DEF Import, SessionMoves, ledger, ghosts
  <2>3. /\ live' \in [Library -> SUBSET Original]
        /\ \A k \in Library : live[k] \subseteq live'[k] /\ live'[k] \cap trashed[k] = {}
    <3>1. UNCHANGED trashed
      BY DEF Import
    <3> QED
      BY <1>1, <1>2, <1>3, <3>1, ImportedFacts
  <2> HIDE DEF new
  <2> QED
    BY <1>1, <1>2, <2>1, <2>2, <2>3, SessionMovesKeeps
<1>4. CASE Disturbed /\ session' = [session EXCEPT ![l][c].status = "failed"] /\ UNCHANGED live
  <2> DEFINE new == [session[l][c] EXCEPT !.status = "failed"]
  <2>1. new \in [got: Seq(Bytes), status: Statuses] /\ new.got = session[l][c].got
    BY <1>1 DEF Statuses
  <2>2. SessionMoves(l, c, new)
    BY <1>1, <1>4 DEF Import, SessionMoves, Disturbed, ledger, ghosts
  <2>3. /\ live' \in [Library -> SUBSET Original]
        /\ \A k \in Library : live[k] \subseteq live'[k] /\ live'[k] \cap trashed[k] = {}
    BY <1>4 DEF Sound, Types, ServerTypes
  <2> HIDE DEF new
  <2> QED
    BY <1>1, <1>2, <2>1, <2>2, <2>3, SessionMovesKeeps
<1> QED
  BY <1>3, <1>4 DEF Import

LEMMA ExpireKeeps ==
  ASSUME Sound, NEW l \in Library, NEW c \in Component, Expire(l, c)
  PROVE  Sound'
<1>1. SessionMoves(l, c, NoSession)
  BY DEF Sound, Types, PhoneTypes, Expire, SessionMoves, Disturbed, ledger, ghosts
<1>2. /\ live' \in [Library -> SUBSET Original]
      /\ \A k \in Library : live[k] \subseteq live'[k] /\ live'[k] \cap trashed[k] = {}
  BY DEF Sound, Types, ServerTypes, Expire
<1> QED
  BY <1>1, <1>2, NoSessionType, SessionMovesKeeps

LEMMA ImportLeftOverKeeps ==
  ASSUME Sound, NEW l \in Library, NEW o \in jobs[l], ImportLeftOver(l, o)
  PROVE  Sound'
<1>1. o \in Original /\ ServerTypes /\ UNCHANGED trashed
  BY DEF Sound, Types, ServerTypes, ImportLeftOver
<1>2. /\ live' \in [Library -> SUBSET Original]
      /\ \A k \in Library : live[k] \subseteq live'[k] /\ live'[k] \cap trashed'[k] = {}
  BY <1>1, ImportedFacts DEF ImportLeftOver
<1>3. Types'
  <2>1. ServerTypes'
    BY <1>1, <1>2 DEF ServerTypes, ImportLeftOver
  <2> QED
    BY <2>1 DEF Sound, Types, LedgerTypes, PhoneTypes, UpTypes, RmTypes, ImportLeftOver,
       ledger, ghosts
<1>4. PhoneOK' /\ SessionsOK' /\ UpOK' /\ ReceiptIsTrue'
  BY SessionsFrame, UpFrame, ReceiptsFrame
     DEF Sound, ImportLeftOver, PhoneOK, ledger, ghosts
<1>5. RmOK'
  BY <1>2, LiveGrows DEF Sound, ImportLeftOver, ghosts
<1> QED
  BY <1>3, <1>4, <1>5 DEF Sound

-----------------------------------------------------------------------------
(* Steps of a pass.                                                        *)

UploadType == [version: Version \cup {0}, offset: Nat]
SessionType == [got: Seq(Bytes), status: Statuses]

\* Where a pass is, while it works on an item.
LEMMA CurrentFacts ==
  ASSUME Sound, up.at # "idle"
  PROVE  /\ up.library \in Library /\ up.asset \in Asset /\ up.part \in Part(up.asset)
         /\ Current \in Component /\ Current = <<up.asset, up.part>>
         /\ Upload \in UploadType /\ (Upload.version = 0 => Upload = NoUpload)
         /\ Upload.offset <= Size[Current] /\ Size[Current] \in Nat \ {0}
         /\ Session \in SessionType /\ SessionOK(up.library, Current)
         /\ phone[up.asset] \in [bytes: Bytes, version: Version, here: BOOLEAN]
         /\ up.version \in 1..phone[up.asset].version /\ up.version \in Version
<1>1. up.library \in Library /\ up.asset \in Asset /\ up.part \in Part(up.asset)
  BY DEF Sound, UpOK
<1>2. Current \in Component /\ Current = <<up.asset, up.part>>
  BY <1>1, PartFacts DEF Current
<1>3. /\ Upload \in UploadType /\ (Upload.version = 0 => Upload = NoUpload)
      /\ Upload.offset <= Size[Current] /\ Session \in SessionType
  BY <1>1, <1>2 DEF Sound, Types, LedgerTypes, ServerTypes, UploadType, SessionType, Upload,
     Session
<1>4. SessionOK(up.library, Current) /\ Size[Current] \in Nat \ {0}
  BY <1>1, <1>2, ComponentFacts DEF Sound, SessionsOK
<1>5. /\ phone[up.asset] \in [bytes: Bytes, version: Version, here: BOOLEAN]
      /\ up.version \in 1..phone[up.asset].version
  BY <1>1 DEF Sound, Types, PhoneTypes, UpOK
<1> QED
  BY <1>1, <1>2, <1>3, <1>4, <1>5, BackupUploadAssumption DEF Version

LEMMA RestingFacts ==
  ASSUME up' = Resting
  PROVE  UpTypes' /\ UpOK'
<1>1. <<>> \in Seq(Original)
  OBVIOUS
<1>2. UpTypes'
  BY <1>1 DEF Resting, UpTypes
<1>3. UpOK'
  BY DEF Resting, UpOK
<1> QED
  BY <1>2, <1>3

\* A pass changes the ledger, the session of the component it is at, and where
\* it is; nothing of this concerns a removal.
LEMMA PassKeeps ==
  ASSUME Sound, UNCHANGED <<phone, conn, removing, live, trashed, rm, ghosts>>,
         left' \in 0..left, LedgerTypes', ServerTypes', UpTypes', SessionsOK', UpOK',
         ReceiptIsTrue'
  PROVE  Sound'
<1>0. left \in 0..MaxEvent /\ MaxEvent \in Nat
  BY BackupUploadAssumption DEF Sound, Types, PhoneTypes
<1>1. PhoneTypes'
  BY <1>0 DEF Sound, Types, PhoneTypes, ghosts
<1>2. PhoneOK'
  BY <1>0 DEF Sound, PhoneOK, Types, PhoneTypes, Bytes, ghosts
<1>3. RmOK' /\ RmTypes'
  BY RmFrame DEF Sound, Types, RmTypes, ghosts
<1> QED
  BY <1>1, <1>2, <1>3 DEF Sound, Types

\* Only the pass itself moves on.
LEMMA PassMovesOn ==
  ASSUME Sound, UNCHANGED <<phone, conn, ledger, removing, server, rm, ghosts>>,
         left' \in 0..left, UpTypes', UpOK'
  PROVE  Sound'
<1>1. LedgerTypes' /\ ServerTypes'
  BY DEF Sound, Types, LedgerTypes, ServerTypes, ledger, server
<1>2. SessionsOK' /\ ReceiptIsTrue'
  BY SessionsFrame, ReceiptsFrame DEF Sound, ledger, server, ghosts
<1> QED
  BY <1>1, <1>2, PassKeeps DEF server

\* Record and session of the current component are replaced.
LEMMA CurrentMoves ==
  ASSUME Sound, up.at # "idle", UNCHANGED <<phone, receipts, live, trashed, ghosts>>,
         NEW upload \in UploadType, upload.version = 0 => upload = NoUpload,
         upload.offset <= Size[Current],
         NEW new \in SessionType,
         saved' = [saved EXCEPT ![up.library][Current] = upload],
         session' = [session EXCEPT ![up.library][Current] = new],
         jobs' \in [Library -> SUBSET Original],
         upload.version <= phone[up.asset].version,
         Unedited(up.asset, upload.version) =>
           \A k \in 1..Len(new.got) : new.got[k] = upload.version,
         Len(new.got) <= Size[Current],
         new.status # "missing" => upload.offset <= Len(new.got),
         new.status \in {"queued", "succeeded", "failed"} => Len(new.got) = Size[Current]
  PROVE  /\ LedgerTypes' /\ ServerTypes' /\ SessionsOK' /\ ReceiptIsTrue'
         /\ saved'[up.library][Current] = upload
<1>1. up.library \in Library /\ Current \in Component /\ Current[1] = up.asset
  BY CurrentFacts
<1>2. \A l \in Library : \A c \in Component :
        /\ saved'[l][c] = IF l = up.library /\ c = Current THEN upload ELSE saved[l][c]
        /\ session'[l][c] = IF l = up.library /\ c = Current THEN new ELSE session[l][c]
  BY <1>1 DEF Sound, Types, LedgerTypes, ServerTypes
<1>3. /\ saved' \in [Library -> [Component -> UploadType]]
      /\ session' \in [Library -> [Component -> SessionType]]
  BY <1>1 DEF Sound, Types, LedgerTypes, ServerTypes, UploadType, SessionType
<1>4. LedgerTypes'
  BY <1>2, <1>3 DEF Sound, Types, LedgerTypes, UploadType
<1>5. ServerTypes'
  BY <1>3 DEF Sound, Types, ServerTypes, SessionType
<1>6. SessionsOK'
  <2> SUFFICES ASSUME NEW l \in Library, NEW c \in Component
               PROVE  SessionOK(l, c)'
    BY DEF SessionsOK
  <2>1. CASE l = up.library /\ c = Current
    BY <1>1, <1>2, <2>1 DEF SessionOK, Unedited, ghosts
  <2>2. CASE ~(l = up.library /\ c = Current)
    BY <1>2, <2>2 DEF Sound, SessionsOK, SessionOK, Unedited, ghosts
  <2> QED
    BY <2>1, <2>2
<1>7. ReceiptIsTrue'
  BY ReceiptsFrame DEF Sound, ghosts
<1> QED
  BY <1>1, <1>2, <1>4, <1>5, <1>6, <1>7

\* The job of a session that is given up has the whole of an original.
LEMMA ReplacedJobs ==
  ASSUME Sound, up.at # "idle", NEW upload, NEW new, Replace(upload, new)
  PROVE  jobs' \in [Library -> SUBSET Original]
<1>1. Session.status = "queued" => Received(up.library, Current) \in Original
  BY CurrentFacts, ReceivedIsOriginal DEF SessionOK, Session, SessionType, Received
<1> QED
  BY <1>1 DEF Sound, Types, ServerTypes, Replace

\* The record of the current upload is forgotten, with its session.
LEMMA Forgotten ==
  ASSUME Sound, up.at # "idle", Replace(NoUpload, NoSession),
         UNCHANGED <<phone, receipts, live, trashed, ghosts>>
  PROVE  LedgerTypes' /\ ServerTypes' /\ SessionsOK' /\ ReceiptIsTrue'
<1>1. NoUpload \in UploadType /\ NoUpload.version = 0 /\ NoUpload.offset = 0
  BY DEF NoUpload, UploadType
<1>2. NoSession \in SessionType /\ NoSession.status = "missing" /\ Len(NoSession.got) = 0
  BY NoSessionType DEF NoSession, SessionType
<1>3. phone[up.asset].version \in Version /\ Size[Current] \in Nat
  BY CurrentFacts
<1>4. jobs' \in [Library -> SUBSET Original]
  BY ReplacedJobs
<1> QED
  <2>1. /\ NoUpload.version <= phone[up.asset].version /\ NoUpload.offset <= Size[Current]
        /\ ~Unedited(up.asset, NoUpload.version)
    BY <1>1, <1>3, BackupUploadAssumption DEF Version, Unedited
  <2>2. Len(NoSession.got) <= Size[Current]
    BY <1>2, <1>3
  <2>3. /\ saved' = [saved EXCEPT ![up.library][Current] = NoUpload]
        /\ session' = [session EXCEPT ![up.library][Current] = NoSession]
    BY DEF Replace
  <2> QED
    BY <1>1, <1>2, <1>4, <2>1, <2>2, <2>3, CurrentMoves

\* Another try, or the end of the item for this pass.
LEMMA MissingKeeps ==
  ASSUME Sound, up.at # "idle", up.at # "check", Missing,
         UNCHANGED <<phone, conn, receipts, removing, live, trashed, rm, ghosts, left>>
  PROVE  Sound'
<1>1. LedgerTypes' /\ ServerTypes' /\ SessionsOK' /\ ReceiptIsTrue'
  BY Forgotten DEF Missing
<1>2. UpTypes' /\ UpOK'
  <2>1. CASE up' = Resting
    BY <2>1, RestingFacts
  <2>2. CASE up' = [up EXCEPT !.at = "open", !.offset = 0, !.restarts = @ + 1]
    <3>1. UpTypes'
      <4>1. UpTypes /\ up.restarts + 1 \in Nat
        BY DEF Sound, Types, UpTypes
      <4> QED
        BY <2>2, <4>1 DEF UpTypes
    <3>2. /\ up'.at = "open" /\ up'.library = up.library /\ up'.asset = up.asset
          /\ up'.part = up.part /\ up'.version = up.version /\ up'.proofs = up.proofs
      BY <2>2 DEF Sound, Types, UpTypes
    <3>3. UpOK'
      BY <3>2 DEF Sound, UpOK, Sending, Unedited, ghosts
    <3> QED
      BY <3>1, <3>3
  <2> QED
    BY <2>1, <2>2 DEF Missing, Rest
<1>3. left' \in 0..left
  BY DEF Sound, Types, PhoneTypes
<1> QED
  BY <1>1, <1>2, <1>3, PassKeeps

LEMMA ConfirmedKeeps ==
  ASSUME Sound, up.at \in {"ask", "poll"}, Answer = "completed", Confirmed,
         UNCHANGED <<phone, conn, receipts, removing, live, trashed, rm, ghosts, left>>
  PROVE  Sound'
<1> DEFINE proof == Received(up.library, Current)
<1>1. LedgerTypes' /\ ServerTypes' /\ SessionsOK' /\ ReceiptIsTrue'
  BY Forgotten DEF Confirmed
<1>2. proof \in live[up.library] /\ up.library \in Library
  BY CurrentFacts DEF Answer
<1>3. proof \in Original /\ Len(Session.got) = Size[Current] /\ Session.got \in Seq(Bytes)
  BY <1>2, CurrentFacts, ReceivedIsOriginal
     DEF Sound, Types, ServerTypes, Received, Session, SessionType
<1>4. proof.of = <<up.asset, up.part>>
  BY CurrentFacts DEF Received
<1>5. ASSUME Unedited(up.asset, up.version)
      PROVE  proof = Pure(<<up.asset, up.part>>, up.version)
  <2>1. Upload.version = up.version
    BY DEF Sound, UpOK, Sending
  <2>2. \A k \in 1..Len(Session.got) : Session.got[k] = up.version
    BY <1>5, <2>1, CurrentFacts DEF SessionOK, Upload, Session, Current
  <2> QED
    BY <1>3, <2>2, CurrentFacts, ReceivedIsPure DEF Received, Session
<1> HIDE DEF proof
<1>6. /\ UpTypes /\ up.part \in 1..2 /\ up.proofs \in Seq(Original)
      /\ Len(up.proofs) = up.part - 1 /\ Part(up.asset) = 1..Parts(up.asset)
      /\ Parts(up.asset) \in {1, 2} /\ up.part \in Part(up.asset)
  BY CurrentFacts, PartFacts DEF Sound, Types, UpTypes, UpOK
<1>7. /\ Append(up.proofs, proof) \in Seq(Original)
      /\ Len(Append(up.proofs, proof)) = up.part
      /\ \A i \in 1..up.part :
           Append(up.proofs, proof)[i] = IF i < up.part THEN up.proofs[i] ELSE proof
  BY <1>3, <1>6, Appended
<1>8. /\ up'.library = up.library /\ up'.asset = up.asset /\ up'.version = up.version
      /\ up'.proofs = Append(up.proofs, proof)
      /\ IF up.part + 1 \in Part(up.asset)
         THEN up'.at = "open" /\ up'.part = up.part + 1
         ELSE up'.at = "check" /\ up'.part = up.part
  BY <1>6 DEF UpTypes, Confirmed, proof
<1>9. UpTypes'
  <2>1. CASE up.part + 1 \in Part(up.asset)
    <3>1. up' = [up EXCEPT !.proofs = Append(up.proofs, proof), !.at = "open",
                           !.part = up.part + 1, !.offset = 0, !.restarts = 0]
      BY <1>6, <2>1 DEF UpTypes, Confirmed, proof
    <3>2. up.part + 1 \in 1..2
      BY <1>6, <2>1
    <3> QED
      BY <1>6, <1>7, <3>1, <3>2 DEF UpTypes
  <2>2. CASE up.part + 1 \notin Part(up.asset)
    <3>1. up' = [up EXCEPT !.proofs = Append(up.proofs, proof), !.at = "check",
                           !.part = up.part, !.offset = 0, !.restarts = 0]
      BY <1>6, <2>2 DEF UpTypes, Confirmed, proof
    <3> QED
      BY <1>6, <1>7, <3>1 DEF UpTypes
  <2> QED
    BY <2>1, <2>2
<1>10. UpOK'
  <2>1. Len(up'.proofs) = IF up'.at = "check" THEN Parts(up'.asset) ELSE up'.part - 1
    <3>1. Len(up'.proofs) = up.part
      BY <1>7, <1>8
    <3>2. CASE up.part + 1 \in Part(up.asset)
      BY <1>6, <1>8, <3>1, <3>2
    <3>3. CASE up.part + 1 \notin Part(up.asset)
      <4>1. up.part = Parts(up.asset)
        BY <1>6, <3>3
      <4> QED
        BY <1>8, <3>1, <3>3, <4>1
    <3> QED
      BY <3>2, <3>3
  <2>2. /\ up'.library \in Library /\ up'.asset \in Asset /\ up'.part \in Part(up'.asset)
        /\ up'.version \in 1..phone'[up'.asset].version
    BY <1>6, <1>8, CurrentFacts
  <2>3. ASSUME NEW i \in 1..Len(up'.proofs)
        PROVE  /\ up'.proofs[i].of = <<up'.asset, i>>
               /\ Unedited(up.asset, up.version)' =>
                    up'.proofs[i] = Pure(<<up'.asset, i>>, up'.version)
    <3>1. i \in 1..up.part /\ up'.proofs[i] = IF i < up.part THEN up.proofs[i] ELSE proof
      BY <1>7, <1>8
    <3>2. Unedited(up.asset, up.version)' => Unedited(up.asset, up.version)
      BY <1>8 DEF Unedited, ghosts
    <3>3. CASE i < up.part
      BY <1>6, <1>8, <3>1, <3>2, <3>3 DEF Sound, UpOK
    <3>4. CASE i = up.part
      BY <1>4, <1>5, <1>8, <3>1, <3>2, <3>4
    <3> QED
      BY <1>6, <3>1, <3>3, <3>4
  <2>4. up'.at \notin Sending /\ up'.at # "send"
    BY <1>8 DEF Sending
  <2> QED
    BY <2>1, <2>2, <2>3, <2>4 DEF UpOK, Sending
<1> QED
  BY <1>1, <1>9, <1>10, PassKeeps DEF Sound, Types, PhoneTypes

LEMMA InterruptedKeeps ==
  ASSUME Sound, Interrupted
  PROVE  Sound'
<1>1. left' \in 0..left
  BY DEF Sound, Types, PhoneTypes, Interrupted, Disturbed
<1> QED
  BY <1>1, RestingFacts, PassMovesOn DEF Interrupted, Rest

LEMMA ListKeeps ==
  ASSUME Sound, NEW a \in Asset, List(a)
  PROVE  Sound'
<1> DEFINE started == [Resting EXCEPT !.at = "open", !.library = conn, !.asset = a,
                                      !.version = phone[a].version]
<1>1. conn \in Library /\ phone[a].version \in Version /\ phone[a].version \in Nat \ {0}
  BY BackupUploadAssumption DEF Sound, Types, PhoneTypes, List, Version
<1>2. LedgerTypes' /\ ReceiptIsTrue'
  <2>1. NoReceipt \in Receipt /\ ReceiptOK(a, NoReceipt) /\ DOMAIN NoReceipt.originals = {}
    BY DEF NoReceipt, Receipt, ReceiptOK
  <2>2. CASE receipts' = receipts
    BY <2>2, ReceiptsFrame DEF Sound, Types, LedgerTypes, List, ghosts
  <2>3. CASE receipts' = [receipts EXCEPT ![conn][a] = NoReceipt]
    <3>1. \A l \in Library : \A b \in Asset :
            receipts'[l][b] = IF l = conn /\ b = a THEN NoReceipt ELSE receipts[l][b]
      BY <1>1, <2>3 DEF Sound, Types, LedgerTypes
    <3>2. receipts' \in [Library -> [Asset -> Receipt]]
      BY <1>1, <2>1, <2>3 DEF Sound, Types, LedgerTypes
    <3>3. LedgerTypes'
      BY <2>1, <3>1, <3>2 DEF Sound, Types, LedgerTypes, List
    <3>4. ReceiptIsTrue'
      <4> SUFFICES ASSUME NEW l \in Library, NEW b \in Asset \ blurred,
                          NEW i \in DOMAIN receipts'[l][b].originals
                   PROVE  receipts'[l][b].originals[i] = Pure(<<b, i>>, receipts'[l][b].version)
        BY DEF ReceiptIsTrue, List, ghosts
      <4>1. receipts'[l][b] = receipts[l][b]
        BY <2>1, <3>1
      <4> QED
        BY <4>1 DEF Sound, ReceiptIsTrue
    <3> QED
      BY <3>3, <3>4
  <2> QED
    BY <2>2, <2>3 DEF List
<1>3. UpTypes' /\ UpOK'
  <2>1. CASE up' = Resting
    BY <2>1, RestingFacts
  <2>2. CASE up' = started
    <3>0. <<>> \in Seq(Original) /\ Len(<<>>) = 0
      OBVIOUS
    <3>1. UpTypes'
      <4>1. up' = [at |-> "open", library |-> conn, asset |-> a, version |-> phone[a].version,
                   part |-> 1, copy |-> 0, offset |-> 0, restarts |-> 0, proofs |-> <<>>]
        BY <2>2 DEF Resting
      <4> QED
        BY <1>1, <3>0, <4>1 DEF UpTypes
    <3>2. /\ up'.at = "open" /\ up'.library = conn /\ up'.asset = a /\ up'.part = 1
          /\ up'.version = phone[a].version /\ up'.proofs = <<>>
      BY <2>2 DEF Resting
    <3>3. 1 \in Part(a) /\ UNCHANGED phone
      BY PartFacts DEF List
    <3>4. UpOK'
      BY <1>1, <3>0, <3>2, <3>3 DEF UpOK, Sending
    <3> QED
      BY <3>1, <3>4
  <2> QED
    BY <2>1, <2>2 DEF List
<1>4. ServerTypes' /\ SessionsOK'
  BY SessionsFrame DEF Sound, Types, ServerTypes, List, server, ghosts
<1> QED
  BY <1>2, <1>3, <1>4, PassKeeps DEF Sound, Types, PhoneTypes, List, server

LEMMA MarkKeeps ==
  ASSUME Sound, Mark
  PROVE  Sound'
<1> DEFINE receipt == [version |-> up.version, originals |-> up.proofs]
<1>1. /\ up.library \in Library /\ up.asset \in Asset /\ up.at = "check"
      /\ up.version \in Version /\ up.version # 0 /\ up.proofs \in Seq(Original)
      /\ Len(up.proofs) = Parts(up.asset)
      /\ \A i \in Part(up.asset) :
           /\ up.proofs[i].of = <<up.asset, i>>
           /\ Unedited(up.asset, up.version) =>
                up.proofs[i] = Pure(<<up.asset, i>>, up.version)
      /\ Part(up.asset) = 1..Parts(up.asset)
  <2>1. /\ up.library \in Library /\ up.asset \in Asset /\ up.at = "check"
        /\ up.version \in Version
    BY CurrentFacts DEF Mark
  <2>2. up.version # 0 /\ up.proofs \in Seq(Original)
    BY <2>1 DEF Sound, Types, UpTypes, Version
  <2>3. Part(up.asset) = 1..Parts(up.asset)
    BY <2>1, PartFacts
  <2>4. /\ Len(up.proofs) = Parts(up.asset)
        /\ \A i \in 1..Len(up.proofs) :
             /\ up.proofs[i].of = <<up.asset, i>>
             /\ Unedited(up.asset, up.version) =>
                  up.proofs[i] = Pure(<<up.asset, i>>, up.version)
    BY <2>1 DEF Sound, UpOK
  <2> QED
    BY <2>1, <2>2, <2>3, <2>4
<1>2. LedgerTypes' /\ ReceiptIsTrue'
  <2>1. CASE receipts' = receipts
    BY <2>1, ReceiptsFrame DEF Sound, Types, LedgerTypes, Mark, ghosts
  <2>2. CASE /\ receipts' = [receipts EXCEPT ![up.library][up.asset] = receipt]
             /\ phone[up.asset].version = up.version
    <3>1. receipt \in Receipt /\ ReceiptOK(up.asset, receipt)
      BY <1>1 DEF Receipt, ReceiptOK
    <3>2. \A l \in Library : \A b \in Asset :
            receipts'[l][b] = IF l = up.library /\ b = up.asset THEN receipt ELSE receipts[l][b]
      BY <1>1, <2>2 DEF Sound, Types, LedgerTypes
    <3>3. receipts' \in [Library -> [Asset -> Receipt]]
      BY <1>1, <2>2, <3>1 DEF Sound, Types, LedgerTypes
    <3>4. LedgerTypes'
      BY <3>1, <3>2, <3>3 DEF Sound, Types, LedgerTypes, Mark
    <3>5. DOMAIN receipt.originals = Part(up.asset) /\ receipt.version = up.version
          /\ receipt.originals = up.proofs
      BY <1>1
    <3>6. up.asset \notin blurred =>
            \A i \in DOMAIN receipt.originals :
              receipt.originals[i] = Pure(<<up.asset, i>>, receipt.version)
      BY <1>1, <2>2, <3>5 DEF Unedited
    <3> HIDE DEF receipt
    <3>7. ReceiptIsTrue'
      <4> SUFFICES ASSUME NEW l \in Library, NEW b \in Asset \ blurred,
                          NEW i \in DOMAIN receipts'[l][b].originals
                   PROVE  receipts'[l][b].originals[i] = Pure(<<b, i>>, receipts'[l][b].version)
        BY DEF ReceiptIsTrue, Mark, ghosts
      <4>1. CASE l = up.library /\ b = up.asset
        BY <3>2, <3>6, <4>1
      <4>2. CASE ~(l = up.library /\ b = up.asset)
        BY <3>2, <4>2 DEF Sound, ReceiptIsTrue
      <4> QED
        BY <4>1, <4>2
    <3> QED
      BY <3>4, <3>7
  <2> QED
    BY <2>1, <2>2 DEF Mark
<1>3. UpTypes' /\ UpOK'
  BY RestingFacts DEF Mark, Rest
<1>4. ServerTypes' /\ SessionsOK'
  BY SessionsFrame DEF Sound, Types, ServerTypes, Mark, server, ghosts
<1> QED
  BY <1>2, <1>3, <1>4, PassKeeps DEF Sound, Types, PhoneTypes, Mark, server

\* A pass goes on with the component it is at.
LEMMA SendingGoesOn ==
  ASSUME Sound, up.at \in {"open"} \cup Sending, UNCHANGED <<phone, ghosts>>,
         NEW at \in Sending, NEW offset \in Nat, NEW copy \in Bytes \cup {0},
         Unedited(up.asset, up.version) => copy \in {0, up.version},
         up' = [up EXCEPT !.at = at, !.offset = offset, !.copy = copy],
         Upload'.version = up.version,
         at = "send" => Upload'.offset = offset /\ offset < Size[Current],
         at \in {"ask", "complete"} => Upload'.offset = Size[Current]
  PROVE  UpTypes' /\ UpOK'
<1>1. UpTypes /\ UpOK /\ up.at \notin {"idle", "check"}
  BY DEF Sound, Types, Sending
<1>2. /\ up'.at = at /\ up'.offset = offset /\ up'.copy = copy
      /\ up'.library = up.library /\ up'.asset = up.asset /\ up'.version = up.version
      /\ up'.part = up.part /\ up'.proofs = up.proofs
  BY <1>1 DEF UpTypes
<1>3. UpTypes'
  BY <1>1 DEF UpTypes, Sending
<1>4. Current' = Current
  BY <1>2 DEF Current
<1>5. Unedited(up.asset, up.version)' => Unedited(up.asset, up.version)
  BY <1>2 DEF Unedited, ghosts
<1>6. UpOK'
  <2>1. /\ up'.library \in Library /\ up'.asset \in Asset /\ up'.part \in Part(up'.asset)
        /\ up'.version \in 1..phone'[up'.asset].version
    BY <1>1, <1>2, CurrentFacts
  <2>2. Len(up'.proofs) = up'.part - 1 /\ up'.at # "check"
    BY <1>1, <1>2 DEF UpOK, Sending
  <2>3. \A i \in 1..Len(up'.proofs) :
          /\ up'.proofs[i].of = <<up'.asset, i>>
          /\ Unedited(up.asset, up.version)' =>
               up'.proofs[i] = Pure(<<up'.asset, i>>, up'.version)
    BY <1>1, <1>2, <1>5 DEF UpOK
  <2>4. Unedited(up.asset, up.version)' => up'.copy \in {0, up'.version}
    BY <1>2, <1>5
  <2> QED
    BY <1>2, <1>4, <2>1, <2>2, <2>3, <2>4 DEF UpOK, Sending
<1> QED
  BY <1>3, <1>6

\* The item's own record of the upload is what it was opened with or what a new
\* session is opened for; what is read of the item from here on is of the
\* version listed, if the item still has it at the end.
LEMMA StartOrResumeKeeps ==
  ASSUME Sound, StartOrResume
  PROVE  Sound'
<1> DEFINE copy == IF up.asset \in Spooled THEN phone[up.asset].bytes ELSE 0
<1>1. /\ UpTypes /\ UpOK /\ up.at = "open"
      /\ UNCHANGED <<phone, conn, receipts, removing, live, trashed, rm, ghosts, left>>
  BY DEF Sound, Types, StartOrResume
<1>2. copy \in Bytes \cup {0}
  BY <1>1, CurrentFacts
<1>3. Unedited(up.asset, up.version) => copy \in {0, up.version}
  BY <1>1, CurrentFacts DEF Sound, PhoneOK, Unedited
<1> HIDE DEF copy
<1>4. left' \in 0..left
  BY <1>1 DEF Sound, Types, PhoneTypes
<1>5. CASE ~phone[up.asset].here
  BY <1>1, <1>4, <1>5, RestingFacts, PassMovesOn DEF StartOrResume, Rest, ledger, server
<1>6. ASSUME NEW at \in {"ask", "send"}, NEW offset \in Nat,
             up' = [up EXCEPT !.at = at, !.offset = offset, !.copy = copy],
             Upload'.version = up.version, Upload'.offset = offset,
             at = "send" => offset < Size[Current],
             at = "ask" => offset = Size[Current]
      PROVE  UpTypes' /\ UpOK'
  BY <1>1, <1>2, <1>3, <1>6, SendingGoesOn DEF Sending
<1>7. CASE phone[up.asset].here /\ CanResume
  <2>1. /\ up' = [up EXCEPT !.at = IF Upload.offset = Size[Current] THEN "ask" ELSE "send",
                            !.offset = Upload.offset, !.copy = copy]
        /\ UNCHANGED <<saved, session, jobs>>
    BY <1>7 DEF StartOrResume, copy
  <2>2. /\ Upload.version = up.version /\ Upload.offset \in Nat
        /\ Upload.offset <= Size[Current] /\ Size[Current] \in Nat
    BY <1>1, <1>7, CurrentFacts DEF CanResume, UploadType
  <2>3. Upload' = Upload
    BY <2>1, <1>1 DEF Upload, Current, UpTypes
  <2>4. UpTypes' /\ UpOK'
    <3>1. CASE Upload.offset = Size[Current]
      BY <1>6, <2>1, <2>2, <2>3, <3>1
    <3>2. CASE Upload.offset # Size[Current]
      <4>1. /\ up' = [up EXCEPT !.at = "send", !.offset = Upload.offset, !.copy = copy]
            /\ Upload'.version = up.version /\ Upload'.offset = Upload.offset
            /\ Upload.offset < Size[Current]
        BY <2>1, <2>2, <2>3, <3>2
      <4> QED
        BY <1>6, <2>2, <4>1
    <3> QED
      BY <3>1, <3>2
  <2> QED
    BY <1>1, <1>4, <2>1, <2>4, PassMovesOn DEF ledger, server
<1>8. CASE phone[up.asset].here /\ ~CanResume
  <2> DEFINE upload == [version |-> up.version, offset |-> 0]
             new == [got |-> <<>>, status |-> "receiving"]
  <2>1. /\ Replace(upload, new)
        /\ up' = [up EXCEPT !.at = "send", !.offset = 0, !.copy = copy]
    BY <1>8 DEF StartOrResume, copy
  <2>2. upload \in UploadType /\ new \in SessionType /\ Len(new.got) = 0
    BY <1>1, CurrentFacts DEF UploadType, SessionType, Statuses
  <2>3. up.version \in 1..phone[up.asset].version /\ Size[Current] \in Nat \ {0}
        /\ phone[up.asset].version \in Nat
    BY <1>1, CurrentFacts, BackupUploadAssumption DEF Version
  <2>4. jobs' \in [Library -> SUBSET Original]
    BY <1>1, <2>1, ReplacedJobs
  <2>5. /\ saved' = [saved EXCEPT ![up.library][Current] = upload]
        /\ session' = [session EXCEPT ![up.library][Current] = new]
    BY <2>1 DEF Replace
  <2>6. /\ LedgerTypes' /\ ServerTypes' /\ SessionsOK' /\ ReceiptIsTrue'
        /\ saved'[up.library][Current] = upload
    <3>1. /\ upload.version # 0 /\ upload.offset <= Size[Current]
          /\ upload.version <= phone[up.asset].version
          /\ upload.offset <= Len(new.got) /\ Len(new.got) <= Size[Current]
          /\ \A k \in 1..Len(new.got) : new.got[k] = upload.version
          /\ new.status = "receiving"
      BY <2>2, <2>3
    <3> HIDE DEF upload, new
    <3> QED
      BY <1>1, <2>2, <2>4, <2>5, <3>1, CurrentMoves
  <2>7. Upload' = upload
    BY <1>1, <2>1, <2>6 DEF Upload, Current, UpTypes
  <2>8. UpTypes' /\ UpOK'
    <3>1. Upload'.version = up.version /\ Upload'.offset = 0 /\ 0 < Size[Current]
      BY <2>3, <2>7
    <3>2. up' = [up EXCEPT !.at = "send", !.offset = 0, !.copy = copy] /\ 0 \in Nat
      BY <2>1
    <3> QED
      BY <1>6, <3>1, <3>2
  <2> QED
    BY <1>1, <1>4, <2>6, <2>8, PassKeeps
<1> QED
  BY <1>5, <1>7, <1>8

LEMMA AskKeeps ==
  ASSUME Sound, Ask
  PROVE  Sound'
<1>1. /\ up.at = "ask" /\ UpTypes /\ UpOK
      /\ UNCHANGED <<phone, conn, receipts, removing, live, trashed, rm, ghosts, left>>
      /\ left' \in 0..left
  BY DEF Sound, Types, PhoneTypes, Ask
<1>2. CASE Answer = "completed" /\ Confirmed
  BY <1>1, <1>2, ConfirmedKeeps
<1>3. CASE Missing
  BY <1>1, <1>3, MissingKeeps
<1>4. CASE Goto("complete") /\ UNCHANGED <<saved, session, jobs>>
  <2>1. /\ Upload.version = up.version /\ Upload.offset = Size[Current]
        /\ up.copy \in Bytes \cup {0} /\ up.offset \in Nat
        /\ (Unedited(up.asset, up.version) => up.copy \in {0, up.version})
    BY <1>1 DEF UpOK, UpTypes, Sending
  <2>2. up' = [up EXCEPT !.at = "complete", !.offset = up.offset, !.copy = up.copy]
    BY <1>1, <1>4 DEF UpTypes, Goto
  <2>3. Upload' = Upload
    BY <1>4, <1>1 DEF Upload, Current, Goto, UpTypes
  <2>4. UpTypes' /\ UpOK'
    BY <1>1, <2>1, <2>2, <2>3, SendingGoesOn DEF Sending
  <2> QED
    BY <1>1, <1>4, <2>4, PassMovesOn DEF ledger, server
<1> QED
  BY <1>2, <1>3, <1>4 DEF Ask

LEMMA PollKeeps ==
  ASSUME Sound, Poll
  PROVE  Sound'
<1>1. /\ up.at = "poll"
      /\ UNCHANGED <<phone, conn, receipts, removing, live, trashed, rm, ghosts, left>>
      /\ left' \in 0..left
  BY DEF Sound, Types, PhoneTypes, Poll
<1>2. CASE Answer = "completed" /\ Confirmed
  BY <1>1, <1>2, ConfirmedKeeps
<1>3. CASE Missing
  BY <1>1, <1>3, MissingKeeps
<1>4. CASE Rest /\ UNCHANGED <<saved, session, jobs>>
  BY <1>1, <1>4, RestingFacts, PassMovesOn DEF Rest, ledger, server
<1> QED
  BY <1>2, <1>3, <1>4 DEF Poll

\* A chunk read from the item, or from the copy of it, is of the version listed
\* if the item still has it.
LEMMA ReadFacts ==
  ASSUME Sound, up.at = "send"
  PROVE  /\ Read \in Bytes
         /\ Unedited(up.asset, up.version) => Read = up.version
<1>1. phone[up.asset].bytes \in Bytes /\ up.copy \in Bytes \cup {0} /\ up.asset \in Asset
  BY CurrentFacts DEF Sound, Types, UpTypes
<1>2. Unedited(up.asset, up.version) => phone[up.asset].bytes = up.version
  BY <1>1 DEF Sound, PhoneOK, Unedited
<1>3. Unedited(up.asset, up.version) /\ up.copy # 0 => up.copy = up.version
  BY DEF Sound, UpOK, Sending
<1> QED
  BY <1>1, <1>2, <1>3 DEF Read

\* What the session has received once the chunk has arrived.
LEMMA ChunkArrives ==
  ASSUME Sound, up.at = "send", Session.status = "receiving",
         NEW got, got = IF up.offset = Len(Session.got) THEN Append(Session.got, Read)
                                                        ELSE Session.got
  PROVE  /\ got \in Seq(Bytes) /\ Len(got) <= Size[Current]
         /\ up.offset <= Len(got) /\ Len(Session.got) <= Len(got)
         /\ Unedited(up.asset, up.version) =>
              \A k \in 1..Len(got) : got[k] = up.version
<1>1. /\ up.offset = Upload.offset /\ up.offset < Size[Current] /\ Upload.version = up.version
  BY DEF Sound, UpOK, Sending
<1>2. /\ Session.got \in Seq(Bytes) /\ Len(Session.got) \in Nat /\ Size[Current] \in Nat
      /\ Len(Session.got) <= Size[Current] /\ up.offset <= Len(Session.got)
      /\ up.offset \in Nat
      /\ Unedited(up.asset, up.version) =>
           \A k \in 1..Len(Session.got) : Session.got[k] = up.version
  BY <1>1, CurrentFacts DEF SessionOK, Session, SessionType, Upload, UploadType
<1>3. CASE up.offset = Len(Session.got)
  <2>1. /\ got \in Seq(Bytes) /\ Len(got) = Len(Session.got) + 1
        /\ \A k \in 1..Len(got) :
             got[k] = IF k <= Len(Session.got) THEN Session.got[k] ELSE Read
    BY <1>2, <1>3, ReadFacts, Appended
  <2> QED
    BY <1>1, <1>2, <1>3, <2>1, ReadFacts
<1>4. CASE up.offset # Len(Session.got)
  BY <1>2, <1>4
<1> QED
  BY <1>3, <1>4

LEMMA ChunkUnansweredKeeps ==
  ASSUME Sound, ChunkUnanswered
  PROVE  Sound'
<1> DEFINE got == Append(Session.got, Read)
           new == [Session EXCEPT !.got = got]
<1>1. /\ up.at = "send" /\ up.at # "idle" /\ Session.status = "receiving"
      /\ up.offset = Len(Session.got)
      /\ UNCHANGED <<phone, conn, receipts, removing, live, trashed, rm, ghosts>>
      /\ left' \in 0..left /\ UNCHANGED <<saved, up, jobs>>
  BY DEF Sound, Types, PhoneTypes, ChunkUnanswered, Disturbed, ledger
<1>2. /\ got \in Seq(Bytes) /\ Len(got) <= Size[Current]
      /\ up.offset <= Len(got)
      /\ Unedited(up.asset, up.version) => \A k \in 1..Len(got) : got[k] = up.version
  BY <1>1, ChunkArrives
<1>3. Session \in SessionType /\ Upload \in UploadType /\ up.library \in Library /\ Current \in Component
      /\ (Upload.version = 0 => Upload = NoUpload)
      /\ Upload.offset <= Size[Current]
  BY <1>1, CurrentFacts
<1>4. Upload.version = up.version /\ Upload.offset = up.offset
      /\ up.version <= phone[up.asset].version
  BY <1>1, CurrentFacts DEF Sound, UpOK, Sending
<1> HIDE DEF got
<1>5. new \in SessionType /\ new.got = got /\ new.status = "receiving"
  BY <1>1, <1>2, <1>3 DEF SessionType
<1>6. session' = [session EXCEPT ![up.library][Current] = new]
  BY <1>3 DEF ChunkUnanswered, Session, got
<1>7. saved' = [saved EXCEPT ![up.library][Current] = Upload]
  BY <1>1, <1>3 DEF Upload, Sound, Types, LedgerTypes
<1>8. jobs' \in [Library -> SUBSET Original]
  BY <1>1 DEF Sound, Types, ServerTypes
<1> HIDE DEF new
<1>9. LedgerTypes' /\ ServerTypes' /\ SessionsOK' /\ ReceiptIsTrue'
  BY <1>1, <1>2, <1>3, <1>4, <1>5, <1>6, <1>7, <1>8, CurrentMoves
<1>10. UpTypes' /\ UpOK'
  BY <1>1, UpFrame DEF Sound, Types, UpTypes, ghosts
<1> QED
  BY <1>1, <1>9, <1>10, PassKeeps

LEMMA SendChunkKeeps ==
  ASSUME Sound, SendChunk
  PROVE  Sound'
<1>1. /\ up.at = "send" /\ up.at # "idle" /\ up.at # "check" /\ UpTypes /\ UpOK
      /\ UNCHANGED <<phone, conn, receipts, removing, live, trashed, rm, ghosts, left>>
      /\ left' \in 0..left
  BY DEF Sound, Types, PhoneTypes, SendChunk
<1>2. CASE Missing
  BY <1>1, <1>2, MissingKeeps
<1>3. CASE Rest /\ UNCHANGED <<saved, session, jobs>>
  BY <1>1, <1>3, RestingFacts, PassMovesOn DEF Rest, ledger, server
<1>4. CASE Session.status = "receiving"
  <2> DEFINE got == IF up.offset = Len(Session.got) THEN Append(Session.got, Read)
                    ELSE Session.got
             new == [Session EXCEPT !.got = got]
             upload == [Upload EXCEPT !.offset = Len(got)]
             at == IF Len(got) = Size[Current] THEN "complete" ELSE "send"
  <2>1. /\ got \in Seq(Bytes) /\ Len(got) <= Size[Current]
        /\ up.offset <= Len(got)
        /\ Unedited(up.asset, up.version) => \A k \in 1..Len(got) : got[k] = up.version
    BY <1>1, <1>4, ChunkArrives
  <2>2. /\ Session \in SessionType /\ Upload \in UploadType /\ up.library \in Library
        /\ Current \in Component /\ Size[Current] \in Nat
        /\ up.version \in 1..phone[up.asset].version /\ up.version # 0
        /\ phone[up.asset].version \in Nat
    BY <1>1, CurrentFacts DEF Version
  <2>3. Upload.version = up.version
    BY <1>1 DEF UpOK, Sending
  <2>4. /\ session' = [session EXCEPT ![up.library][Current].got = got]
        /\ saved' = [saved EXCEPT ![up.library][Current].offset = Len(got)]
        /\ up' = [up EXCEPT !.offset = Len(got), !.at = at]
        /\ UNCHANGED jobs
    BY <1>4 DEF SendChunk
  <2> HIDE DEF got
  <2>5. /\ new \in SessionType /\ new.got = got /\ new.status = "receiving"
        /\ upload \in UploadType /\ upload.version = up.version /\ upload.offset = Len(got)
        /\ Len(got) \in Nat
    BY <1>4, <2>1, <2>2, <2>3, SMTT(40) DEF SessionType, UploadType
  <2>6. /\ session' = [session EXCEPT ![up.library][Current] = new]
        /\ saved' = [saved EXCEPT ![up.library][Current] = upload]
    BY <2>2, <2>4 DEF Session, Upload
  <2>7. jobs' \in [Library -> SUBSET Original]
    BY <2>4 DEF Sound, Types, ServerTypes
  <2> HIDE DEF new, upload
  <2>8. /\ LedgerTypes' /\ ServerTypes' /\ SessionsOK' /\ ReceiptIsTrue'
        /\ saved'[up.library][Current] = upload
    <3>1. /\ upload.version # 0 /\ upload.version <= phone[up.asset].version
          /\ upload.offset <= Size[Current] /\ upload.offset <= Len(new.got)
          /\ Len(new.got) <= Size[Current]
      BY <2>1, <2>2, <2>5
    <3>2. Unedited(up.asset, upload.version) =>
            \A k \in 1..Len(new.got) : new.got[k] = upload.version
      BY <2>1, <2>5
    <3> QED
      BY <1>1, <2>5, <2>6, <2>7, <3>1, <3>2, CurrentMoves
  <2>9. Upload' = upload
    BY <1>1, <2>4, <2>8 DEF Upload, Current, UpTypes
  <2>10. UpTypes' /\ UpOK'
    <3>1. at \in Sending /\ up.at \in Sending /\ UNCHANGED <<phone, ghosts>>
      BY <1>1 DEF Sending
    <3>2. up' = [up EXCEPT !.at = at, !.offset = Len(got), !.copy = up.copy]
      BY <1>1, <2>4 DEF UpTypes
    <3>3. /\ at = "send" => Upload'.offset = Len(got) /\ Len(got) < Size[Current]
          /\ at \in {"ask", "complete"} => Upload'.offset = Size[Current]
      BY <2>1, <2>2, <2>5, <2>9
    <3>4. /\ up.copy \in Bytes \cup {0}
          /\ (Unedited(up.asset, up.version) => up.copy \in {0, up.version})
      BY <1>1 DEF UpOK, UpTypes, Sending
    <3> HIDE DEF at
    <3> QED
      BY <2>5, <2>9, <3>1, <3>2, <3>3, <3>4, SendingGoesOn
  <2> QED
    BY <1>1, <2>8, <2>10, PassKeeps
<1> QED
  BY <1>2, <1>3, <1>4 DEF SendChunk

\* The hand-over: all of it was received, and the session is queued.
LEMMA HandOver ==
  ASSUME Sound, up.at = "complete", HandedOver,
         UNCHANGED <<phone, saved, receipts, jobs, live, trashed, ghosts>>
  PROVE  LedgerTypes' /\ ServerTypes' /\ SessionsOK' /\ ReceiptIsTrue'
<1> DEFINE new == [Session EXCEPT !.status = IF @ = "receiving" THEN "queued" ELSE @]
<1>1. /\ Session \in SessionType /\ Upload \in UploadType /\ up.library \in Library
      /\ Current \in Component /\ Size[Current] \in Nat
      /\ (Upload.version = 0 => Upload = NoUpload)
      /\ SessionOK(up.library, Current) /\ up.version <= phone[up.asset].version
      /\ Len(Session.got) \in Nat
  BY CurrentFacts DEF SessionType
<1>2. Upload.version = up.version /\ Upload.offset = Size[Current]
  BY DEF Sound, UpOK, Sending
<1>3. /\ Len(Session.got) <= Size[Current]
      /\ Session.status # "missing" => Len(Session.got) = Size[Current]
      /\ Unedited(up.asset, up.version) =>
           \A k \in 1..Len(Session.got) : Session.got[k] = up.version
  BY <1>1, <1>2, CurrentFacts DEF SessionOK, Session, Upload
<1>4. new \in SessionType /\ new.got = Session.got
      /\ (new.status = "missing" <=> Session.status = "missing")
  BY <1>1 DEF SessionType, Statuses
<1>5. session' = [session EXCEPT ![up.library][Current] = new]
  BY <1>1 DEF HandedOver, Session
<1>6. saved' = [saved EXCEPT ![up.library][Current] = Upload]
  BY <1>1 DEF Upload, Sound, Types, LedgerTypes
<1>7. jobs' \in [Library -> SUBSET Original]
  BY DEF Sound, Types, ServerTypes
<1> HIDE DEF new
<1>8. /\ Upload.version <= phone[up.asset].version /\ Upload.offset <= Size[Current]
      /\ Len(new.got) <= Size[Current]
      /\ new.status # "missing" => Upload.offset <= Len(new.got)
      /\ new.status \in {"queued", "succeeded", "failed"} => Len(new.got) = Size[Current]
      /\ Unedited(up.asset, Upload.version) =>
           \A k \in 1..Len(new.got) : new.got[k] = Upload.version
  BY <1>1, <1>2, <1>3, <1>4
<1> QED
  BY <1>1, <1>4, <1>5, <1>6, <1>7, <1>8, CurrentMoves

LEMMA CompleteKeeps ==
  ASSUME Sound, Complete
  PROVE  Sound'
<1>1. /\ up.at = "complete" /\ up.at # "idle" /\ up.at # "check" /\ UpTypes /\ UpOK
      /\ UNCHANGED <<phone, conn, receipts, removing, live, trashed, rm, ghosts, left>>
      /\ left' \in 0..left
  BY DEF Sound, Types, PhoneTypes, Complete
<1>2. CASE Missing
  BY <1>1, <1>2, MissingKeeps
<1>3. CASE HandedOver /\ Goto("poll") /\ UNCHANGED <<saved, jobs>>
  <2>1. LedgerTypes' /\ ServerTypes' /\ SessionsOK' /\ ReceiptIsTrue'
    BY <1>1, <1>3, HandOver
  <2>2. /\ Upload.version = up.version
        /\ up.copy \in Bytes \cup {0} /\ up.offset \in Nat
        /\ (Unedited(up.asset, up.version) => up.copy \in {0, up.version})
    BY <1>1 DEF UpOK, UpTypes, Sending
  <2>3. up' = [up EXCEPT !.at = "poll", !.offset = up.offset, !.copy = up.copy]
    BY <1>1, <1>3 DEF UpTypes, Goto
  <2>4. Upload' = Upload
    BY <1>3, <1>1 DEF Upload, Current, Goto, UpTypes
  <2>5. UpTypes' /\ UpOK'
    BY <1>1, <2>2, <2>3, <2>4, SendingGoesOn DEF Sending
  <2> QED
    BY <1>1, <2>1, <2>5, PassKeeps
<1> QED
  BY <1>2, <1>3 DEF Complete

LEMMA CompleteUnansweredKeeps ==
  ASSUME Sound, CompleteUnanswered
  PROVE  Sound'
<1>1. /\ up.at = "complete" /\ HandedOver /\ Rest
      /\ UNCHANGED <<phone, conn, receipts, saved, jobs, removing, live, trashed, rm, ghosts>>
      /\ left' \in 0..left
  BY DEF Sound, Types, PhoneTypes, CompleteUnanswered, Disturbed, ledger
<1> QED
  BY <1>1, HandOver, RestingFacts, PassKeeps DEF Rest

-----------------------------------------------------------------------------
(* Steps of a removal.                                                     *)

LEMMA AwayFacts ==
  ASSUME Types
  PROVE  /\ Away \in [at: {"idle", "remove", "dialog"}, library: Library \cup {Nowhere},
                      todo: SUBSET Asset, asset: Asset \cup {0}, part: 1..2,
                      hashed: BOOLEAN, receipts: [Asset -> Receipt], chosen: SUBSET Asset]
         /\ \A a \in Asset : ReceiptOK(a, Away.receipts[a])
<1>1. NoReceipt \in Receipt
  BY DEF NoReceipt, Receipt
<1> QED
  BY <1>1 DEF Away, ReceiptOK

\* A removal moves on, or is given up; nobody else notices.
LEMMA RemovalKeeps ==
  ASSUME Sound, UNCHANGED <<phone, conn, ledger, removing, server, up, blurred, left>>,
         late' \subseteq Asset, RmTypes', RmOK'
  PROVE  Sound'
<1>1. Types'
  BY DEF Sound, Types, LedgerTypes, ServerTypes, PhoneTypes, UpTypes, ledger, server
<1>2. PhoneOK' /\ SessionsOK' /\ UpOK' /\ ReceiptIsTrue'
  BY SessionsFrame, UpFrame, ReceiptsFrame DEF Sound, PhoneOK, ledger, server
<1> QED
  BY <1>1, <1>2 DEF Sound

LEMMA AwayKeeps ==
  ASSUME Types, rm' = Away
  PROVE  RmTypes' /\ RmOK'
<1>1. Checked' = {}
  BY DEF Checked, Away
<1>2. RmTypes'
  BY AwayFacts DEF RmTypes
<1>3. /\ rm'.todo \subseteq rm'.chosen /\ rm'.at = "idle" /\ rm'.asset = 0 /\ ~rm'.hashed
      /\ \A a \in Asset : ReceiptOK(a, rm'.receipts[a])
  BY AwayFacts DEF Away
<1>4. Away' = Away
  BY DEF Away
<1> QED
  BY <1>1, <1>2, <1>3, <1>4 DEF RmOK

LEMMA GivenUp ==
  ASSUME Sound, rm' = Away, UNCHANGED <<phone, conn, ledger, removing, server, up, ghosts, left>>
  PROVE  Sound'
  BY AwayKeeps, RemovalKeeps DEF Sound, Types, PhoneTypes, ghosts

LEMMA ConfirmKeeps ==
  ASSUME Sound, NEW E \in SUBSET Asset, Confirm(E)
  PROVE  Sound'
<1>1. /\ conn \in Library /\ receipts[conn] \in [Asset -> Receipt]
      /\ \A a \in Asset : ReceiptOK(a, receipts[conn][a])
  BY DEF Sound, Types, LedgerTypes, PhoneTypes, Confirm
<1>2. rm' = [at |-> "remove", library |-> conn, todo |-> E, chosen |-> E, asset |-> 0,
             part |-> 1, hashed |-> FALSE, receipts |-> receipts[conn]]
  BY DEF Confirm
<1>3. RmTypes'
  BY <1>1, <1>2 DEF RmTypes
<1>4. Checked' = {}
  BY <1>2 DEF Checked
<1>5. RmOK'
  BY <1>1, <1>2, <1>4 DEF RmOK
<1> QED
  BY <1>3, <1>5, RemovalKeeps DEF Confirm

\* A removal that turns to another item is a removal.
LEMMA RmTurnsTo ==
  ASSUME NEW At, NEW L, NEW T, NEW A, NEW P, NEW H, NEW R,
         NEW r \in [at: At, library: L, todo: T, asset: A, part: P, hashed: H, receipts: R,
                    chosen: T],
         NEW a \in A, NEW p \in P, NEW t \in T
  PROVE  [r EXCEPT !.asset = a, !.part = p, !.todo = t] \in
           [at: At, library: L, todo: T, asset: A, part: P, hashed: H, receipts: R, chosen: T]
  OBVIOUS

\* A check can only begin while no other item is checked, and starts with
\* nothing hashed and nothing proven.
LEMMA VerifyKeeps ==
  ASSUME Sound, NEW a \in Asset, Verify(a)
  PROVE  Sound'
<1>1. CASE rm' = Away
  BY <1>1, GivenUp DEF Verify
<1>2. CASE rm' # Away
  <2>1. /\ rm' = [rm EXCEPT !.asset = a, !.part = 1, !.todo = @ \ {a}]
        /\ rm.at = "remove" /\ rm.asset = 0 /\ a \in rm.todo
        /\ rm.library = conn /\ rm.receipts[a].version = phone[a].version
        /\ \A i \in DOMAIN rm.receipts[a].originals :
             rm.receipts[a].originals[i] \notin removing[conn]
    BY <1>2 DEF Verify
  <2>2. RmTypes /\ RmOK /\ ReceiptOK(a, rm.receipts[a]) /\ rm.receipts[a] \in Receipt
    BY DEF Sound, Types, RmTypes, RmOK
  <2>3. RmTypes'
    <3>1. rm' = [rm EXCEPT !.asset = a, !.part = 1, !.todo = @ \ {a}]
      BY <2>1
    <3>2. RmTypes
      BY <2>2
    <3>3. rm.todo \ {a} \in SUBSET Asset
      BY <3>2 DEF RmTypes
    <3>4. a \in Asset \cup {0} /\ 1 \in 1..2
      OBVIOUS
    <3> QED
      BY <3>1, <3>2, <3>3, <3>4, RmTurnsTo DEF RmTypes
  <2>4. /\ rm'.at = "remove" /\ rm'.library = rm.library /\ rm'.todo = rm.todo \ {a}
        /\ rm'.asset = a /\ rm'.part = 1 /\ rm'.hashed = rm.hashed
        /\ rm'.receipts = rm.receipts /\ rm'.chosen = rm.chosen
    <3>1. rm' = [rm EXCEPT !.asset = a, !.part = 1, !.todo = @ \ {a}]
      BY <2>1
    <3>2. RmTypes
      BY <2>2
    <3>3. rm'.todo = rm.todo \ {a}
      BY <3>1, <3>2 DEF RmTypes
    <3>4. /\ rm'.at = rm.at /\ rm'.library = rm.library /\ rm'.asset = a /\ rm'.part = 1
          /\ rm'.hashed = rm.hashed /\ rm'.receipts = rm.receipts /\ rm'.chosen = rm.chosen
      BY <3>1, <3>2 DEF RmTypes
    <3> QED
      BY <2>1, <3>3, <3>4
  <2>5. ~rm.hashed /\ rm.todo \subseteq rm.chosen /\ rm.library \in Library
    BY <2>1, <2>2 DEF RmOK
  <2>6. Checked' = Checked \cup {a} /\ a \notin Checked
    BY <2>1, <2>4, <2>5 DEF Checked
  <2>7. CheckOK(a)'
    <3>1. phone[a].version # 0
      BY DEF Sound, Types, PhoneTypes, Version
    <3>2. Len(rm.receipts[a].originals) = Parts(a)
      BY <2>1, <2>2, <3>1 DEF ReceiptOK, NoReceipt
    <3>3. DOMAIN rm.receipts[a].originals = Part(a) /\ Part(a) \subseteq 1..2
      BY <2>2, <3>2, PartFacts DEF Receipt
    <3>4. UNCHANGED removing
      BY DEF Verify
    <3> QED
      BY <2>1, <2>4, <2>5, <3>2, <3>3, <3>4 DEF CheckOK
  <2>8. ASSUME NEW b \in Checked \ late, b # a
        PROVE  \A i \in Part(b) : Proven(b, i)'
    <3>1. b \in Asset /\ b # rm.asset
      BY <2>1, <2>2, BackupUploadAssumption DEF RmTypes, Checked
    <3>2. \A i \in Part(b) : Proven(b, i)
      BY <2>2, <2>8, <3>1 DEF RmOK
    <3> QED
      BY <2>4, <3>2 DEF Proven, Verify, server
  <2>9. RmOK'
    <3>2. 1 \in Part(a)
      BY PartFacts
    <3>3. \A b \in (Checked \ late)' :
            IF b = rm'.asset THEN CheckOK(b)' ELSE \A i \in Part(b) : Proven(b, i)'
      BY <2>4, <2>6, <2>7, <2>8 DEF Verify, ghosts
    <3>4. a # 0 /\ a \in Checked'
      BY <2>6, BackupUploadAssumption
    <3>5. \A b \in Asset : ReceiptOK(b, rm'.receipts[b])
      BY <2>2, <2>4 DEF RmOK
    <3> QED
      BY <2>4, <2>5, <3>2, <3>3, <3>4, <3>5 DEF RmOK
  <2> QED
    BY <2>3, <2>9, RemovalKeeps DEF Verify, ghosts, Sound, Types, PhoneTypes
<1> QED
  BY <1>1, <1>2

\* The bytes hashed are those of the receipt.
LEMMA HashLocalKeeps ==
  ASSUME Sound, HashLocal
  PROVE  Sound'
<1>1. CASE rm' = Away
  BY <1>1, GivenUp DEF HashLocal
<1>2. CASE rm' # Away
  <2>1. /\ rm' = [rm EXCEPT !.hashed = TRUE] /\ rm.asset # 0
        /\ Pure(<<rm.asset, rm.part>>, phone[rm.asset].bytes) =
             rm.receipts[rm.asset].originals[rm.part]
    BY <1>2 DEF HashLocal
  <2>2. RmTypes /\ RmOK
    BY DEF Sound, Types
  <2>3. RmTypes'
    BY <2>1, <2>2 DEF RmTypes
  <2>4. /\ rm'.at = rm.at /\ rm'.library = rm.library /\ rm'.todo = rm.todo
        /\ rm'.asset = rm.asset /\ rm'.part = rm.part /\ rm'.hashed
        /\ rm'.receipts = rm.receipts /\ rm'.chosen = rm.chosen
    BY <2>1, <2>2 DEF RmTypes
  <2>5. rm.at = "remove"
    BY <2>1, <2>2 DEF RmTypes, RmOK, Away
  <2>6. Checked' = Checked /\ UNCHANGED <<phone, live, removing, late>>
    BY <2>4 DEF Checked, HashLocal, server, ghosts
  <2>7. \A b \in (Checked \ late)' :
          IF b = rm'.asset THEN CheckOK(b)' ELSE \A i \in Part(b) : Proven(b, i)'
    BY <2>1, <2>2, <2>4, <2>6 DEF RmOK, CheckOK, Proven
  <2>8. RmOK'
    BY <2>2, <2>4, <2>5, <2>6, <2>7, <2>1 DEF RmOK
  <2> QED
    BY <2>3, <2>8, RemovalKeeps DEF HashLocal, ghosts, Sound, Types, PhoneTypes
<1> QED
  BY <1>1, <1>2

\* What the server reads back is a live original that nobody is about to trash.
LEMMA VerifyOriginalKeeps ==
  ASSUME Sound, VerifyOriginal
  PROVE  Sound'
<1>1. CASE rm' = Away
  BY <1>1, GivenUp DEF VerifyOriginal
<1>2. CASE rm' # Away
  <2> DEFINE a == rm.asset
  <2>1. /\ a # 0 /\ rm.hashed
        /\ rm.library = conn /\ rm.receipts[a].originals[rm.part] \in live[conn]
        /\ \/ rm.part + 1 \in Part(a) /\ rm' = [rm EXCEPT !.part = @ + 1, !.hashed = FALSE]
           \/ rm.part + 1 \notin Part(a) /\ rm' = [rm EXCEPT !.asset = 0, !.hashed = FALSE]
    BY <1>2 DEF VerifyOriginal
  <2>2. RmTypes /\ RmOK /\ a \in Asset /\ a \in Checked /\ rm.part \in Part(a)
    BY <2>1 DEF Sound, Types, RmTypes, RmOK
  <2>3. rm.at = "remove"
    BY <2>1, <2>2 DEF RmTypes, RmOK, Away
  <2>4. Part(a) = 1..Parts(a) /\ Parts(a) \in {1, 2} /\ Part(a) \subseteq 1..2
    BY <2>2, PartFacts
  <2>5. UNCHANGED <<phone, live, removing, late>>
    BY DEF VerifyOriginal, server, ghosts
  <2>6. a \notin late => CheckOK(a) /\ \A i \in Part(a) : i <= rm.part => Proven(a, i)
    <3>1. SUFFICES ASSUME a \notin late
                   PROVE  CheckOK(a) /\ \A i \in Part(a) : i <= rm.part => Proven(a, i)
      OBVIOUS
    <3>2. CheckOK(a)
      BY <2>2, <3>1 DEF RmOK
    <3>3. Proven(a, rm.part)
      BY <2>1, <2>2, <3>2 DEF CheckOK, Proven
    <3>4. \A i \in Part(a) : i <= rm.part => i < rm.part \/ i = rm.part
      BY <2>2, <2>4
    <3> QED
      BY <3>2, <3>3, <3>4 DEF CheckOK
  <2>7. \A b \in Checked \ late : b # a => \A i \in Part(b) : Proven(b, i)
    BY <2>2 DEF RmOK
  <2>8. CASE rm.part + 1 \in Part(a)
    <3>1. rm' = [rm EXCEPT !.part = @ + 1, !.hashed = FALSE]
      BY <2>1, <2>8
    <3>2. RmTypes'
      BY <2>2, <2>4, <2>8, <3>1 DEF RmTypes
    <3>3. /\ rm'.at = rm.at /\ rm'.library = rm.library /\ rm'.todo = rm.todo
          /\ rm'.asset = a /\ rm'.part = rm.part + 1 /\ ~rm'.hashed
          /\ rm'.receipts = rm.receipts /\ rm'.chosen = rm.chosen
      BY <2>2, <3>1 DEF RmTypes
    <3>4. Checked' = Checked
      BY <3>3 DEF Checked
    <3>5. \A i \in Part(a) : i < rm.part + 1 => i <= rm.part
      BY <2>2, <2>4
    <3>6. a \notin late => CheckOK(a)'
      BY <2>5, <2>6, <3>3, <3>5 DEF CheckOK, Proven
    <3>7. \A b \in (Checked \ late)' :
            IF b = rm'.asset THEN CheckOK(b)' ELSE \A i \in Part(b) : Proven(b, i)'
      BY <2>5, <2>7, <3>3, <3>4, <3>6 DEF Proven
    <3>8. RmOK'
      BY <2>2, <2>3, <2>8, <3>3, <3>4, <3>7 DEF RmOK
    <3> QED
      BY <3>2, <3>8, RemovalKeeps DEF VerifyOriginal, ghosts, Sound, Types, PhoneTypes
  <2>9. CASE rm.part + 1 \notin Part(a)
    <3>1. rm' = [rm EXCEPT !.asset = 0, !.hashed = FALSE]
      BY <2>1, <2>9
    <3>2. RmTypes'
      BY <2>2, <3>1 DEF RmTypes
    <3>3. /\ rm'.at = rm.at /\ rm'.library = rm.library /\ rm'.todo = rm.todo
          /\ rm'.asset = 0 /\ ~rm'.hashed
          /\ rm'.receipts = rm.receipts /\ rm'.chosen = rm.chosen
      BY <2>2, <3>1 DEF RmTypes
    <3>4. Checked' = Checked /\ 0 \notin Checked
      BY <2>2, <3>3, BackupUploadAssumption DEF Checked, RmTypes
    <3>5. \A i \in Part(a) : i <= rm.part
      BY <2>2, <2>4, <2>9
    <3>6. \A b \in (Checked \ late)' :
            IF b = rm'.asset THEN CheckOK(b)' ELSE \A i \in Part(b) : Proven(b, i)'
      BY <2>5, <2>6, <2>7, <3>3, <3>4, <3>5 DEF Proven
    <3>8. RmOK'
      BY <2>2, <2>3, <3>3, <3>4, <3>6 DEF RmOK
    <3> QED
      BY <3>2, <3>8, RemovalKeeps DEF VerifyOriginal, ghosts, Sound, Types, PhoneTypes
  <2> QED
    BY <2>8, <2>9
<1> QED
  BY <1>1, <1>2

LEMMA VerifiedKeeps ==
  ASSUME Sound, Verified
  PROVE  Sound'
<1>1. CASE rm' = Away
  BY <1>1, GivenUp DEF Verified
<1>2. CASE rm' # Away
  <2>1. rm' = [rm EXCEPT !.at = "dialog"] /\ rm.at = "remove" /\ rm.asset = 0 /\ rm.todo = {}
    BY <1>2 DEF Verified
  <2>2. RmTypes /\ RmOK
    BY DEF Sound, Types
  <2>3. RmTypes'
    BY <2>1, <2>2 DEF RmTypes
  <2>4. /\ rm'.at = "dialog" /\ rm'.library = rm.library /\ rm'.todo = rm.todo
        /\ rm'.asset = rm.asset /\ rm'.part = rm.part /\ rm'.hashed = rm.hashed
        /\ rm'.receipts = rm.receipts /\ rm'.chosen = rm.chosen
    BY <2>1, <2>2 DEF RmTypes
  <2>5. Checked' = Checked /\ UNCHANGED <<phone, live, removing, late>>
    BY <2>4 DEF Checked, Verified, server, ghosts
  <2>6. \A b \in (Checked \ late)' :
          IF b = rm'.asset THEN CheckOK(b)' ELSE \A i \in Part(b) : Proven(b, i)'
    BY <2>2, <2>4, <2>5 DEF RmOK, CheckOK, Proven
  <2>7. RmOK'
    BY <2>1, <2>2, <2>4, <2>5, <2>6 DEF RmOK
  <2> QED
    BY <2>3, <2>7, RemovalKeeps DEF Verified, ghosts, Sound, Types, PhoneTypes
<1> QED
  BY <1>1, <1>2

\* Items that are gone keep their bytes and their version in the model.
LEMMA RemoveKeeps ==
  ASSUME Sound, Remove
  PROVE  Sound'
<1>1. UNCHANGED <<conn, receipts, saved, removing, session, jobs, live, trashed, up, late,
                  blurred, left>> /\ rm' = Away
  BY DEF Remove, ledger, server, ghosts
<1>2. /\ phone' \in [Asset -> [bytes: Bytes, version: Version, here: BOOLEAN]]
      /\ \A a \in Asset : /\ phone'[a].bytes = phone[a].bytes
                          /\ phone'[a].version = phone[a].version
  <2>1. phone \in [Asset -> [bytes: Bytes, version: Version, here: BOOLEAN]]
    BY DEF Sound, Types, PhoneTypes
  <2>2. \A r \in [bytes: Bytes, version: Version, here: BOOLEAN] :
          LET gone == [r EXCEPT !.here = FALSE] IN
            /\ gone \in [bytes: Bytes, version: Version, here: BOOLEAN]
            /\ gone.bytes = r.bytes /\ gone.version = r.version
    OBVIOUS
  <2> QED
    BY <2>1, <2>2 DEF Remove
<1>3. RmTypes' /\ RmOK'
  BY <1>1, AwayKeeps DEF Sound
<1>4. Types'
  BY <1>1, <1>2, <1>3 DEF Sound, Types, LedgerTypes, ServerTypes, PhoneTypes, UpTypes
<1>5. PhoneOK' /\ ReceiptIsTrue'
  BY <1>1, <1>2, ReceiptsFrame DEF Sound, PhoneOK
<1>6. SessionsOK'
  <2> SUFFICES ASSUME NEW l \in Library, NEW c \in Component
               PROVE  SessionOK(l, c)'
    BY DEF SessionsOK
  <2> QED
    BY <1>1, <1>2, ComponentFacts DEF Sound, SessionsOK, SessionOK, Unedited
<1>7. UpOK'
  BY <1>1, <1>2 DEF Sound, UpOK, Unedited, Upload, Current
<1> QED
  BY <1>3, <1>4, <1>5, <1>6, <1>7 DEF Sound

LEMMA LeaveKeeps ==
  ASSUME Sound, Leave
  PROVE  Sound'
  BY GivenUp DEF Leave

-----------------------------------------------------------------------------
(* The theorems.                                                           *)

LEMMA InitSound ==
  ASSUME Init
  PROVE  Sound
<1> USE DEF Init
<1>1. MaxEvent \in Nat
  BY BackupUploadAssumption
<1>2. NoReceipt \in Receipt /\ \A a \in Asset : ReceiptOK(a, NoReceipt)
  BY DEF NoReceipt, Receipt, ReceiptOK
<1>3. /\ receipts = [l \in Library |-> [a \in Asset |-> NoReceipt]]
      /\ receipts \in [Library -> [Asset -> Receipt]]
      /\ \A l \in Library : \A a \in Asset : receipts[l][a] = NoReceipt
  BY <1>2
<1>4. /\ saved \in [Library -> [Component -> [version: Version \cup {0}, offset: Nat]]]
      /\ \A l \in Library : \A c \in Component : saved[l][c] = NoUpload
  BY DEF NoUpload
<1>5. /\ session \in [Library -> [Component -> [got: Seq(Bytes), status: Statuses]]]
      /\ \A l \in Library : \A c \in Component : session[l][c] = NoSession
  BY NoSessionType
<1>6. LedgerTypes
  BY <1>2, <1>3, <1>4, ComponentFacts DEF LedgerTypes, NoUpload
<1>7. ServerTypes
  BY <1>5 DEF ServerTypes
<1>8. PhoneTypes /\ PhoneOK
  <2>1. 1 \in Bytes /\ 1 \in Version /\ MaxEvent \in 0..MaxEvent
    BY <1>1 DEF Bytes, Version
  <2> QED
    BY <1>1, <2>1, BackupUploadAssumption DEF PhoneTypes, PhoneOK
<1>9. UpTypes /\ UpOK
  BY RestingFacts DEF UpTypes, UpOK, Resting
<1>10. RmTypes
  BY AwayFacts, <1>2 DEF RmTypes, Away
<1>11. Types
  BY <1>6, <1>7, <1>8, <1>9, <1>10 DEF Types
<1>12. RmOK
  BY <1>11, AwayFacts DEF RmOK, Away, Checked
<1>13. SessionsOK
  <2> SUFFICES ASSUME NEW l \in Library, NEW c \in Component
               PROVE  SessionOK(l, c)
    BY DEF SessionsOK
  <2>1. c[1] \in Asset /\ Size[c] \in Nat
    BY ComponentFacts
  <2> QED
    BY <1>4, <1>5, <2>1 DEF SessionOK, NoUpload, NoSession, Unedited
<1>14. ReceiptIsTrue
  BY <1>3 DEF ReceiptIsTrue, NoReceipt
<1> QED
  BY <1>8, <1>9, <1>11, <1>12, <1>13, <1>14 DEF Sound

LEMMA NextSound ==
  ASSUME Sound, [Next]_vars
  PROVE  Sound'
<1>1. CASE UNCHANGED vars
  <2>1. UNCHANGED <<phone, conn, receipts, saved, removing, session, jobs, live, trashed,
                    up, rm, late, blurred, left>>
    BY <1>1 DEF vars
  <2>2. Types'
    BY <2>1 DEF Sound, Types, LedgerTypes, ServerTypes, PhoneTypes, UpTypes, RmTypes
  <2>3. PhoneOK' /\ SessionsOK' /\ UpOK' /\ ReceiptIsTrue'
    BY <2>1, SessionsFrame, UpFrame, ReceiptsFrame DEF Sound, PhoneOK
  <2>4. RmOK'
    BY <2>1, RmFrame DEF Sound
  <2> QED
    BY <2>2, <2>3, <2>4 DEF Sound
<1>2. ASSUME NEW a \in Asset, Edit(a) \/ EditSilently(a) \/ List(a) \/ Verify(a)
      PROVE  Sound'
  BY <1>2, EditKeeps, ListKeeps, VerifyKeeps
<1>3. ASSUME NEW l \in Library \cup {Nowhere}, Switch(l)
      PROVE  Sound'
  BY <1>3, SwitchKeeps
<1>4. ASSUME NEW o \in Known,
             QueueRemoval(o) \/ SendRemoval(o) \/ \E l \in Library : Change(l, o)
      PROVE  Sound'
  <2>1. o \in Original
    BY DEF Known, Sound, Types, ServerTypes
  <2> QED
    BY <1>4, <2>1, QueueRemovalKeeps, SendRemovalKeeps, ChangeKeeps
<1>5. ASSUME NEW l \in Library, \/ \E c \in Component : Import(l, c) \/ Expire(l, c)
                                \/ \E o \in jobs[l] : ImportLeftOver(l, o)
      PROVE  Sound'
  <2>1. jobs[l] \subseteq Original
    BY DEF Sound, Types, ServerTypes
  <2> QED
    BY <1>5, <2>1, ImportKeeps, ExpireKeeps, ImportLeftOverKeeps
<1>6. CASE \/ StartOrResume \/ Ask \/ SendChunk \/ ChunkUnanswered
           \/ Complete \/ CompleteUnanswered \/ Poll \/ Mark \/ Interrupted
  BY <1>6, StartOrResumeKeeps, AskKeeps, SendChunkKeeps, ChunkUnansweredKeeps, CompleteKeeps,
     CompleteUnansweredKeeps, PollKeeps, MarkKeeps, InterruptedKeeps
<1>7. ASSUME NEW E \in SUBSET Asset, Confirm(E)
      PROVE  Sound'
  BY <1>7, ConfirmKeeps
<1>8. CASE HashLocal \/ VerifyOriginal \/ Verified \/ Remove \/ Leave
  BY <1>8, HashLocalKeeps, VerifyOriginalKeeps, VerifiedKeeps, RemoveKeeps, LeaveKeeps
<1> QED
  BY <1>1, <1>2, <1>3, <1>4, <1>5, <1>6, <1>7, <1>8 DEF Next

\* The inductive invariant of the upload and of the removal holds.
THEOREM BackupHolds == Spec => []Sound
<1>1. Init => Sound
  BY InitSound
<1>2. Sound /\ [Next]_vars => Sound'
  BY NextSound
<1> QED
  BY <1>1, <1>2, PTL DEF Spec

\* The parts of the model's type invariant that say more than a range: what the
\* phone has recorded of an upload is one original for each component of the
\* item (backup-ledger.ts), a session never receives more than the file has
\* (capture.go), and an original is live or in the trash, never both.
THEOREM BackupTypeCorrect == Spec => []BackupUploadTypeOK
<1>1. Sound => BackupUploadTypeOK
  <2> SUFFICES ASSUME Sound
               PROVE  BackupUploadTypeOK
    OBVIOUS
  <2>1. /\ phone \in [Asset -> [bytes: Bytes, version: Version, here: BOOLEAN]]
        /\ conn \in Library \cup {Nowhere}
    BY DEF Sound, Types, PhoneTypes
  <2>2. ASSUME NEW l \in Library, NEW a \in Asset, receipts[l][a] # NoReceipt
        PROVE  /\ receipts[l][a].version \in Version
               /\ Len(receipts[l][a].originals) = Cardinality(Part(a))
               /\ \A i \in Part(a) : receipts[l][a].originals[i] \in Original
    <3>1. ReceiptOK(a, receipts[l][a]) /\ receipts[l][a] \in Receipt
      BY DEF Sound, Types, LedgerTypes
    <3>2. Part(a) = 1..Len(receipts[l][a].originals)
      BY <2>2, <3>1, PartFacts DEF ReceiptOK
    <3> QED
      BY <2>2, <3>1, <3>2, PartFacts, ElementOfSeq DEF ReceiptOK, Receipt
  <2>3. ASSUME NEW l \in Library, NEW c \in Component
        PROVE  /\ saved[l][c] \in [version: Version, offset: 0..Size[c]] \cup {NoUpload}
               /\ session[l][c].got \in Seq(Bytes) /\ Len(session[l][c].got) <= Size[c]
               /\ session[l][c].status \in
                    {"missing", "receiving", "queued", "succeeded", "failed"}
    <3>1. /\ saved[l][c] \in [version: Version \cup {0}, offset: Nat]
          /\ saved[l][c].version = 0 => saved[l][c] = NoUpload
          /\ saved[l][c].offset <= Size[c]
      BY DEF Sound, Types, LedgerTypes
    <3>2. Size[c] \in Nat
      BY ComponentFacts
    <3>3. saved[l][c] \in [version: Version, offset: 0..Size[c]] \cup {NoUpload}
      BY <3>1, <3>2
    <3>4. session[l][c] \in [got: Seq(Bytes), status: Statuses] /\ SessionOK(l, c)
      BY DEF Sound, Types, ServerTypes, SessionsOK
    <3> QED
      BY <3>3, <3>4 DEF SessionOK, Statuses
  <2>4. \A l \in Library : live[l] \subseteq Original /\ trashed[l] \subseteq Original
                        /\ live[l] \cap trashed[l] = {} /\ removing[l] \cup jobs[l] \subseteq Original
    BY DEF Sound, Types, ServerTypes, PhoneTypes
  <2>5. /\ up.at \in {"idle", "open", "ask", "send", "complete", "poll", "check"}
        /\ rm.at \in {"idle", "remove", "dialog"}
        /\ rm.todo \cup rm.chosen \cup late \cup blurred \subseteq Asset
        /\ left \in 0..MaxEvent
    BY DEF Sound, Types, PhoneTypes, UpTypes, RmTypes
  <2> QED
    BY <2>1, <2>2, <2>3, <2>4, <2>5 DEF BackupUploadTypeOK
<1> QED
  BY <1>1, BackupHolds, PTL

\* A receipt proves the very bytes of the version it is for, whatever edits,
\* resumed sessions, lost answers and changes of the library came in between
\* (uploadFile of capture-api.ts, markBackedUp of backup-ledger.ts); only an
\* edit that leaves no trace in the metadata blurs it.
THEOREM ReceiptsAreTrue == Spec => []ReceiptIsTrue
  BY BackupHolds, PTL DEF Sound

\* Only the system's dialog takes a copy away.
LEMMA OnlyRemoveTakes ==
  ASSUME Sound, [Next]_vars, NEW a \in Asset, phone[a].here, ~phone'[a].here
  PROVE  rm.at = "dialog" /\ a \in rm.chosen
<1>1. phone \in [Asset -> [bytes: Bytes, version: Version, here: BOOLEAN]]
  BY DEF Sound, Types, PhoneTypes
<1>2. phone' # phone
  OBVIOUS
<1>3. ASSUME NEW b \in Asset, Edit(b) \/ EditSilently(b)
      PROVE  FALSE
  <2>1. phone'[a].here = phone[a].here
    BY <1>1, <1>3 DEF Edit, EditSilently
  <2> QED
    BY <2>1
<1>4. Remove
  BY <1>2, <1>3 DEF Next, vars, ledger, server, ghosts, List, Verify, Switch, QueueRemoval,
     SendRemoval, Change, Import, ImportLeftOver, Expire, StartOrResume, Ask, SendChunk,
     ChunkUnanswered, Complete, CompleteUnanswered, Poll, Mark, Interrupted, Confirm,
     HashLocal, VerifyOriginal, Verified, Leave
<1> QED
  BY <1>1, <1>4 DEF Remove

\* The phone gives up its copy of an item only while every component's bytes,
\* as they are then, are a live original of the library the user confirmed for,
\* with no removal queued (reclaim-verification.ts, the free-up-space screen):
\* unless the item changed after its own last check and before the dialog.
THEOREM ReclaimsKeepOriginals == Spec => ReclaimKeepsOriginal
<1> DEFINE Kept ==
      \A a \in Asset : phone[a].here /\ ~phone'[a].here =>
        \/ a \in late
        \/ \A i \in Part(a) :
             LET o == Pure(<<a, i>>, phone[a].bytes) IN
             o \in live[rm.library] \ removing[rm.library]
<1>1. Sound /\ [Next]_vars => Kept
  <2> SUFFICES ASSUME Sound, [Next]_vars, NEW a \in Asset, phone[a].here, ~phone'[a].here,
                      a \notin late
               PROVE  \A i \in Part(a) : Proven(a, i)
    BY DEF Proven
  <2>1. rm.at = "dialog" /\ a \in rm.chosen
    BY OnlyRemoveTakes
  <2>2. RmOK
    BY DEF Sound
  <2>3. rm.todo = {} /\ rm.asset = 0
    BY <2>1, <2>2 DEF RmOK
  <2>4. a \in Checked \ late /\ a # rm.asset
    BY <2>1, <2>3, BackupUploadAssumption DEF Checked
  <2> QED
    BY <2>2, <2>4 DEF RmOK
<1>2. Kept => [Kept]_vars
  OBVIOUS
<1>3. Spec => [][Kept]_vars
  BY <1>1, BackupHolds, PTL DEF Spec
<1> QED
  BY <1>3 DEF ReclaimKeepsOriginal
=============================================================================
