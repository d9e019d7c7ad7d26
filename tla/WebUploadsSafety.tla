-------------------------- MODULE WebUploadsSafety --------------------------
(***************************************************************************)
(* Proofs about WebUploads, for any accounts, any pages and any number of  *)
(* batches, mishaps and changes of the account: a photo chosen for upload  *)
(* stays in the queue until the server has it or has refused it, is        *)
(* accepted for no other account than the one it was queued for, and is    *)
(* sent by one context at a time while that one is within its lease.       *)
(***************************************************************************)
EXTENDS WebUploads, FiniteSetTheorems, WellFoundedInduction, TLAPS

(***************************************************************************)
(* The inductive invariant.  UploadsLand says nothing of the batch in a     *)
(* sender's memory; what is added does.                                     *)
(***************************************************************************)

RowTypes == DOMAIN store \subseteq Batch /\ store \in [DOMAIN store -> Row]

OtherTypes ==
  /\ made \in [Batch -> Owner \cup {NoOwner}]
  /\ cookie \in Owner \cup {NoOwner}
  /\ user \in [Page -> Owner \cup {NoOwner}]
  /\ sync \in {"unsupported", "none", "waiting", "firing", "again"}
  /\ accepted \in [Batch -> SUBSET Owner]
  /\ refused \subseteq Batch /\ outlived \subseteq Batch
  /\ events \in [mishap: 0..MaxEvent, switch: 0..MaxEvent]
  /\ broken \in BOOLEAN

Types == RowTypes /\ OtherTypes /\ drain \in [Context -> Progress]

\* Batches are queued in the order of their ids.
MadeOK == \E n \in 0..MaxBatch : \A b \in Batch : made[b] # NoOwner <=> b =< n

\* A row belongs to the account that its batch was queued for.
RowsOK == \A b \in DOMAIN store : store[b].owner = made[b] /\ made[b] # NoOwner

\* So does the batch in a sender's memory; what it is about to remove is settled.
Sending == {"check", "flight", "keep", "drop", "release"}
SenderOK(c) ==
  /\ drain[c].at \in Sending =>
       /\ drain[c].batch \in Batch
       /\ drain[c].owner \in Owner
       /\ made[drain[c].batch] = drain[c].owner
  /\ drain[c].at = "keep" => drain[c].owner \in accepted[drain[c].batch]
  /\ drain[c].at = "drop" => drain[c].batch \in refused
SendersOK == \A c \in Context : SenderOK(c)

Landing == Types /\ MadeOK /\ RowsOK /\ SendersOK /\ UploadsLand

-----------------------------------------------------------------------------
(* Facts the steps rest on.                                                *)

\* The oldest row that nobody holds is one of the rows.
LEMMA MinExists ==
  ASSUME NEW S \in SUBSET Nat, S # {}
  PROVE  Min(S) \in S
<1>1. IsWellFoundedOn(OpToRel(<,Nat), Nat)
  BY NatLessThanWellFounded
<1>2. PICK x \in S : \A y \in S : ~(<<y, x>> \in OpToRel(<,Nat))
  BY <1>1, WFMin
<1>3. \A y \in S : ~(y < x)
  BY <1>2 DEF OpToRel
<1>4. \A y \in S : x =< y
  BY <1>3
<1> QED
  BY <1>4 DEF Min

\* The batches queued so far are the first ones.
LEMMA MadeCounts ==
  ASSUME NEW n \in 0..MaxBatch, MaxBatch \in Nat,
         \A b \in Batch : made[b] # NoOwner <=> b =< n
  PROVE  Cardinality({b \in Batch : made[b] # NoOwner}) = n
<1>1. {b \in Batch : made[b] # NoOwner} = 1..n
  BY DEF Batch
<1>2. Cardinality(1..n) = n
  BY FS_Interval, 1 \in Int, n \in Int
<1> QED
  BY <1>1, <1>2

LEMMA IdleType == Idle \in Progress
BY WebUploadsAssumption DEF Idle, Progress, Step, Batch

\* The state e of a context has no batch to send or to settle that d did not have.
Continues(d, e) ==
  e.at \in Sending =>
    /\ d.at \in Sending /\ e.batch = d.batch /\ e.owner = d.owner
    /\ e.at \in {"keep", "drop"} => e.at = d.at

LEMMA WokenContinues ==
  ASSUME NEW d \in Progress, NEW u \in Owner \cup {NoOwner}
  PROVE  Woken(d, u) \in Progress /\ Continues(d, Woken(d, u))
<1>1. Woken(d, u) \in Progress
  <2>1. Started(u) \in Progress /\ [Started(u) EXCEPT !.added = d.added] \in Progress
    <3>1. \A e \in Progress, b \in BOOLEAN :
            [[e EXCEPT !.at = "count", !.owner = u] EXCEPT !.added = b] \in Progress
      BY DEF Progress, Step
    <3>2. \A e \in Progress : [e EXCEPT !.at = "count", !.owner = u] \in Progress
      BY DEF Progress, Step
    <3>3. d.added \in BOOLEAN
      BY DEF Progress
    <3> QED BY <3>1, <3>2, <3>3, IdleType DEF Started
  <2>2. [d EXCEPT !.again = TRUE] \in Progress
    BY DEF Progress
  <2> QED
    BY <2>1, <2>2 DEF Woken
<1>2. Continues(d, Woken(d, u))
  BY DEF Continues, Woken, Started, Progress, Idle, Sending
<1> QED
  BY <1>1, <1>2

LEMMA AbortContinues ==
  ASSUME NEW d \in Progress
  PROVE  Abort(d) \in Progress /\ Continues(d, Abort(d))
<1>1. d.aborted \in BOOLEAN
  BY DEF Progress
<1>2. \A q \in BOOLEAN : [d EXCEPT !.aborted = q] \in Progress
                         /\ Continues(d, [d EXCEPT !.aborted = q])
  BY DEF Progress, Continues
<1> QED
  BY <1>1, <1>2 DEF Abort

LEMMA ContinuesOn ==
  ASSUME NEW d, NEW e, NEW f, Continues(d, e), Continues(e, f)
  PROVE  Continues(d, f)
BY DEF Continues

\* Only one context moves, and to nothing new: most of the steps are so.
LEMMA OneMoves ==
  ASSUME Landing, NEW c \in Context, NEW e \in Progress,
         drain' = [drain EXCEPT ![c] = e], Continues(drain[c], e),
         OtherTypes', UNCHANGED <<store, made, serverVars>>
  PROVE  Landing'
<1>1. Types'
  BY DEF Landing, Types, RowTypes
<1>2. MadeOK' /\ RowsOK' /\ UploadsLand'
  BY DEF Landing, MadeOK, RowsOK, UploadsLand, NothingLost, OwnLibraryOnly, serverVars
<1>3. SendersOK'
  <2> SUFFICES ASSUME NEW x \in Context PROVE SenderOK(x)'
    BY DEF SendersOK
  <2>1. SenderOK(x) /\ SenderOK(c)
    BY DEF Landing, SendersOK
  <2>2. drain'[x] = IF x = c THEN e ELSE drain[x]
    BY DEF Landing, Types
  <2>3. CASE x # c
    BY <2>1, <2>2, <2>3 DEF SenderOK, serverVars
  <2>4. CASE x = c
    <3>1. Continues(drain[x], drain'[x]) /\ UNCHANGED <<made, accepted, refused>>
      BY <2>2, <2>4 DEF serverVars
    <3> QED
      BY <2>1, <3>1 DEF SenderOK, Continues, Sending
  <2> QED
    BY <2>3, <2>4
<1> QED
  BY <1>1, <1>2, <1>3 DEF Landing

\* Landing at the start.
LEMMA InitLanding == Init => Landing
<1> SUFFICES ASSUME Init PROVE Landing
  OBVIOUS
<1> USE WebUploadsAssumption
<1>1. RowTypes /\ OtherTypes
  <2>1. RowTypes
    BY DEF Init, RowTypes
  <2>2. events \in [mishap: 0..MaxEvent, switch: 0..MaxEvent]
    BY DEF Init
  <2> QED
    BY <2>1, <2>2 DEF Init, OtherTypes
<1>2. drain \in [Context -> Progress]
  <2>1. [Idle EXCEPT !.at = "closed"] \in Progress
    BY IdleType DEF Progress, Step
  <2> QED
    BY <2>1, IdleType DEF Init
<1>3. MadeOK
  BY DEF Init, MadeOK, Batch
<1>4. RowsOK
  BY DEF Init, RowsOK
<1>5. SendersOK
  BY DEF Init, SendersOK, SenderOK, Sending, Idle
<1>6. UploadsLand
  BY DEF Init, UploadsLand, NothingLost, OwnLibraryOnly, Batch
<1> QED
  BY <1>1, <1>2, <1>3, <1>4, <1>5, <1>6 DEF Landing, Types

-----------------------------------------------------------------------------
(* Steps that move one context and nothing else that matters.              *)

LEMMA EventType ==
  ASSUME Landing, NEW what \in {"mishap", "switch"}, Event(what)
  PROVE  events' \in [mishap: 0..MaxEvent, switch: 0..MaxEvent]
<1>1. events \in [mishap: 0..MaxEvent, switch: 0..MaxEvent]
  BY DEF Landing, Types, OtherTypes
<1> QED
  BY <1>1, WebUploadsAssumption DEF Event

\* The pages and their accounts.
LEMMA PageMoves ==
  ASSUME Landing, NEW p \in Page,
         \/ Open(p) \/ Close(p) \/ SignOut(p) \/ SessionLost(p) \/ Online(p) \/ Announce(p)
         \/ \E u \in Owner : SignIn(p, u)
  PROVE  Landing'
<1> DEFINE d == drain[p]
<1>1. /\ p \in Context /\ d \in Progress /\ user[p] \in Owner \cup {NoOwner}
      /\ cookie \in Owner \cup {NoOwner}
  BY DEF Landing, Types, OtherTypes, Context
<1>2. OtherTypes
  BY DEF Landing, Types
<1>3. CASE Open(p)
  <2>1. OtherTypes'
    BY <1>1, <1>2, <1>3, EventType DEF Open, OtherTypes, serverVars
  <2>2. PICK e \in {Idle, Woken(Idle, cookie)} : drain' = [drain EXCEPT ![p] = e]
    BY <1>3 DEF Open
  <2>3. e \in Progress /\ Continues(d, e)
    <3>1. Idle \in Progress /\ Idle.at \notin Sending
      BY IdleType DEF Idle, Sending
    <3>2. e \in Progress /\ Continues(Idle, e)
      BY <1>1, <2>2, <3>1, WokenContinues DEF Continues
    <3> QED
      BY <3>1, <3>2 DEF Continues
  <2> QED
    BY <1>1, <1>3, <2>1, <2>2, <2>3, OneMoves DEF Open
<1>4. CASE Close(p)
  <2>1. OtherTypes'
    BY <1>1, <1>2, <1>4, EventType DEF Close, OtherTypes, serverVars
  <2>2. [Idle EXCEPT !.at = "closed"] \in Progress /\ Continues(d, [Idle EXCEPT !.at = "closed"])
    BY IdleType DEF Progress, Step, Continues, Sending
  <2> QED
    BY <1>1, <1>4, <2>1, <2>2, OneMoves DEF Close
<1>5. CASE SignOut(p)
  <2>1. OtherTypes'
    BY <1>1, <1>2, <1>5, EventType DEF SignOut, OtherTypes, serverVars
  <2> QED
    BY <1>1, <1>5, <2>1, AbortContinues, OneMoves DEF SignOut
<1>6. CASE SessionLost(p)
  <2>1. OtherTypes'
    BY <1>1, <1>2, <1>6 DEF SessionLost, OtherTypes, serverVars
  <2> QED
    BY <1>1, <1>6, <2>1, AbortContinues, OneMoves DEF SessionLost
<1>7. CASE Online(p)
  <2>1. OtherTypes'
    BY <1>2, <1>7 DEF Online, OtherTypes, serverVars
  <2> QED
    BY <1>1, <1>7, <2>1, WokenContinues, OneMoves DEF Online
<1>8. CASE Announce(p)
  <2> DEFINE e == [d EXCEPT !.added = FALSE]
  <2>1. Registered(sync) \in {"unsupported", "waiting", "again"}
    BY DEF Registered
  <2>2. OtherTypes'
    BY <1>2, <1>8, <2>1 DEF Announce, OtherTypes, serverVars
  <2>3. e \in Progress /\ Continues(d, e)
    BY <1>1 DEF Progress, Continues
  <2>4. Woken(e, user[p]) \in Progress /\ Continues(d, Woken(e, user[p]))
    BY <1>1, <2>3, WokenContinues, ContinuesOn
  <2> QED
    BY <1>1, <1>8, <2>2, <2>4, OneMoves DEF Announce
<1>9. CASE \E u \in Owner : SignIn(p, u)
  <2>1. PICK u \in Owner : SignIn(p, u)
    BY <1>9
  <2>2. OtherTypes'
    BY <1>1, <1>2, <2>1, EventType DEF SignIn, OtherTypes, serverVars
  <2>3. Abort(Woken(d, u)) \in Progress /\ Continues(d, Abort(Woken(d, u)))
    BY <1>1, AbortContinues, WokenContinues, ContinuesOn
  <2> QED
    BY <1>1, <2>1, <2>2, <2>3, OneMoves DEF SignIn
<1> QED
  BY <1>3, <1>4, <1>5, <1>6, <1>7, <1>8, <1>9

\* A drain goes from one step to the next.
LEMMA DrainMoves ==
  ASSUME Landing, NEW c \in Context,
         \/ Tally(c) \/ RemoveFails(c) \/ StoreBreaks(c)
         \/ c \in Page /\ (Count(c) \/ CheckAccount(c) \/ Polled(c) \/ Finish(c))
  PROVE  Landing'
<1> DEFINE d == drain[c]
           Went(e) == /\ e \in Progress /\ Continues(d, e)
                      /\ drain' = [drain EXCEPT ![c] = e]
<1>1. /\ d \in Progress
      /\ \A p \in Page : user[p] \in Owner \cup {NoOwner}
  BY DEF Landing, Types, OtherTypes
<1>2. OtherTypes
  BY DEF Landing, Types
<1>3. CASE Tally(c)
  <2>1. OtherTypes'
    BY <1>2, <1>3 DEF Tally, OtherTypes, serverVars
  <2>2. CASE c = Worker
    <3>1. Went(Idle)
      BY <1>3, <2>2, IdleType DEF Tally, Continues, Idle, Sending
    <3> QED
      BY <1>3, <2>1, <3>1, OneMoves DEF Tally
  <2>3. CASE c # Worker
    <3> DEFINE e == [d EXCEPT !.retry = (d.retry \/ RowsOf(d.owner) # {})
                                        /\ RowsOf(d.owner) # {},
                              !.at = IF user[c] = d.owner THEN "poll" ELSE "finish"]
    <3>1. e \in Progress /\ e.at \in {"poll", "finish"}
      BY <1>1 DEF Progress, Step
    <3>2. Went(e)
      BY <1>3, <2>3, <3>1 DEF Tally, Continues, Sending
    <3> QED
      BY <1>3, <2>1, <3>2, OneMoves DEF Tally
  <2> QED
    BY <2>2, <2>3
<1>4. CASE RemoveFails(c)
  <2>1. OtherTypes'
    BY <1>2, <1>4, EventType DEF RemoveFails, OtherTypes, serverVars
  <2>2. Went([d EXCEPT !.at = "release"])
    BY <1>1, <1>4 DEF RemoveFails, Goto, Progress, Step, Continues, Sending
  <2> QED
    BY <1>4, <2>1, <2>2, OneMoves DEF RemoveFails
<1>5. CASE StoreBreaks(c)
  <2> DEFINE e == [d EXCEPT !.at = IF c = Worker THEN "idle" ELSE "finish",
                            !.batch = 0, !.lease = 0]
  <2>1. OtherTypes'
    BY <1>2, <1>5, EventType DEF StoreBreaks, OtherTypes, serverVars
  <2>2. e \in Progress /\ e.at \in {"idle", "finish"}
    <3>1. \A at \in {"idle", "finish"} :
            LET f == [d EXCEPT !.at = at, !.batch = 0, !.lease = 0] IN f \in Progress /\ f.at = at
      <4>1. 0 \in 0..Lease /\ 0 \in Batch \cup {0}
        BY WebUploadsAssumption
      <4> QED
        BY <1>1, <4>1 DEF Progress, Step
    <3> QED
      BY <3>1
  <2>3. Went(e)
    BY <1>5, <2>2 DEF StoreBreaks, Continues, Sending
  <2> QED
    BY <1>5, <2>1, <2>3, OneMoves DEF StoreBreaks
<1>6. CASE c \in Page /\ Count(c)
  <2>1. OtherTypes'
    BY <1>2, <1>6 DEF Count, OtherTypes, serverVars
  <2>2. PICK at \in {"finish", "claim"} : drain' = [drain EXCEPT ![c].at = at]
    BY <1>6 DEF Count, Goto
  <2>3. Went([d EXCEPT !.at = at])
    BY <1>1, <2>2 DEF Progress, Step, Continues, Sending
  <2> QED
    BY <1>6, <2>1, <2>3, OneMoves DEF Count
<1>7. CASE c \in Page /\ CheckAccount(c)
  <2>1. OtherTypes'
    BY <1>2, <1>7 DEF CheckAccount, OtherTypes, serverVars
  <2>2. PICK at \in {"release", "flight"} : drain' = [drain EXCEPT ![c].at = at]
    BY <1>7 DEF CheckAccount, Goto
  <2>3. Went([d EXCEPT !.at = at])
    BY <1>1, <1>7, <2>2 DEF CheckAccount, Progress, Step, Continues, Sending
  <2> QED
    BY <1>7, <2>1, <2>3, OneMoves DEF CheckAccount
<1>8. CASE c \in Page /\ Polled(c)
  <2>1. Registered(sync) \in {"unsupported", "waiting", "again"}
    BY DEF Registered
  <2>2. OtherTypes'
    BY <1>2, <1>8, <2>1 DEF Polled, OtherTypes, serverVars
  <2>3. Went([d EXCEPT !.at = "finish"])
    BY <1>1, <1>8 DEF Polled, Goto, Progress, Step, Continues, Sending
  <2> QED
    BY <1>8, <2>2, <2>3, OneMoves DEF Polled
<1>9. CASE c \in Page /\ Finish(c)
  <2> DEFINE rest == [Idle EXCEPT !.added = d.added]
  <2>1. OtherTypes'
    BY <1>2, <1>9 DEF Finish, OtherTypes, serverVars
  <2>2. rest \in Progress /\ rest.at \notin Sending
    BY <1>1, IdleType DEF Progress, Idle, Sending
  <2>3. PICK e \in {rest, Woken(rest, user[c])} : drain' = [drain EXCEPT ![c] = e]
    BY <1>9 DEF Finish
  <2>4. e \in Progress /\ Continues(rest, e)
    <3>1. user[c] \in Owner \cup {NoOwner}
      BY <1>1, <1>9
    <3>2. Continues(rest, rest) /\ Continues(rest, Woken(rest, user[c]))
      BY <2>2, <3>1, WokenContinues DEF Continues
    <3> HIDE DEF rest
    <3> QED
      BY <2>2, <2>3, <3>1, <3>2, WokenContinues
  <2>5. Went(e)
    BY <2>2, <2>3, <2>4 DEF Continues
  <2> QED
    BY <1>9, <2>1, <2>5, OneMoves DEF Finish
<1> QED
  BY <1>3, <1>4, <1>5, <1>6, <1>7, <1>8, <1>9

\* The service worker is woken, or stopped.
LEMMA WorkerMoves ==
  ASSUME Landing, SyncFires \/ WorkerStops
  PROVE  Landing'
<1>1. Worker \in Context /\ cookie \in Owner \cup {NoOwner} /\ OtherTypes
  BY DEF Landing, Types, OtherTypes, Context
<1>2. CASE SyncFires
  <2> DEFINE e == [Idle EXCEPT !.at = "claim", !.owner = cookie]
  <2>1. OtherTypes'
    BY <1>1, <1>2 DEF SyncFires, OtherTypes, serverVars
  <2>2. e \in Progress /\ e.at = "claim"
    BY <1>1, <1>2, IdleType DEF SyncFires, Progress, Step
  <2>3. Continues(drain[Worker], e)
    BY <2>2 DEF Continues, Sending
  <2> QED
    BY <1>1, <1>2, <2>1, <2>2, <2>3, OneMoves DEF SyncFires
<1>3. CASE WorkerStops
  <2>1. OtherTypes'
    BY <1>1, <1>3, EventType DEF WorkerStops, OtherTypes, serverVars
  <2>2. Continues(drain[Worker], Idle)
    BY DEF Continues, Idle, Sending
  <2> QED
    BY <1>1, <1>3, <2>1, <2>2, IdleType, OneMoves DEF WorkerStops
<1> QED
  BY <1>2, <1>3

-----------------------------------------------------------------------------
(* Steps that change the queue or the server.                              *)

\* What the other senders hold stays settled, as nothing is taken back.
LEMMA OtherSenders ==
  ASSUME Landing, NEW c \in Context, NEW e \in Progress,
         drain' = [drain EXCEPT ![c] = e],
         \A b \in Batch : made[b] # NoOwner => made'[b] = made[b],
         \A b \in Batch : accepted[b] \subseteq accepted'[b],
         refused \subseteq refused',
         SenderOK(c)'
  PROVE  SendersOK'
<1> SUFFICES ASSUME NEW x \in Context, x # c PROVE SenderOK(x)'
  BY DEF SendersOK
<1>1. drain'[x] = drain[x] /\ SenderOK(x)
  BY DEF Landing, Types, SendersOK
<1>2. CASE drain[x].at \notin Sending
  BY <1>1, <1>2 DEF SenderOK, Sending
<1>3. CASE drain[x].at \in Sending
  <2>1. drain[x].batch \in Batch /\ made[drain[x].batch] = drain[x].owner
        /\ drain[x].owner \in Owner /\ drain[x].owner # NoOwner
    BY <1>1, <1>3, WebUploadsAssumption DEF SenderOK
  <2>2. made'[drain[x].batch] = drain[x].owner
    BY <2>1
  <2> QED
    BY <1>1, <2>1, <2>2 DEF SenderOK
<1> QED
  BY <1>2, <1>3

\* What is known of a context that has a batch.
LEMMA SenderFacts ==
  ASSUME Landing, NEW c \in Context, drain[c].at \in Sending
  PROVE  /\ drain[c] \in Progress /\ drain[c].batch \in Batch /\ drain[c].owner \in Owner
         /\ made[drain[c].batch] = drain[c].owner /\ made[drain[c].batch] # NoOwner
BY WebUploadsAssumption DEF Landing, Types, SendersOK, SenderOK

LEMMA ClaimLands ==
  ASSUME Landing, NEW c \in Context, ClaimNext(c)
  PROVE  Landing'
<1> DEFINE d == drain[c]
           free == Claimable(d.owner)
           b == Min(free)
           e == [d EXCEPT !.at = IF c = Worker THEN "flight" ELSE "check",
                          !.batch = b, !.lease = Lease]
<1>1. d \in Progress /\ OtherTypes /\ RowTypes /\ RowsOK /\ UploadsLand
  BY DEF Landing, Types
<1>2. OtherTypes'
  BY <1>1 DEF ClaimNext, OtherTypes, serverVars
<1>3. CASE free = {}
  <2>1. [d EXCEPT !.at = "tally"] \in Progress /\ Continues(d, [d EXCEPT !.at = "tally"])
    BY <1>1 DEF Progress, Step, Continues, Sending
  <2>2. drain' = [drain EXCEPT ![c] = [d EXCEPT !.at = "tally"]] /\ UNCHANGED store
    BY <1>3 DEF ClaimNext, Goto
  <2> QED
    BY <1>2, <2>1, <2>2, OneMoves DEF ClaimNext
<1>4. CASE free # {}
  <2>1. b \in free
    <3>1. free \in SUBSET Nat
      BY <1>1, WebUploadsAssumption DEF Claimable, RowsOf, RowTypes, Batch
    <3> QED
      BY <1>4, <3>1, MinExists
  <2>2. b \in DOMAIN store /\ b \in Batch /\ made[b] = d.owner /\ d.owner \in Owner
    <3>1. b \in DOMAIN store /\ store[b].owner = d.owner
      BY <2>1 DEF Claimable, RowsOf
    <3> HIDE DEF b, d
    <3> QED
      BY <1>1, <3>1 DEF RowsOK, RowTypes, Row
  <2>3. /\ store' = [store EXCEPT ![b].state = "sending", ![b].lease = Lease]
        /\ drain' = [drain EXCEPT ![c] = e]
    BY <1>4 DEF ClaimNext
  <2>4. e \in Progress /\ e.at \in {"flight", "check"} /\ e.batch = b /\ e.owner = d.owner
    <3>1. Lease \in 0..Lease
      BY WebUploadsAssumption
    <3> HIDE DEF b
    <3> QED
      BY <1>1, <2>2, <3>1 DEF Progress, Step
  <2> HIDE DEF b, e, free
  <2>5. RowTypes' /\ RowsOK'
    <3>1. Lease \in 0..Lease
      BY WebUploadsAssumption
    <3>2. DOMAIN store' = DOMAIN store
      BY <2>3
    <3>3. \A x \in DOMAIN store : store'[x] \in Row /\ store'[x].owner = store[x].owner
      BY <1>1, <2>3, <3>1 DEF RowTypes, Row
    <3>4. store' \in [DOMAIN store' -> Row]
      BY <1>1, <2>3, <3>2, <3>3 DEF RowTypes
    <3> QED
      BY <1>1, <3>2, <3>3, <3>4 DEF RowTypes, RowsOK, ClaimNext
  <2>6. MadeOK' /\ UploadsLand'
    BY <1>1, <2>3 DEF Landing, ClaimNext, MadeOK, UploadsLand, NothingLost, OwnLibraryOnly,
                      serverVars
  <2>7. drain'[c] = e /\ drain' \in [Context -> Progress]
    BY <2>3, <2>4 DEF Landing, Types
  <2>8. SenderOK(c)'
    BY <2>2, <2>4, <2>7 DEF SenderOK, ClaimNext
  <2>9. SendersOK'
    BY <2>3, <2>4, <2>8, OtherSenders DEF ClaimNext, serverVars
  <2> QED
    BY <1>2, <2>5, <2>6, <2>7, <2>9 DEF Landing, Types
<1> QED
  BY <1>3, <1>4

\* Whatever the server makes of a request, it imports the batch for its account only.
LEMMA ServedLands ==
  ASSUME Landing, NEW c \in Context, drain[c].at \in Sending, Served(c), UNCHANGED <<store, made>>
  PROVE  /\ accepted' \in [Batch -> SUBSET Owner] /\ refused' \subseteq Batch
         /\ \A b \in Batch : accepted[b] \subseteq accepted'[b]
         /\ refused \subseteq refused'
         /\ UploadsLand'
         /\ cookie = drain[c].owner =>
              IF drain[c].batch \in Unsupported THEN drain[c].batch \in refused'
              ELSE cookie \in accepted'[drain[c].batch]
<1>1. /\ accepted \in [Batch -> SUBSET Owner] /\ refused \subseteq Batch
      /\ NothingLost /\ OwnLibraryOnly
  BY DEF Landing, Types, OtherTypes, UploadsLand
<1>2. /\ drain[c].batch \in Batch /\ drain[c].owner \in Owner
      /\ made[drain[c].batch] = drain[c].owner
  BY SenderFacts
<1>3. CASE cookie = drain[c].owner /\ drain[c].batch \notin Unsupported
  <2>1. /\ accepted' = [accepted EXCEPT ![drain[c].batch] = @ \cup {drain[c].owner}]
        /\ UNCHANGED refused
    BY <1>3 DEF Served
  <2>2. /\ \A b \in Batch : accepted[b] \subseteq accepted'[b]
        /\ drain[c].owner \in accepted'[drain[c].batch]
        /\ \A b \in Batch : accepted'[b] \subseteq accepted[b] \cup {made[b]}
    BY <1>1, <1>2, <2>1
  <2>3. accepted' \in [Batch -> SUBSET Owner]
    BY <1>1, <1>2, <2>1
  <2> QED
    BY <1>1, <1>3, <2>1, <2>2, <2>3 DEF UploadsLand, NothingLost, OwnLibraryOnly
<1>4. CASE ~(cookie = drain[c].owner /\ drain[c].batch \notin Unsupported)
  <2>1. UNCHANGED accepted /\ refused \subseteq refused' /\ refused' \subseteq Batch
        /\ (cookie = drain[c].owner => drain[c].batch \in refused')
    BY <1>1, <1>2, <1>4 DEF Served, serverVars
  <2> QED
    BY <1>1, <1>4, <2>1 DEF UploadsLand, NothingLost, OwnLibraryOnly
<1> QED
  BY <1>3, <1>4

LEMMA AnswerLands ==
  ASSUME Landing, NEW c \in Context, Answered(c) \/ Unanswered(c)
  PROVE  Landing'
<1> DEFINE d == drain[c]
<1>1. d.at = "flight" /\ d.at \in Sending /\ OtherTypes /\ RowTypes
  BY DEF Answered, Unanswered, Sending, Landing, Types
<1>2. /\ d \in Progress /\ d.batch \in Batch /\ d.owner \in Owner
      /\ made[d.batch] = d.owner /\ made[d.batch] # NoOwner
  BY <1>1, SenderFacts
<1>3. ASSUME Answered(c)
      PROVE  Landing'
  <2>1. Served(c) /\ UNCHANGED <<store, made, cookie, sync, outlived, broken, events>>
    BY <1>3 DEF Answered
  <2>2. UploadsLand' /\ OtherTypes'
    <3>1. user' \in [Page -> Owner \cup {NoOwner}]
      BY <1>1, <1>3 DEF Answered, OtherTypes
    <3> QED
      BY <1>1, <2>1, <3>1, ServedLands DEF OtherTypes
  <2>3. PICK e : /\ drain' = [drain EXCEPT ![c] = e]
                 /\ \/ e = [d EXCEPT !.at = AfterAnswer(c), !.aborted = TRUE]
                    \/ e = [d EXCEPT !.at = AfterAnswer(c)]
    BY <1>3 DEF Answered, Goto
  <2>4. AfterAnswer(c) \in {"release", "drop", "keep"}
    BY DEF AfterAnswer
  <2>5. /\ e \in Progress /\ e.at = AfterAnswer(c)
        /\ e.batch = d.batch /\ e.owner = d.owner
    BY <1>2, <2>3, <2>4 DEF Progress, Step
  <2>6. drain'[c] = e /\ drain' \in [Context -> Progress]
    BY <2>3, <2>5 DEF Landing, Types
  <2>7. SenderOK(c)'
    <3>1. /\ e.at = "keep" => d.owner \in accepted'[d.batch]
          /\ e.at = "drop" => d.batch \in refused'
      BY <1>1, <2>1, <2>5, ServedLands DEF AfterAnswer
    <3> QED
      BY <1>2, <2>1, <2>5, <2>6, <3>1 DEF SenderOK
  <2>8. SendersOK'
    BY <1>1, <2>1, <2>3, <2>5, <2>7, ServedLands, OtherSenders
  <2> QED
    BY <1>1, <2>1, <2>2, <2>6, <2>8 DEF Landing, Types, RowTypes, MadeOK, RowsOK
<1>4. ASSUME Unanswered(c)
      PROVE  Landing'
  <2> DEFINE e == [d EXCEPT !.at = "release"]
  <2>1. /\ Served(c) \/ UNCHANGED serverVars
        /\ UNCHANGED <<store, made, cookie, user, sync, outlived, broken>>
        /\ drain' = [drain EXCEPT ![c] = e]
    BY <1>4 DEF Unanswered, Goto
  <2>2. events' \in [mishap: 0..MaxEvent, switch: 0..MaxEvent]
    BY <1>1, <1>4, EventType DEF Unanswered, OtherTypes
  <2>3. /\ e \in Progress /\ e.at = "release"
        /\ e.batch = d.batch /\ e.owner = d.owner
    BY <1>2 DEF Progress, Step
  <2> HIDE DEF e
  <2>4. /\ accepted' \in [Batch -> SUBSET Owner] /\ refused' \subseteq Batch
        /\ \A b \in Batch : accepted[b] \subseteq accepted'[b]
        /\ refused \subseteq refused' /\ UploadsLand'
    <3>1. CASE Served(c)
      BY <1>1, <2>1, <3>1, ServedLands
    <3>2. CASE UNCHANGED serverVars
      BY <1>1, <2>1, <3>2
         DEF OtherTypes, serverVars, Landing, UploadsLand, NothingLost, OwnLibraryOnly
    <3> QED
      BY <2>1, <3>1, <3>2
  <2>5. drain'[c] = e /\ drain' \in [Context -> Progress]
    BY <2>1, <2>3 DEF Landing, Types
  <2>6. SenderOK(c)'
    BY <1>2, <2>1, <2>3, <2>5 DEF SenderOK
  <2>7. SendersOK'
    BY <2>1, <2>3, <2>4, <2>6, OtherSenders
  <2> QED
    BY <1>1, <2>1, <2>2, <2>4, <2>5, <2>7
       DEF Landing, Types, OtherTypes, RowTypes, MadeOK, RowsOK
<1> QED
  BY <1>3, <1>4

LEMMA RemoveLands ==
  ASSUME Landing, NEW c \in Context, Remove(c)
  PROVE  Landing'
<1> DEFINE d == drain[c]
           e == [d EXCEPT !.at = "claim", !.batch = 0, !.lease = 0]
<1>1. /\ d.at \in {"keep", "drop"} /\ d.at \in Sending /\ drain' = [drain EXCEPT ![c] = e]
      /\ UNCHANGED <<made, cookie, user, sync, accepted, refused, outlived, broken, events>>
  BY DEF Remove, Sending, serverVars
<1>2. /\ d \in Progress /\ d.batch \in Batch /\ d.owner \in Owner /\ made[d.batch] = d.owner
      /\ OtherTypes /\ RowTypes /\ RowsOK
  BY <1>1, SenderFacts DEF Landing, Types
<1>3. e \in Progress /\ e.at = "claim"
  <2>1. 0 \in 0..Lease /\ 0 \in Batch \cup {0}
    BY WebUploadsAssumption
  <2> QED
    BY <1>2, <2>1 DEF Progress, Step
<1> HIDE DEF e
<1>4. /\ DOMAIN store' = DOMAIN store \ {d.batch}
      /\ \A b \in DOMAIN store' : store'[b] = store[b]
      /\ store' = [b \in DOMAIN store' |-> store'[b]]
  BY DEF Remove
<1>5. RowTypes' /\ RowsOK'
  BY <1>1, <1>2, <1>4 DEF RowTypes, RowsOK
<1>6. d.owner \in accepted[d.batch] \/ d.batch \in refused
  BY <1>1 DEF Landing, SendersOK, SenderOK
<1>7. UploadsLand' /\ MadeOK'
  BY <1>1, <1>2, <1>4, <1>6 DEF Landing, UploadsLand, NothingLost, OwnLibraryOnly, MadeOK
<1>8. drain'[c] = e /\ drain' \in [Context -> Progress]
  BY <1>1, <1>3 DEF Landing, Types
<1>9. SendersOK'
  <2>1. SenderOK(c)'
    BY <1>3, <1>8 DEF SenderOK, Sending
  <2> QED
    BY <1>1, <1>3, <2>1, OtherSenders
<1> QED
  BY <1>1, <1>2, <1>5, <1>7, <1>8, <1>9 DEF Landing, Types, OtherTypes

LEMMA ReleaseLands ==
  ASSUME Landing, NEW c \in Context, Release(c)
  PROVE  Landing'
<1> DEFINE d == drain[c]
           row == [owner |-> made[d.batch], state |-> "queued", lease |-> 0]
           e == [d EXCEPT !.at = "tally", !.batch = 0, !.lease = 0,
                          !.retry = TRUE, !.aborted = FALSE]
<1>1. /\ d.at = "release" /\ d.at \in Sending /\ drain' = [drain EXCEPT ![c] = e]
      /\ UNCHANGED <<made, cookie, user, sync, accepted, refused, outlived, broken, events>>
  BY DEF Release, Sending, serverVars
<1>2. /\ d \in Progress /\ d.batch \in Batch /\ d.owner \in Owner /\ made[d.batch] = d.owner
      /\ made[d.batch] # NoOwner /\ OtherTypes /\ RowTypes /\ RowsOK
  BY <1>1, SenderFacts DEF Landing, Types
<1>3. 0 \in 0..Lease /\ 0 \in Batch \cup {0}
  BY WebUploadsAssumption
<1>4. e \in Progress /\ e.at = "tally"
  BY <1>2, <1>3 DEF Progress, Step
<1> HIDE DEF e
<1>5. row \in Row /\ row.owner = made[d.batch]
  BY <1>2, <1>3 DEF Row
<1>6. /\ DOMAIN store' = DOMAIN store \cup {d.batch}
      /\ \A b \in DOMAIN store' : store'[b] = IF b = d.batch THEN row ELSE store[b]
      /\ store' = [b \in DOMAIN store' |-> store'[b]]
  BY DEF Release
<1> HIDE DEF row
<1>7. RowTypes' /\ RowsOK'
  BY <1>1, <1>2, <1>5, <1>6 DEF RowTypes, RowsOK
<1>8. UploadsLand' /\ MadeOK'
  BY <1>1, <1>6 DEF Landing, UploadsLand, NothingLost, OwnLibraryOnly, MadeOK
<1>9. drain'[c] = e /\ drain' \in [Context -> Progress]
  BY <1>1, <1>4 DEF Landing, Types
<1>10. SendersOK'
  <2>1. SenderOK(c)'
    BY <1>4, <1>9 DEF SenderOK, Sending
  <2> QED
    BY <1>1, <1>4, <2>1, OtherSenders
<1> QED
  BY <1>1, <1>2, <1>7, <1>8, <1>9, <1>10 DEF Landing, Types, OtherTypes

LEMMA EnqueueLands ==
  ASSUME Landing, NEW p \in Page, NEW k \in 1..MaxBatch, Enqueue(p, k)
  PROVE  Landing'
<1> DEFINE used == Cardinality({b \in Batch : made[b] # NoOwner})
           new == used + 1 .. used + k
           d == drain[p]
           e == [d EXCEPT !.added = TRUE]
           row == [owner |-> user[p], state |-> "queued", lease |-> 0]
<1>1. /\ p \in Context /\ d \in Progress /\ user[p] \in Owner
      /\ OtherTypes /\ RowTypes /\ RowsOK
      /\ MaxBatch \in Nat /\ NoOwner \notin Owner
  BY WebUploadsAssumption DEF Landing, Types, OtherTypes, Context, Enqueue
<1>2. /\ used + k =< MaxBatch
      /\ made' = [b \in Batch |-> IF b \in new THEN user[p] ELSE made[b]]
      /\ store' = [b \in DOMAIN store \cup new |-> IF b \in new THEN row ELSE store[b]]
      /\ drain' = [drain EXCEPT ![p] = e]
      /\ UNCHANGED <<cookie, user, sync, accepted, refused, outlived, broken, events>>
  BY DEF Enqueue, serverVars
<1>3. PICK n \in 0..MaxBatch : \A b \in Batch : made[b] # NoOwner <=> b =< n
  BY DEF Landing, MadeOK
<1>4. used = n
  BY <1>1, <1>3, MadeCounts
<1> HIDE DEF used
<1>5. /\ new = n + 1 .. n + k /\ n + k \in 0..MaxBatch
      /\ new \subseteq Batch /\ \A b \in new : made[b] = NoOwner
  BY <1>1, <1>2, <1>3, <1>4 DEF Batch
<1>6. e \in Progress /\ e.at = d.at /\ e.batch = d.batch /\ e.owner = d.owner
  BY <1>1 DEF Progress
<1>7. row \in Row /\ row.owner = user[p]
  <2>1. 0 \in 0..Lease
    BY WebUploadsAssumption
  <2> QED
    BY <1>1, <2>1 DEF Row
<1> HIDE DEF e, row, new
<1>8. /\ made' \in [Batch -> Owner \cup {NoOwner}]
      /\ \A b \in Batch : made'[b] = IF b \in new THEN user[p] ELSE made[b]
      /\ \A b \in Batch : made[b] # NoOwner => made'[b] = made[b]
  BY <1>1, <1>2, <1>5 DEF OtherTypes
<1>9. MadeOK'
  <2>1. \A b \in Batch : made'[b] # NoOwner <=> b =< n + k
    BY <1>1, <1>3, <1>5, <1>8 DEF Batch
  <2> QED
    BY <1>5, <2>1 DEF MadeOK
<1>10. /\ DOMAIN store' = DOMAIN store \cup new
       /\ \A b \in DOMAIN store' : store'[b] = IF b \in new THEN row ELSE store[b]
       /\ store' = [b \in DOMAIN store' |-> store'[b]]
  BY <1>2
<1>11. RowTypes' /\ RowsOK'
  BY <1>1, <1>5, <1>7, <1>8, <1>10 DEF RowTypes, RowsOK
<1>12. UploadsLand'
  <2>1. NothingLost'
    BY <1>2, <1>8, <1>10 DEF Landing, UploadsLand, NothingLost
  <2>2. OwnLibraryOnly'
    <3> SUFFICES ASSUME NEW b \in Batch PROVE accepted[b] \subseteq {made'[b]}
      BY <1>2 DEF OwnLibraryOnly
    <3>1. accepted[b] \subseteq {made[b]} /\ accepted[b] \subseteq Owner
      BY <1>1 DEF Landing, UploadsLand, OwnLibraryOnly, OtherTypes
    <3> QED
      BY <1>1, <1>8, <3>1
  <2> QED
    BY <2>1, <2>2 DEF UploadsLand
<1>13. drain'[p] = e /\ drain' \in [Context -> Progress]
  BY <1>1, <1>2, <1>6 DEF Landing, Types
<1>14. SendersOK'
  <2>1. SenderOK(p) /\ (d.at \in Sending => made[d.batch] # NoOwner)
    BY <1>1, SenderFacts DEF Landing, SendersOK
  <2>2. SenderOK(p)'
    BY <1>2, <1>6, <1>8, <1>13, <2>1 DEF SenderOK, Sending
  <2> QED
    BY <1>1, <1>2, <1>6, <1>8, <2>2, OtherSenders
<1> QED
  BY <1>1, <1>2, <1>8, <1>9, <1>11, <1>12, <1>13, <1>14 DEF Landing, Types, OtherTypes

LEMMA TickLands ==
  ASSUME Landing, Tick
  PROVE  Landing'
<1>1. /\ RowTypes /\ RowsOK /\ OtherTypes /\ drain \in [Context -> Progress] /\ SendersOK
      /\ UNCHANGED <<made, cookie, user, sync, accepted, refused, broken, events>>
  BY DEF Landing, Types, Tick, serverVars
<1>2. \A l \in 0..Lease : (IF l > 0 THEN l - 1 ELSE 0) \in 0..Lease
  BY WebUploadsAssumption
<1>3. /\ DOMAIN store' = DOMAIN store
      /\ store' = [b \in DOMAIN store' |-> store'[b]]
      /\ \A b \in DOMAIN store : store'[b] \in Row /\ store'[b].owner = store[b].owner
  <2>1. /\ DOMAIN store' = DOMAIN store
        /\ store' = [b \in DOMAIN store' |-> store'[b]]
        /\ \A b \in DOMAIN store :
             store'[b] = [store[b] EXCEPT !.lease = IF @ > 0 THEN @ - 1 ELSE 0]
    BY DEF Tick
  <2>2. \A b \in DOMAIN store : store[b] \in Row
    BY <1>1 DEF RowTypes
  <2>3. \A r \in Row : LET q == [r EXCEPT !.lease = IF @ > 0 THEN @ - 1 ELSE 0] IN
          q \in Row /\ q.owner = r.owner
    BY <1>2 DEF Row
  <2> QED
    BY <2>1, <2>2, <2>3, ZenonT(40)
<1>4. RowTypes' /\ RowsOK'
  BY <1>1, <1>3 DEF RowTypes, RowsOK
<1>5. \A c \in Context : /\ drain'[c] \in Progress /\ drain'[c].at = drain[c].at
                         /\ drain'[c].batch = drain[c].batch /\ drain'[c].owner = drain[c].owner
  <2> SUFFICES ASSUME NEW c \in Context
               PROVE  /\ drain'[c] \in Progress /\ drain'[c].at = drain[c].at
                      /\ drain'[c].batch = drain[c].batch /\ drain'[c].owner = drain[c].owner
    OBVIOUS
  <2> DEFINE l == IF drain[c].lease > 0 THEN drain[c].lease - 1 ELSE 0
  <2>1. drain'[c] = [drain[c] EXCEPT !.lease = l]
    BY DEF Tick
  <2>2. drain[c] \in Progress /\ l \in 0..Lease
    BY <1>1, <1>2 DEF Progress
  <2> HIDE DEF l
  <2> QED
    BY <2>1, <2>2 DEF Progress
<1>6. drain' \in [Context -> Progress]
  <2>1. drain' = [c \in Context |-> drain'[c]]
    BY DEF Tick
  <2> QED
    BY <1>5, <2>1
<1>7. SendersOK'
  BY <1>1, <1>5 DEF SendersOK, SenderOK
<1>8. outlived' \subseteq Batch
  <2>1. \A c \in Context : Holding(c) => drain[c].batch \in Batch
    BY <1>1 DEF Holding, Progress
  <2> QED
    BY <1>1, <2>1 DEF Tick, OtherTypes
<1>9. OtherTypes' /\ MadeOK' /\ UploadsLand'
  BY <1>1, <1>3, <1>8
     DEF OtherTypes, Landing, MadeOK, UploadsLand, NothingLost, OwnLibraryOnly
<1> QED
  BY <1>4, <1>6, <1>7, <1>9 DEF Landing, Types

LEMMA AccountLands ==
  ASSUME Landing, NEW u \in Owner \cup {NoOwner}, AccountChanges(u)
  PROVE  Landing'
<1>1. OtherTypes'
  BY EventType DEF Landing, Types, OtherTypes, AccountChanges, serverVars
<1>2. UNCHANGED <<store, made, drain, serverVars>>
  BY DEF AccountChanges
<1> QED
  BY <1>1, <1>2 DEF Landing, Types, RowTypes, MadeOK, RowsOK, SendersOK, SenderOK,
                    UploadsLand, NothingLost, OwnLibraryOnly, serverVars

\* Landing is kept by every step.
LEMMA StepLanding == Landing /\ [Next]_vars => Landing'
<1> SUFFICES ASSUME Landing, [Next]_vars PROVE Landing'
  OBVIOUS
<1>1. CASE UNCHANGED vars
  BY <1>1 DEF vars, serverVars, Landing, Types, RowTypes, OtherTypes, MadeOK, RowsOK, SendersOK,
              SenderOK, UploadsLand, NothingLost, OwnLibraryOnly
<1>2. ASSUME NEW p \in Page,
             \/ Open(p) \/ Close(p) \/ SignOut(p) \/ SessionLost(p) \/ Online(p)
             \/ Announce(p) \/ Count(p) \/ CheckAccount(p) \/ Polled(p) \/ Finish(p)
             \/ \E u \in Owner : SignIn(p, u)
             \/ \E n \in 1..MaxBatch : Enqueue(p, n)
      PROVE  Landing'
  <2>1. p \in Context
    BY DEF Context
  <2> QED
    BY <1>2, <2>1, PageMoves, DrainMoves, EnqueueLands
<1>3. ASSUME NEW c \in Context,
             \/ ClaimNext(c) \/ Answered(c) \/ Unanswered(c) \/ Remove(c) \/ Release(c)
             \/ RemoveFails(c) \/ StoreBreaks(c) \/ Tally(c)
      PROVE  Landing'
  BY <1>3, ClaimLands, AnswerLands, RemoveLands, ReleaseLands, DrainMoves
<1>4. CASE SyncFires \/ WorkerStops \/ Tick
  BY <1>4, WorkerMoves, TickLands
<1>5. CASE \E u \in Owner \cup {NoOwner} : AccountChanges(u)
  BY <1>5, AccountLands
<1> QED
  BY <1>1, <1>2, <1>3, <1>4, <1>5 DEF Next

-----------------------------------------------------------------------------
(* The theorems.                                                           *)

LEMMA LandingHolds == Spec => []Landing
<1>1. Init => Landing
  BY InitLanding
<1>2. Landing /\ [Next]_vars => Landing'
  BY StepLanding
<1> QED
  BY <1>1, <1>2, PTL DEF Spec

\* Every variable of the upload queue keeps its type, in any number of pages.
THEOREM WebUploadsTypeCorrect == Spec => []WebUploadsTypeOK
<1>1. Landing => WebUploadsTypeOK
  <2> SUFFICES ASSUME Landing PROVE WebUploadsTypeOK
    OBVIOUS
  <2>1. RowTypes /\ OtherTypes /\ drain \in [Context -> Progress]
    BY DEF Landing, Types
  <2>2. store \in UNION {[B -> Row] : B \in SUBSET Batch}
    BY <2>1 DEF RowTypes
  <2> QED
    BY <2>1, <2>2 DEF OtherTypes, WebUploadsTypeOK
<1> QED
  BY <1>1, LandingHolds, PTL

\* upload-queue.ts, whatever pages and the service worker do to each other's rows:
\* a queued photo stays queued until the server has accepted it for its account or
\* has refused it for good, and it enters no other account's library.
THEOREM QueuedUploadsLand == Spec => []UploadsLand
<1>1. Landing => UploadsLand
  BY DEF Landing
<1> QED
  BY <1>1, LandingHolds, PTL

-----------------------------------------------------------------------------
(* The lease.  A row that is held has a lease that runs out with the        *)
(* sender's own, so that nobody claims it before, unless some sender of the *)
(* batch has outlived its lease already.                                    *)

Leased(c) ==
  LET b == drain[c].batch IN
  b \in DOMAIN store /\ store[b].state = "sending"
    /\ store[b].lease = drain[c].lease /\ drain[c].lease # 0
HoldOK(c) ==
  Holding(c) => drain[c].at \in Sending /\ (drain[c].batch \in outlived \/ Leased(c))

Leases == Landing /\ (\A c \in Context : HoldOK(c)) /\ OneSenderWithinLease

\* One context moves, and leaves alone the rows that others hold.
LEMMA OneHolds ==
  ASSUME Leases, Landing', NEW c \in Context, outlived' = outlived,
         \A x \in Context \ {c} : drain'[x] = drain[x],
         \A x \in Context \ {c} : Holding(x) /\ drain[x].batch \notin outlived =>
           drain[x].batch \in DOMAIN store' /\ store'[drain[x].batch] = store[drain[x].batch],
         HoldOK(c)',
         \A x \in Context \ {c} : Holding(x) /\ drain'[c].batch = drain[x].batch =>
           drain[x].batch \in outlived
  PROVE  Leases'
<1>1. \A x \in Context \ {c} : HoldOK(x)'
  BY DEF Leases, HoldOK, Holding, Leased
<1>2. OneSenderWithinLease'
  BY DEF Leases, OneSenderWithinLease, Holding
<1> QED
  BY <1>1, <1>2 DEF Leases

\* The state e of a context has no batch that d did not have.
Keeps(d, e) ==
  e.batch # 0 => /\ e.batch = d.batch /\ e.lease = d.lease
                 /\ d.at \in Sending => e.at \in Sending

LEMMA WokenKeeps ==
  ASSUME NEW d \in Progress, NEW u
  PROVE  Keeps(d, Woken(d, u))
BY DEF Woken, Started, Idle, Keeps, Progress, Sending

LEMMA AbortKeeps ==
  ASSUME NEW d \in Progress
  PROVE  Keeps(d, Abort(d)) /\ Abort(d) \in Progress
<1>1. \A q : Keeps(d, [d EXCEPT !.aborted = q])
  BY DEF Progress, Keeps
<1> QED
  BY <1>1, AbortContinues DEF Abort

\* Most steps move one context and touch no row.
LEMMA MoveKeeps ==
  ASSUME Leases, Landing', NEW c \in Context, NEW e, Keeps(drain[c], e),
         drain' = [drain EXCEPT ![c] = e], UNCHANGED <<store, outlived>>
  PROVE  Leases'
<1>1. drain'[c] = e /\ \A x \in Context \ {c} : drain'[x] = drain[x]
  BY DEF Leases, Landing, Types
<1>2. HoldOK(c)'
  BY <1>1 DEF Leases, HoldOK, Holding, Leased, Keeps
<1>3. \A x \in Context \ {c} : Holding(x) /\ drain'[c].batch = drain[x].batch =>
        drain[x].batch \in outlived
  BY <1>1 DEF Leases, OneSenderWithinLease, Holding, Keeps
<1>4. \A x \in Context \ {c} : Holding(x) /\ drain[x].batch \notin outlived =>
        drain[x].batch \in DOMAIN store' /\ store'[drain[x].batch] = store[drain[x].batch]
  BY DEF Leases, HoldOK, Leased
<1> QED
  BY <1>1, <1>2, <1>3, <1>4, OneHolds

LEMMA IdleKeeps ==
  ASSUME NEW d
  PROVE  Keeps(d, Idle) /\ Keeps(d, [Idle EXCEPT !.at = "closed"])
BY DEF Keeps, Idle

LEMMA PageKeeps ==
  ASSUME Leases, Landing', NEW p \in Page,
         \/ Open(p) \/ Close(p) \/ SignOut(p) \/ SessionLost(p) \/ Online(p) \/ Announce(p)
         \/ \E u \in Owner : SignIn(p, u)
  PROVE  Leases'
<1>1. p \in Context /\ drain[p] \in Progress
  BY DEF Leases, Landing, Types, Context
<1>2. UNCHANGED <<store, outlived>>
  BY DEF Open, Close, SignOut, SessionLost, Online, Announce, SignIn
<1>3. PICK e : drain' = [drain EXCEPT ![p] = e] /\ Keeps(drain[p], e)
  <2>1. CASE Open(p)
    <3>1. Keeps(drain[p], Woken(Idle, cookie))
      BY DEF Keeps, Woken, Started, Idle
    <3> QED
      BY <2>1, <3>1, IdleKeeps DEF Open
  <2>2. CASE Close(p)
    BY <2>2, IdleKeeps DEF Close
  <2>3. CASE SignOut(p) \/ SessionLost(p)
    BY <1>1, <2>3, AbortKeeps DEF SignOut, SessionLost
  <2>4. CASE Online(p)
    BY <1>1, <2>4, WokenKeeps DEF Online
  <2>5. CASE Announce(p)
    <3>1. PICK d \in Progress : d = [drain[p] EXCEPT !.added = FALSE] /\ Keeps(drain[p], d)
      <4>1. [drain[p] EXCEPT !.added = FALSE] \in Progress
        BY <1>1 DEF Progress
      <4>2. Keeps(drain[p], [drain[p] EXCEPT !.added = FALSE])
        BY <1>1 DEF Progress, Keeps
      <4> QED
        BY <4>1, <4>2
    <3>2. Keeps(d, Woken(d, user[p]))
      BY WokenKeeps
    <3>3. Keeps(drain[p], Woken(d, user[p]))
      BY <3>1, <3>2 DEF Keeps
    <3>4. drain' = [drain EXCEPT ![p] = Woken(d, user[p])]
      BY <2>5, <3>1 DEF Announce
    <3> QED
      BY <3>3, <3>4
  <2>6. CASE \E u \in Owner : SignIn(p, u)
    <3>1. PICK u \in Owner : SignIn(p, u)
      BY <2>6
    <3>2. PICK d \in Progress : d = Woken(drain[p], u) /\ Keeps(drain[p], d)
      BY <1>1, WokenKeeps, WokenContinues
    <3>3. Keeps(drain[p], Abort(d))
      BY <3>2, AbortKeeps DEF Keeps
    <3> QED
      BY <3>1, <3>2, <3>3 DEF SignIn
  <2> QED
    BY <2>1, <2>2, <2>3, <2>4, <2>5, <2>6
<1> QED
  BY <1>1, <1>2, <1>3, MoveKeeps

LEMMA DrainKeeps ==
  ASSUME Leases, Landing', NEW c \in Context,
         \/ Tally(c) \/ RemoveFails(c) \/ StoreBreaks(c) \/ Answered(c) \/ Unanswered(c)
         \/ c \in Page /\ (Count(c) \/ CheckAccount(c) \/ Polled(c) \/ Finish(c))
  PROVE  Leases'
<1>1. drain[c] \in Progress /\ HoldOK(c)
  BY DEF Leases, Landing, Types
<1>2. UNCHANGED <<store, outlived>>
  BY DEF Tally, RemoveFails, StoreBreaks, Answered, Unanswered, Count, CheckAccount, Polled, Finish
<1>3. ASSUME NEW at, drain' = [drain EXCEPT ![c].at = at],
             drain[c].at \in Sending => at \in Sending
      PROVE  Leases'
  <2>1. Keeps(drain[c], [drain[c] EXCEPT !.at = at])
    BY <1>1, <1>3 DEF Keeps, Progress
  <2> QED
    BY <1>2, <1>3, <2>1, MoveKeeps
<1>4. CASE Tally(c)
  <2>1. CASE c = Worker
    BY <1>2, <1>4, <2>1, IdleKeeps, MoveKeeps DEF Tally
  <2>2. CASE c # Worker
    <3> DEFINE retry == (drain[c].retry \/ RowsOf(drain[c].owner) # {})
                        /\ RowsOf(drain[c].owner) # {}
               at == IF user[c] = drain[c].owner THEN "poll" ELSE "finish"
               e == [drain[c] EXCEPT !.retry = retry, !.at = at]
    <3>1. drain' = [drain EXCEPT ![c] = e]
      BY <1>4, <2>2 DEF Tally
    <3>2. Keeps(drain[c], e)
      <4> HIDE DEF retry, at
      <4> QED
        BY <1>1, <1>4 DEF Tally, Keeps, Progress, Sending
    <3> HIDE DEF e
    <3> QED
      BY <1>2, <3>1, <3>2, MoveKeeps
  <2> QED
    BY <2>1, <2>2
<1>5. CASE RemoveFails(c)
  BY <1>3, <1>5 DEF RemoveFails, Goto, Sending
<1>6. CASE StoreBreaks(c)
  <2>1. PICK e \in Progress : e.batch = 0 /\ drain' = [drain EXCEPT ![c] = e]
    <3>1. PICK at \in Step : at = IF c = Worker THEN "idle" ELSE "finish"
      BY DEF Step
    <3>2. 0 \in 0..Lease
      BY WebUploadsAssumption
    <3>3. [drain[c] EXCEPT !.at = at, !.batch = 0, !.lease = 0] \in Progress
      BY <1>1, <3>1, <3>2 DEF Progress
    <3>4. drain' = [drain EXCEPT ![c] = [drain[c] EXCEPT !.at = at, !.batch = 0, !.lease = 0]]
      BY <1>6, <3>1 DEF StoreBreaks
    <3> QED
      BY <1>1, <3>3, <3>4 DEF Progress
  <2> QED
    BY <1>2, <2>1, MoveKeeps DEF Keeps
<1>7. CASE Answered(c)
  <2>1. PICK at \in Sending : at = AfterAnswer(c)
    BY DEF AfterAnswer, Sending
  <2>2. CASE drain' = [drain EXCEPT ![c].at = AfterAnswer(c), ![c].aborted = TRUE]
    <3>1. Keeps(drain[c], [drain[c] EXCEPT !.at = at, !.aborted = TRUE])
      BY <1>1 DEF Keeps, Progress
    <3> QED
      BY <1>2, <2>1, <2>2, <3>1, MoveKeeps
  <2> QED
    BY <1>3, <1>7, <2>1, <2>2 DEF Answered, Goto
<1>8. CASE Unanswered(c)
  BY <1>3, <1>8 DEF Unanswered, Goto, Sending
<1>9. CASE Count(c)
  BY <1>3, <1>9 DEF Count, Goto, Sending
<1>10. CASE CheckAccount(c)
  BY <1>3, <1>10 DEF CheckAccount, Goto, Sending
<1>11. CASE Polled(c)
  BY <1>3, <1>11 DEF Polled, Goto, Sending
<1>12. CASE Finish(c)
  <2>1. PICK rest \in Progress : rest = [Idle EXCEPT !.added = drain[c].added] /\ rest.batch = 0
    <3>1. [Idle EXCEPT !.added = drain[c].added] \in Progress
      BY <1>1, IdleType DEF Progress
    <3>2. [Idle EXCEPT !.added = drain[c].added].batch = 0
      BY DEF Idle
    <3> QED
      BY <3>1, <3>2
  <2>2. Keeps(drain[c], rest) /\ Keeps(drain[c], Woken(rest, user[c]))
    BY <2>1, WokenKeeps DEF Keeps
  <2>3. PICK e \in {rest, Woken(rest, user[c])} : drain' = [drain EXCEPT ![c] = e]
    BY <1>12, <2>1 DEF Finish
  <2> QED
    BY <1>2, <2>2, <2>3, MoveKeeps
<1> QED
  BY <1>4, <1>5, <1>6, <1>7, <1>8, <1>9, <1>10, <1>11, <1>12

\* Nobody claims a batch whose sender is within its lease.
LEMMA ClaimKeeps ==
  ASSUME Leases, Landing', NEW c \in Context, ClaimNext(c)
  PROVE  Leases'
<1>1. drain[c] \in Progress /\ drain \in [Context -> Progress] /\ RowTypes /\ outlived' = outlived
  BY DEF Leases, Landing, Types, ClaimNext
<1>2. CASE Claimable(drain[c].owner) = {}
  <2>1. Keeps(drain[c], [drain[c] EXCEPT !.at = "tally"])
    BY <1>1 DEF Keeps, Progress, ClaimNext, Sending
  <2> QED
    BY <1>1, <1>2, <2>1, MoveKeeps DEF ClaimNext, Goto
<1>3. CASE Claimable(drain[c].owner) # {}
  <2>1. PICK b \in Claimable(drain[c].owner) : b = Min(Claimable(drain[c].owner))
    <3>1. Claimable(drain[c].owner) \in SUBSET Nat
      BY <1>1, WebUploadsAssumption DEF Claimable, RowsOf, RowTypes, Batch
    <3> QED
      BY <1>3, <3>1, MinExists
  <2>2. b \in DOMAIN store /\ (store[b].state = "queued" \/ store[b].lease = 0)
    BY <2>1 DEF Claimable, RowsOf
  <2>3. PICK at \in {"flight", "check"} : at = IF c = Worker THEN "flight" ELSE "check"
    OBVIOUS
  <2>4. PICK e : e = [drain[c] EXCEPT !.at = at, !.batch = b, !.lease = Lease]
    OBVIOUS
  <2>5. e.at \in Sending /\ e.batch = b /\ e.lease = Lease
    BY <1>1, <2>3, <2>4 DEF Progress, Sending
  <2>6. /\ store' = [store EXCEPT ![b].state = "sending", ![b].lease = Lease]
        /\ drain' = [drain EXCEPT ![c] = e]
    BY <1>3, <2>1, <2>3, <2>4 DEF ClaimNext
  <2>7. drain'[c] = e /\ \A x \in Context \ {c} : drain'[x] = drain[x]
    BY <1>1, <2>6
  <2>8. /\ DOMAIN store' = DOMAIN store
        /\ store'[b].state = "sending" /\ store'[b].lease = Lease
        /\ \A x \in DOMAIN store : x # b => store'[x] = store[x]
    BY <1>1, <2>2, <2>6 DEF RowTypes, Row
  <2>9. HoldOK(c)'
    BY <2>2, <2>5, <2>7, <2>8, WebUploadsAssumption DEF HoldOK, Leased
  <2>10. \A x \in Context \ {c} : Holding(x) /\ drain[x].batch \notin outlived =>
           drain[x].batch # b /\ drain[x].batch \in DOMAIN store
    BY <2>2 DEF Leases, HoldOK, Leased
  <2> QED
    BY <1>1, <2>5, <2>7, <2>8, <2>9, <2>10, OneHolds
<1> QED
  BY <1>2, <1>3

\* A row that is removed or put back is held by nobody else within a lease.
LEMMA RemoveKeeps ==
  ASSUME Leases, Landing', NEW c \in Context, Remove(c) \/ Release(c)
  PROVE  Leases'
<1>1. drain[c] \in Progress /\ drain \in [Context -> Progress] /\ outlived' = outlived
  BY DEF Leases, Landing, Types, Remove, Release
<1>2. drain[c].batch # 0
  <2>1. drain[c].at \in Sending
    BY DEF Remove, Release, Sending
  <2> QED
    BY <2>1, SenderFacts DEF Leases, Batch
<1>3. PICK e : drain' = [drain EXCEPT ![c] = e] /\ e.batch = 0
  <2>1. [drain[c] EXCEPT !.at = "claim", !.batch = 0, !.lease = 0].batch = 0
    BY <1>1 DEF Progress
  <2>2. [drain[c] EXCEPT !.at = "tally", !.batch = 0, !.lease = 0,
                         !.retry = TRUE, !.aborted = FALSE].batch = 0
    BY <1>1 DEF Progress
  <2>3. \/ drain' = [drain EXCEPT ![c] =
              [drain[c] EXCEPT !.at = "claim", !.batch = 0, !.lease = 0]]
        \/ drain' = [drain EXCEPT ![c] =
              [drain[c] EXCEPT !.at = "tally", !.batch = 0, !.lease = 0,
                               !.retry = TRUE, !.aborted = FALSE]]
    BY DEF Remove, Release
  <2> QED
    BY <2>1, <2>2, <2>3
<1>4. drain'[c] = e /\ \A x \in Context \ {c} : drain'[x] = drain[x]
  BY <1>1, <1>3
<1>5. \A b \in DOMAIN store \ {drain[c].batch} : b \in DOMAIN store' /\ store'[b] = store[b]
  BY DEF Remove, Release
<1>6. \A x \in Context \ {c} : Holding(x) /\ drain[x].batch \notin outlived =>
        drain[x].batch \in DOMAIN store \ {drain[c].batch}
  BY <1>2 DEF Leases, HoldOK, Leased, OneSenderWithinLease, Holding
<1>7. HoldOK(c)'
  BY <1>3, <1>4 DEF HoldOK, Holding
<1> QED
  BY <1>1, <1>3, <1>4, <1>5, <1>6, <1>7, OneHolds DEF Holding

LEMMA EnqueueKeeps ==
  ASSUME Leases, Landing', NEW p \in Page, NEW k \in 1..MaxBatch, Enqueue(p, k)
  PROVE  Leases'
<1>1. p \in Context /\ drain[p] \in Progress /\ drain \in [Context -> Progress]
      /\ outlived' = outlived
  BY DEF Leases, Landing, Types, Context, Enqueue
<1>2. PICK n \in 0..MaxBatch : \A b \in Batch : made[b] # NoOwner <=> b =< n
  BY DEF Leases, Landing, MadeOK
<1>3. Cardinality({b \in Batch : made[b] # NoOwner}) = n
  BY <1>2, MadeCounts, WebUploadsAssumption
<1>4. PICK new : new = n + 1 .. n + k
  OBVIOUS
<1>5. /\ DOMAIN store' = DOMAIN store \cup new
      /\ \A b \in DOMAIN store \ new : store'[b] = store[b]
  BY <1>3, <1>4 DEF Enqueue
<1>6. \A b \in DOMAIN store : b \notin new
  <2>1. \A b \in DOMAIN store : b \in Batch /\ made[b] # NoOwner
    BY DEF Leases, Landing, Types, RowTypes, RowsOK
  <2> QED
    BY <1>2, <1>4, <2>1 DEF Batch
<1>7. PICK e : e = [drain[p] EXCEPT !.added = TRUE]
  OBVIOUS
<1>8. /\ drain' = [drain EXCEPT ![p] = e]
      /\ e.at = drain[p].at /\ e.batch = drain[p].batch /\ e.lease = drain[p].lease
  BY <1>1, <1>7 DEF Progress, Enqueue
<1>9. drain'[p] = e /\ \A x \in Context \ {p} : drain'[x] = drain[x]
  BY <1>1, <1>8
<1>10. \A b \in DOMAIN store : b \in DOMAIN store' /\ store'[b] = store[b]
  BY <1>5, <1>6
<1>11. HoldOK(p)'
  <2>1. HoldOK(p)
    BY <1>1 DEF Leases
  <2> QED
    BY <1>1, <1>8, <1>9, <1>10, <2>1 DEF HoldOK, Holding, Leased
<1>12. \A x \in Context \ {p} : Holding(x) /\ drain[x].batch \notin outlived =>
         drain[x].batch \in DOMAIN store
  BY DEF Leases, HoldOK, Leased
<1>13. \A x \in Context \ {p} : Holding(x) /\ drain'[p].batch = drain[x].batch =>
         drain[x].batch \in outlived
  BY <1>1, <1>8, <1>9 DEF Leases, OneSenderWithinLease, Holding
<1> QED
  BY <1>1, <1>9, <1>10, <1>11, <1>12, <1>13, OneHolds

\* The clocks of a row and of its sender run out together.
LEMMA TickKeeps ==
  ASSUME Leases, Landing', Tick
  PROVE  Leases'
<1>1. /\ drain \in [Context -> Progress] /\ RowTypes /\ OneSenderWithinLease
      /\ \A c \in Context : HoldOK(c)
  BY DEF Leases, Landing, Types
<1>2. \A c \in Context :
        /\ drain'[c].at = drain[c].at /\ drain'[c].batch = drain[c].batch
        /\ drain'[c].lease = IF drain[c].lease > 0 THEN drain[c].lease - 1 ELSE 0
  <2> SUFFICES ASSUME NEW c \in Context
               PROVE  /\ drain'[c].at = drain[c].at /\ drain'[c].batch = drain[c].batch
                      /\ drain'[c].lease = IF drain[c].lease > 0 THEN drain[c].lease - 1 ELSE 0
    OBVIOUS
  <2>1. PICK l : l = IF drain[c].lease > 0 THEN drain[c].lease - 1 ELSE 0
    OBVIOUS
  <2>2. drain'[c] = [drain[c] EXCEPT !.lease = l]
    BY <2>1 DEF Tick
  <2>3. drain[c] \in Progress
    BY <1>1
  <2> QED
    BY <2>1, <2>2, <2>3 DEF Progress
<1>3. /\ outlived \subseteq outlived'
      /\ \A c \in Context : Holding(c) /\ drain[c].lease <= 1 => drain[c].batch \in outlived'
  BY DEF Tick
<1>4. DOMAIN store' = DOMAIN store
  BY DEF Tick
<1>5. \A b \in DOMAIN store :
        /\ store'[b].state = store[b].state
        /\ store'[b].lease = IF store[b].lease > 0 THEN store[b].lease - 1 ELSE 0
  <2> SUFFICES ASSUME NEW b \in DOMAIN store
               PROVE  /\ store'[b].state = store[b].state
                      /\ store'[b].lease = IF store[b].lease > 0 THEN store[b].lease - 1 ELSE 0
    OBVIOUS
  <2>1. PICK l : l = IF store[b].lease > 0 THEN store[b].lease - 1 ELSE 0
    OBVIOUS
  <2>2. store'[b] = [store[b] EXCEPT !.lease = l]
    BY <2>1 DEF Tick
  <2>3. store[b] \in Row
    BY <1>1 DEF RowTypes
  <2> QED
    BY <2>1, <2>2, <2>3 DEF Row
<1>6. ASSUME NEW c \in Context PROVE HoldOK(c)'
  <2>1. CASE ~Holding(c) \/ drain[c].batch \in outlived'
    BY <1>1, <1>2, <2>1 DEF HoldOK, Holding
  <2>2. CASE Holding(c) /\ drain[c].batch \notin outlived'
    <3>1. Leased(c) /\ drain[c].at \in Sending
      BY <1>1, <1>3, <2>2 DEF HoldOK
    <3>2. drain[c].lease \in Nat /\ drain[c].lease > 1
      BY <1>1, <1>3, <2>2, WebUploadsAssumption DEF Progress
    <3> QED
      BY <1>2, <1>4, <1>5, <3>1, <3>2 DEF HoldOK, Leased
  <2> QED
    BY <2>1, <2>2
<1>7. OneSenderWithinLease'
  BY <1>1, <1>2, <1>3 DEF OneSenderWithinLease, Holding
<1> QED
  BY <1>6, <1>7 DEF Leases

LEMMA StepLeases ==
  ASSUME Leases, [Next]_vars
  PROVE  Leases'
<1>1. Landing'
  BY StepLanding DEF Leases
<1>2. CASE UNCHANGED <<store, drain, outlived>>
  BY <1>1, <1>2 DEF Leases, HoldOK, Leased, Holding, OneSenderWithinLease
<1>3. CASE UNCHANGED vars \/ \E u \in Owner \cup {NoOwner} : AccountChanges(u)
  BY <1>2, <1>3 DEF vars, AccountChanges
<1>4. ASSUME NEW p \in Page,
             \/ Open(p) \/ Close(p) \/ SignOut(p) \/ SessionLost(p) \/ Online(p)
             \/ Announce(p) \/ Count(p) \/ CheckAccount(p) \/ Polled(p) \/ Finish(p)
             \/ \E u \in Owner : SignIn(p, u)
             \/ \E n \in 1..MaxBatch : Enqueue(p, n)
      PROVE  Leases'
  <2>1. p \in Context
    BY DEF Context
  <2> QED
    BY <1>1, <1>4, <2>1, PageKeeps, DrainKeeps, EnqueueKeeps
<1>5. ASSUME NEW c \in Context,
             \/ ClaimNext(c) \/ Answered(c) \/ Unanswered(c) \/ Remove(c) \/ Release(c)
             \/ RemoveFails(c) \/ StoreBreaks(c) \/ Tally(c)
      PROVE  Leases'
  BY <1>1, <1>5, ClaimKeeps, RemoveKeeps, DrainKeeps
<1>6. CASE SyncFires \/ WorkerStops
  <2>1. Keeps(drain[Worker], [Idle EXCEPT !.at = "claim", !.owner = cookie])
    BY DEF Keeps, Idle
  <2>2. Worker \in Context
    BY DEF Context
  <2> QED
    BY <1>1, <1>6, <2>1, <2>2, IdleKeeps, MoveKeeps DEF SyncFires, WorkerStops
<1>7. CASE Tick
  BY <1>1, <1>7, TickKeeps
<1> QED
  BY <1>3, <1>4, <1>5, <1>6, <1>7 DEF Next

LEMMA InitLeases == Init => Leases
<1> SUFFICES ASSUME Init PROVE Leases
  OBVIOUS
<1>1. \A c \in Context : ~Holding(c)
  BY DEF Init, Holding, Idle
<1> QED
  BY <1>1, InitLanding DEF Leases, HoldOK, OneSenderWithinLease

\* claimNext of upload-queue.ts, in any number of pages: two contexts send the same
\* batch only after one of its senders has held it for longer than the lease.
THEOREM OneSenderHolds == Spec => []OneSenderWithinLease
<1>1. Leases => OneSenderWithinLease
  BY DEF Leases
<1> QED
  BY <1>1, InitLeases, StepLeases, PTL DEF Spec
=============================================================================
