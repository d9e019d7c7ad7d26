-------------------------- MODULE ConnectionSafety --------------------------
(***************************************************************************)
(* Proofs about the phone's connection, for any number of servers, of      *)
(* libraries on them and of pairings under way: a credential stays with    *)
(* the server that issued it, the identity is that of the library it       *)
(* opens, and only what knew of a credential takes it away.                *)
(*                                                                         *)
(* A flow that connects has seen a connection and writes much later, after *)
(* others.  What makes the write safe is the epoch: while no operation of  *)
(* the chain is between its write and its publication, a flow that is not  *)
(* overtaken has seen the credential that is stored now.                   *)
(***************************************************************************)
EXTENDS Connection, SequenceTheorems, TLAPS

-----------------------------------------------------------------------------
(* The inductive invariant.                                                *)

Op ==
  [op: {"save"}, by: Flow, written: BOOLEAN]
    \cup [op: {"clear"}, failed: Conn, written: BOOLEAN]
    \cup [op: {"disconnect", "reset"}, written: BOOLEAN]

FlowState ==
  [at: {"idle", "claim", "load", "probe", "identity", "save", "saved", "reload"},
   new: Conn, epoch: Epoch, seen: 0..MaxToken, after: After]

Types ==
  /\ issued \in Seq(Library) /\ Len(issued) <= MaxToken /\ active \subseteq Token
  /\ store \in Conn /\ store.token <= Len(issued) /\ (store.token # 0 => store.url # None)
  /\ lost \in BOOLEAN /\ blind \in BOOLEAN
  /\ flow \in [Flow -> FlowState]
  /\ line \in Seq(Op)
  /\ request \in Conn \cup {None}
  /\ left \in 0..MaxEvent

\* The chain: only its head is at work, and a flow waits for one save at most.
LineOK ==
  /\ \A i \in 1..Len(line) :
       /\ line[i].op = "save" => flow[line[i].by].at = "save"
       /\ line[i].written => i = 1
  /\ \A i, j \in 1..Len(line) :
       line[i].op = "save" /\ line[j].op = "save" /\ line[i].by = line[j].by => i = j

\* The head has written and not published yet.
AtWork == Len(line) > 0 /\ line[1].written

\* The identity of a connection is that of the library its credential opens.
Owned(c) ==
  c.id # None => AddressOf[c.id] = c.url /\ (c.token # 0 => issued[c.token] = c.id)

FlowOK(f) ==
  LET w == flow[f] IN
  /\ w.new.token <= Len(issued) /\ Owned(w.new)
  /\ w.new.id # None => w.new.token # 0
  /\ w.at \notin {"idle", "reload"} => w.new.url # None
  /\ w.at = "claim" => w.new.id = None
  /\ f \in Pairer /\ w.at \in {"claim", "identity", "save"} => w.after = "tell"
  /\ f \in Pairer /\ w.at \in {"identity", "save"} => Home(w.new)
  /\ f \notin Pairer /\ w.at \in {"probe", "identity", "save"} => w.new.token = w.seen
  /\ w.at = "identity" \/ (w.at = "probe" /\ w.after = "tell") =>
       blind \/ Home(w.new)

\* Who has not been overtaken has seen the stored credential.
SeenIsStored ==
  blind \/ AtWork \/ \A f \in Flow : flow[f].epoch = "now" => flow[f].seen = store.token

\* What the head at work has written.
WriteOK ==
  AtWork =>
    /\ line[1].op # "save" => store.token = 0
    /\ line[1].op = "save" /\ flow[line[1].by].after # "tell" /\ lost =>
         blind \/ store.token = 0

RequestOK ==
  request # None => request.token # 0 /\ request.token <= Len(issued)
                    /\ (blind \/ Home(request))

StoreOK ==
  /\ Owned(store) /\ (blind \/ Home(store))
  /\ lost => store.token = 0 \/ blind \/ (AtWork /\ line[1].op = "save")

Sound ==
  /\ Types /\ LineOK /\ SeenIsStored /\ WriteOK /\ RequestOK /\ StoreOK
  /\ \A f \in Flow : FlowOK(f)

-----------------------------------------------------------------------------
(* The chain as a sequence.                                                *)

LEMMA LineAppends ==
  ASSUME Types, LineOK, NEW o \in Op, line' = Append(line, o), ~o.written,
         o.op = "save" => flow[o.by].at # "save" /\ flow'[o.by].at = "save",
         \A f \in Flow : flow[f].at = "save" => flow'[f].at = "save"
  PROVE  /\ line' \in Seq(Op) /\ LineOK'
         /\ AtWork' = AtWork /\ (AtWork => line'[1] = line[1])
  <1>1. /\ line' \in Seq(Op) /\ Len(line') = Len(line) + 1 /\ Len(line) \in Nat
        /\ \A i \in 1..Len(line) : line'[i] = line[i] /\ line[i] \in Op
        /\ line'[Len(line) + 1] = o
    BY DEF Types
  <1>2. ASSUME NEW i \in 1..Len(line'), i \notin 1..Len(line)
        PROVE  i = Len(line) + 1
    BY <1>1, <1>2
  <1>3. \A i \in 1..Len(line) : line[i].op = "save" => line[i].by \in Flow
    BY <1>1 DEF Op
  <1>4. \A i \in 1..Len(line') :
          /\ line'[i].op = "save" => flow'[line'[i].by].at = "save"
          /\ line'[i].written => i = 1
    BY <1>1, <1>2, <1>3 DEF LineOK
  <1>5. ASSUME NEW i \in 1..Len(line'), NEW j \in 1..Len(line'),
               line'[i].op = "save", line'[j].op = "save", line'[i].by = line'[j].by
        PROVE  i = j
    BY <1>1, <1>2, <1>5 DEF LineOK
  <1>6. AtWork' = AtWork
    BY <1>1 DEF AtWork
  <1>7. AtWork => line'[1] = line[1]
    BY <1>1 DEF AtWork
  <1> QED BY <1>1, <1>4, <1>5, <1>6, <1>7 DEF LineOK

LEMMA HeadOfLine ==
  ASSUME Types, line # <<>>
  PROVE  /\ Len(line) > 0 /\ Head(line) = line[1] /\ line[1] \in Op
         /\ 1 \in 1..Len(line)
  BY DEF Types

\* The head is over: the next one has not begun.
LEMMA LineDrops ==
  ASSUME Types, LineOK, line # <<>>, line' = Tail(line),
         \A f \in Flow : \/ flow[f].at = "save" => flow'[f].at = "save"
                         \/ line[1].op = "save" /\ line[1].by = f
  PROVE  line' \in Seq(Op) /\ LineOK' /\ ~AtWork'
  <1>1. /\ line' \in Seq(Op) /\ Len(line') = Len(line) - 1 /\ Len(line) \in Nat \ {0}
        /\ \A i \in 1..Len(line') : line'[i] = line[i + 1] /\ i + 1 \in 1..Len(line)
        /\ \A i \in 1..Len(line) : line[i] \in Op
        /\ 1 \in 1..Len(line)
    BY DEF Types
  <1>2. \A i \in 1..Len(line) : line[i].op = "save" => line[i].by \in Flow
    BY <1>1 DEF Op
  <1>3. ASSUME NEW i \in 1..Len(line')
        PROVE  /\ line'[i].op = "save" => flow'[line'[i].by].at = "save"
               /\ ~line'[i].written
    <2>1. i + 1 # 1 /\ i + 1 \in 1..Len(line) /\ line'[i] = line[i + 1]
      BY <1>1
    <2>2. ~line'[i].written
      BY <2>1 DEF LineOK
    <2>3. ASSUME line'[i].op = "save"
          PROVE  flow'[line'[i].by].at = "save"
      BY <1>1, <1>2, <2>1, <2>3 DEF LineOK
    <2> QED BY <2>2, <2>3
  <1>4. ASSUME NEW i \in 1..Len(line'), NEW j \in 1..Len(line'),
               line'[i].op = "save", line'[j].op = "save", line'[i].by = line'[j].by
        PROVE  i = j
    <2>1. i + 1 = j + 1
      BY <1>1, <1>4 DEF LineOK
    <2> QED BY <2>1
  <1>5. ~AtWork'
    BY <1>1, <1>3 DEF AtWork
  <1> QED BY <1>1, <1>3, <1>4, <1>5 DEF LineOK

-----------------------------------------------------------------------------
(* Flows.                                                                  *)

\* A flow takes a step; the others are where they were.
Moved(f, w) ==
  /\ flow' \in [Flow -> FlowState]
  /\ flow'[f] = w
  /\ \A g \in Flow \ {f} : flow'[g] = flow[g]

LEMMA FlowMoves ==
  ASSUME Types, NEW f \in Flow, NEW w \in FlowState, flow' = [flow EXCEPT ![f] = w]
  PROVE  Moved(f, w)
  BY DEF Types, Moved

LEMMA IdleFlow == Idle \in FlowState /\ Empty \in Conn
  <1>1. 0 \in 0..MaxToken
    BY ConnectionAssumption
  <1> QED BY <1>1 DEF Idle, Empty, FlowState, Conn, Epoch, After

LEMMA IdleIsOK ==
  ASSUME Types, NEW f \in Flow, flow'[f] = Idle, issued' = issued
  PROVE  FlowOK(f)'
  <1>1. Len(issued) \in Nat
    BY DEF Types
  <1> QED BY <1>1 DEF FlowOK, Idle, Empty, Owned

LEMMA FlowStays ==
  ASSUME NEW f \in Flow, FlowOK(f), flow'[f] = flow[f], issued' = issued,
         blind => blind'
  PROVE  FlowOK(f)'
  BY DEF FlowOK, Owned, Home

\* A step of one flow, outside the chain.
LEMMA FlowStep ==
  ASSUME Sound, Types', NEW f \in Flow, NEW w, Moved(f, w), flow[f].at # "save",
         UNCHANGED <<issued, store, line, request, blind>>, lost' => lost,
         w.epoch = "now" => blind \/ AtWork \/ w.seen = store.token,
         FlowOK(f)'
  PROVE  Sound'
  <1>1. \A g \in Flow : FlowOK(g)'
    BY FlowStays DEF Sound, Moved
  <1>2. \A i \in 1..Len(line) : line[i].op = "save" =>
          line[i].by \in Flow /\ flow'[line[i].by] = flow[line[i].by]
    <2>1. ASSUME NEW i \in 1..Len(line), line[i].op = "save"
          PROVE  line[i].by \in Flow /\ flow'[line[i].by] = flow[line[i].by]
      <3>1. line[i] \in Op
        BY DEF Sound, Types
      <3>2. line[i].by \in Flow
        BY <2>1, <3>1 DEF Op
      <3> QED BY <2>1, <3>2 DEF Sound, LineOK, Moved
    <2> QED BY <2>1
  <1>3. LineOK'
    BY <1>2 DEF Sound, LineOK
  <1>4. AtWork' = AtWork
    BY DEF AtWork
  <1>5. SeenIsStored'
    BY <1>4 DEF Sound, SeenIsStored, Moved
  <1>6. WriteOK'
    <2>1. AtWork => 1 \in 1..Len(line)
      BY DEF AtWork, Sound, Types
    <2> QED BY <1>2, <1>4, <2>1 DEF Sound, WriteOK
  <1>7. RequestOK' /\ StoreOK'
    BY <1>4 DEF Sound, RequestOK, StoreOK, Home, Owned
  <1> QED BY <1>1, <1>3, <1>5, <1>6, <1>7 DEF Sound

\* The bound on events stays in its range.
LEMMA EventType ==
  ASSUME Types, Event \/ Same
  PROVE  left' \in 0..MaxEvent
  BY ConnectionAssumption DEF Types, Event, Same

LEMMA FlowGivesUp ==
  ASSUME Sound, NEW f \in Flow, Give(f), flow[f].at # "save", lost' \in BOOLEAN,
         lost' => lost, UNCHANGED <<servers, store, line, request, blind>>,
         Event \/ Same
  PROVE  Sound'
  <1>1. Moved(f, Idle)
    BY IdleFlow, FlowMoves DEF Sound, Give
  <1>2. Types'
    BY <1>1, EventType DEF Sound, Types, servers, Moved, Token
  <1>3. FlowOK(f)'
    BY <1>1, IdleIsOK DEF Sound, Moved, servers
  <1>4. Idle.epoch # "now"
    BY DEF Idle
  <1> QED BY <1>1, <1>2, <1>3, <1>4, FlowStep DEF servers

LEMMA StartStep ==
  ASSUME Sound, NEW f \in Flow, NEW at \in {"claim", "load", "identity"},
         NEW url \in Address \cup {None}, NEW token \in {0, store.token},
         NEW after \in {"tell", "nothing"},
         flow[f].at = "idle", Start(f, at, url, token, after),
         at = "claim" => after = "tell", url # None,
         at = "identity" => token = store.token /\ url = store.url /\ f \notin Pairer,
         UNCHANGED <<servers, store, line, lost, request, blind>>, Event \/ Same
  PROVE  Sound'
  <1>1. /\ store.token \in 0..MaxToken /\ 0 \in 0..MaxToken /\ Len(issued) \in Nat
        /\ store.token <= Len(issued)
    BY ConnectionAssumption DEF Sound, Types, Conn
  <1>2. PICK w \in FlowState :
          /\ flow' = [flow EXCEPT ![f] = w]
          /\ w.epoch = "now" /\ w.seen = store.token /\ w.at = at /\ w.after = after
          /\ w.new.token = token /\ w.new.id = None /\ w.new.url = url
    <2>1. [at |-> at, epoch |-> "now", seen |-> store.token,
           new |-> [url |-> url, token |-> token, id |-> None], after |-> after]
            \in FlowState
      BY <1>1 DEF FlowState, Conn, Epoch, After
    <2> QED BY <2>1 DEF Start
  <1>3. Moved(f, w)
    BY <1>2, FlowMoves DEF Sound
  <1>4. Types'
    BY <1>3, EventType DEF Sound, Types, servers, Moved, Token
  <1>5. FlowOK(f)'
    <2>1. issued' = issued /\ flow'[f] = w /\ blind' = blind
      BY <1>3 DEF servers, Moved
    <2>2. at = "identity" => blind \/ Home(w.new)
      BY <1>2 DEF Sound, StoreOK, Home
    <2>3. token <= Len(issued)
      BY <1>1
    <2> QED BY <1>2, <2>1, <2>2, <2>3 DEF FlowOK, Owned, Home
  <1> QED BY <1>2, <1>3, <1>4, <1>5, FlowStep DEF servers

LEMMA StartsKeep ==
  ASSUME Sound, \/ \E p \in Pairer, a \in Address : Pair(p, a)
                \/ \E a \in Address : Commit(a)
                \/ Resolve
  PROVE  Sound'
  <1>1. ASSUME NEW p \in Pairer, NEW a \in Address, Pair(p, a)
        PROVE  Sound'
    BY <1>1, StartStep, ConnectionAssumption DEF Pair, Flow
  <1>2. ASSUME NEW a \in Address, Commit(a)
        PROVE  Sound'
    BY <1>2, StartStep, ConnectionAssumption DEF Commit, Flow
  <1>3. ASSUME Resolve
        PROVE  Sound'
    <2>1. /\ "engine" \in Flow \ Pairer /\ store.url \in Address \cup {None}
          /\ store.url # None
      BY <1>3, ConnectionAssumption DEF Flow, Sound, Types, Conn, Resolve
    <2> QED BY <1>3, <2>1, StartStep DEF Resolve
  <1> QED BY <1>1, <1>2, <1>3

LEMMA CommitLoadKeeps ==
  ASSUME Sound, CommitLoad
  PROVE  Sound'
  <1> DEFINE f == "commit"
  <1>1. f \in Flow \ Pairer /\ flow[f] \in FlowState
    BY ConnectionAssumption DEF Flow, Sound, Types
  <1>2. /\ store.token \in 0..MaxToken /\ store.token <= Len(issued)
        /\ Len(issued) \in Nat
    BY DEF Sound, Types, Conn
  <1>3. PICK w \in FlowState :
          /\ flow' = [flow EXCEPT ![f] = w]
          /\ w.at = "probe" /\ w.seen = store.token
          /\ w.new.token = store.token /\ w.new.id = None
          /\ w.new.url = flow[f].new.url
          /\ w.after = "tell" => w.new.url = store.url
    <2>1. PICK url \in Address \cup {None} : url = flow[f].new.url
      BY <1>1 DEF FlowState, Conn
    <2>2. PICK after \in After : after = IF store.url = url THEN "tell" ELSE "look"
      BY DEF After
    <2>3. [at |-> "probe", epoch |-> flow[f].epoch, seen |-> store.token,
           new |-> [url |-> url, token |-> store.token, id |-> None],
           after |-> after] \in FlowState
      BY <1>1, <1>2 DEF FlowState, Conn
    <2> QED BY <2>1, <2>2, <2>3 DEF CommitLoad
  <1>4. Moved(f, w)
    BY <1>1, <1>3, FlowMoves DEF Sound
  <1>5. UNCHANGED <<servers, store, line, lost, request, blind>> /\ Same
    BY DEF CommitLoad
  <1>6. Types'
    BY <1>4, <1>5, EventType DEF Sound, Types, servers, Moved, Token
  <1>7. FlowOK(f)'
    <2>1. issued' = issued /\ flow'[f] = w /\ blind' = blind
      BY <1>4, <1>5 DEF servers, Moved
    <2>2. w.after = "tell" => blind \/ Home(w.new)
      BY <1>3 DEF Sound, StoreOK, Home
    <2>3. w.new.url # None
      BY <1>1, <1>3 DEF Sound, FlowOK, CommitLoad
    <2> QED BY <1>1, <1>2, <1>3, <2>1, <2>2, <2>3 DEF FlowOK, Owned, Home
  <1>8. flow[f].at # "save"
    BY DEF CommitLoad
  <1> QED BY <1>1, <1>3, <1>4, <1>5, <1>6, <1>7, <1>8, FlowStep DEF servers

\* A flow waits for its save at the end of the chain.
LEMMA QueueStep ==
  ASSUME Sound, NEW f \in Flow, NEW w \in FlowState, flow' = [flow EXCEPT ![f] = w],
         w.at = "save", flow[f].at # "save", line' = Append(line, Save(f)),
         UNCHANGED <<servers, store, lost, request, blind>>, Event \/ Same,
         w.epoch = "now" => blind \/ AtWork \/ w.seen = store.token,
         FlowOK(f)'
  PROVE  Sound'
  <1>1. Moved(f, w)
    BY FlowMoves DEF Sound
  <1>2. /\ line' \in Seq(Op) /\ LineOK'
        /\ AtWork' = AtWork /\ (AtWork => line'[1] = line[1])
    <2>1. Save(f) \in Op /\ ~Save(f).written /\ Save(f).by = f
      BY DEF Save, Op
    <2>2. \A g \in Flow : flow[g].at = "save" => flow'[g].at = "save"
      BY <1>1 DEF Moved
    <2>3. flow'[f].at = "save"
      BY <1>1 DEF Moved
    <2> QED BY <2>1, <2>2, <2>3, LineAppends DEF Sound
  <1>3. Types'
    BY <1>1, <1>2, EventType DEF Sound, Types, servers, Moved, Token
  <1>4. \A g \in Flow : FlowOK(g)'
    BY <1>1, FlowStays DEF Sound, Moved, servers
  <1>5. SeenIsStored'
    BY <1>1, <1>2 DEF Sound, SeenIsStored, Moved
  <1>6. WriteOK'
    <2>1. ASSUME AtWork, line[1].op = "save"
          PROVE  flow'[line[1].by] = flow[line[1].by]
      <3>1. 1 \in 1..Len(line) /\ line[1] \in Op
        BY <2>1 DEF AtWork, Sound, Types
      <3>2. line[1].by \in Flow /\ flow[line[1].by].at = "save"
        BY <2>1, <3>1 DEF Op, Sound, LineOK
      <3> QED BY <1>1, <3>2 DEF Moved
    <2> QED BY <1>2, <2>1 DEF Sound, WriteOK
  <1>7. RequestOK' /\ StoreOK'
    BY <1>2 DEF Sound, RequestOK, StoreOK, Home, Owned, servers
  <1> QED BY <1>2, <1>3, <1>4, <1>5, <1>6, <1>7 DEF Sound

\* The server answers with the library of the token it took.
LEMMA IdentityKeeps ==
  ASSUME Sound, NEW f \in Flow, Identity(f)
  PROVE  Sound'
  <1>1. flow[f] \in FlowState /\ flow[f].new \in Conn /\ flow[f].at = "identity" /\ FlowOK(f)
    BY DEF Sound, Types, FlowState, Identity
  <1>2. /\ flow[f].new.token \in Token
        /\ issued[flow[f].new.token] \in Library
        /\ AddressOf[issued[flow[f].new.token]] = flow[f].new.url
    BY DEF Sound, Types, Token, Identity, Accepted
  <1>3. PICK id \in {issued[flow[f].new.token], None} :
          Queue(f, [flow[f].new EXCEPT !.id = id])
    BY DEF Identity
  <1>4. PICK c \in Conn : /\ c.token = flow[f].new.token /\ c.url = flow[f].new.url
                          /\ c.id = id /\ Queue(f, c)
    <2>1. [flow[f].new EXCEPT !.id = id] \in Conn
      BY <1>1, <1>2 DEF Conn
    <2> QED BY <1>1, <1>3, <2>1 DEF Conn
  <1>5. PICK w \in FlowState :
          /\ flow' = [flow EXCEPT ![f] = w]
          /\ w.at = "save" /\ w.new = c /\ w.epoch = flow[f].epoch
          /\ w.seen = flow[f].seen /\ w.after = flow[f].after
    <2>1. [flow[f] EXCEPT !.at = "save", !.new = c] \in FlowState
      BY <1>1 DEF FlowState
    <2>2. flow' = [flow EXCEPT ![f] = [flow[f] EXCEPT !.at = "save", !.new = c]]
      BY <1>4 DEF Queue, Sound, Types
    <2> QED BY <1>1, <2>1, <2>2 DEF FlowState
  <1>6. UNCHANGED <<servers, store, lost, request, blind>> /\ Same
    BY DEF Identity
  <1>7. FlowOK(f)'
    <2>1. issued' = issued /\ flow'[f] = w /\ blind' = blind
      BY <1>5, <1>6, FlowMoves DEF servers, Moved, Sound
    <2>2. w.new.token # 0 /\ Home(w.new) /\ Owned(w.new)
      BY <1>2, <1>4, <1>5 DEF Home, Owned, Token, Sound, Types
    <2> QED BY <1>1, <1>4, <1>5, <2>1, <2>2 DEF FlowOK, Owned, Home
  <1>8. w.epoch = "now" => blind \/ AtWork \/ w.seen = store.token
    BY <1>5 DEF Sound, SeenIsStored
  <1>9. line' = Append(line, Save(f))
    BY <1>4 DEF Queue
  <1> QED BY <1>1, <1>5, <1>6, <1>7, <1>8, <1>9, QueueStep

\* A token more is issued: what is known of the others stays so.
LEMMA IssueKeeps ==
  ASSUME Types, NEW l \in Library, issued' = Append(issued, l), NEW c, c.token \in Nat,
         c.token <= Len(issued)
  PROVE  (Owned(c) => Owned(c)') /\ (Home(c) => Home(c)')
  <1>1. c.token # 0 => issued'[c.token] = issued[c.token]
    BY DEF Types
  <1> QED BY <1>1 DEF Owned, Home

LEMMA ClaimedKeeps ==
  ASSUME Sound, NEW p \in Pairer, NEW l \in Library, Claimed(p, l)
  PROVE  Sound'
  <1> DEFINE t == Len(issued) + 1
  <1>1. /\ p \in Flow /\ flow[p] \in FlowState /\ flow[p].new \in Conn /\ FlowOK(p)
        /\ flow[p].at = "claim" /\ AddressOf[l] = flow[p].new.url
        /\ Len(issued) < MaxToken /\ issued' = Append(issued, l)
        /\ active' = active \cup {t}
        /\ UNCHANGED <<store, line, lost, request, blind>> /\ Same
    BY DEF Sound, Types, FlowState, Claimed, Flow
  <1>2. /\ issued' \in Seq(Library) /\ Len(issued') = t /\ Len(issued) \in Nat
        /\ issued'[t] = l /\ t \in 0..MaxToken /\ MaxToken \in Nat
        /\ Token \subseteq Token' /\ t \in Token'
    BY <1>1, ConnectionAssumption DEF Sound, Types, Token
  <1>3. PICK w \in FlowState :
          /\ flow' = [flow EXCEPT ![p] = w]
          /\ w.at = "identity" /\ w.new.token = t /\ w.new.url = flow[p].new.url
          /\ w.new.id = flow[p].new.id /\ w.epoch = flow[p].epoch
          /\ w.seen = flow[p].seen /\ w.after = flow[p].after
    <2>1. [flow[p].new EXCEPT !.token = t] \in Conn
      BY <1>1, <1>2 DEF Conn
    <2>2. PICK c \in Conn : c = [flow[p].new EXCEPT !.token = t]
      BY <2>1
    <2>3. c.token = t /\ c.url = flow[p].new.url /\ c.id = flow[p].new.id
      BY <1>1, <2>2 DEF Conn
    <2>4. [flow[p] EXCEPT !.at = "identity", !.new = c] \in FlowState
      BY <1>1 DEF FlowState
    <2>5. flow' = [flow EXCEPT ![p] = [flow[p] EXCEPT !.at = "identity", !.new = c]]
      BY <1>1, <2>2 DEF Claimed, Sound, Types, FlowState
    <2> QED BY <1>1, <2>3, <2>4, <2>5 DEF FlowState
  <1>4. Moved(p, w)
    BY <1>1, <1>3, FlowMoves DEF Sound
  <1> HIDE DEF t
  <1>5. Types'
    <2>1. active' \subseteq Token'
      BY <1>1, <1>2 DEF Sound, Types
    <2>2. store.token <= Len(issued')
      BY <1>2 DEF Sound, Types, Conn, t
    <2> QED BY <1>1, <1>2, <1>4, <2>1, <2>2, EventType DEF Sound, Types, Moved
  <1>6. ASSUME NEW c, c.token \in Nat, c.token <= Len(issued)
        PROVE  (Owned(c) => Owned(c)') /\ (Home(c) => Home(c)')
               /\ c.token <= Len(issued')
    <2>1. (Owned(c) => Owned(c)') /\ (Home(c) => Home(c)')
      BY <1>1, <1>6, IssueKeeps DEF Sound
    <2>2. c.token <= Len(issued')
      BY <1>2, <1>6 DEF t
    <2> QED BY <2>1, <2>2
  <1>7. FlowOK(p)'
    <2>1. flow'[p] = w
      BY <1>4 DEF Moved
    <2>2. w.new.id = None /\ w.after = "tell"
      BY <1>1, <1>3 DEF FlowOK
    <2>3. Home(w.new)'
      BY <1>1, <1>2, <1>3 DEF Home
    <2> QED BY <1>1, <1>2, <1>3, <2>1, <2>2, <2>3 DEF FlowOK, Owned, Home
  <1>8. ASSUME NEW g \in Flow \ {p}
        PROVE  FlowOK(g)'
    <2>1. FlowOK(g) /\ flow'[g] = flow[g] /\ flow[g].new.token \in Nat
      BY <1>4 DEF Sound, Types, Moved, FlowState, Conn
    <2>2. PICK c : c = flow[g].new
      OBVIOUS
    <2>3. c.token \in Nat /\ c.token <= Len(issued)
      BY <2>1, <2>2 DEF FlowOK
    <2>4. (Owned(c) => Owned(c)') /\ (Home(c) => Home(c)') /\ c.token <= Len(issued')
      BY <1>6, <2>3
    <2>5. flow'[g].new = c /\ flow[g].new = c
      BY <2>1, <2>2
    <2> QED BY <1>1, <2>1, <2>4, <2>5 DEF FlowOK, Home, Owned
  <1>9. \A i \in 1..Len(line) : line[i].op = "save" =>
          line[i].by \in Flow \ {p} /\ flow'[line[i].by] = flow[line[i].by]
    <2>1. ASSUME NEW i \in 1..Len(line), line[i].op = "save"
          PROVE  line[i].by \in Flow \ {p} /\ flow'[line[i].by] = flow[line[i].by]
      <3>1. line[i] \in Op
        BY DEF Sound, Types
      <3>2. line[i].by \in Flow
        BY <2>1, <3>1 DEF Op
      <3> QED BY <1>1, <1>4, <2>1, <3>2 DEF Sound, LineOK, Moved
    <2> QED BY <2>1
  <1>10. LineOK'
    BY <1>1, <1>9 DEF Sound, LineOK
  <1>11. AtWork' = AtWork
    BY <1>1 DEF AtWork
  <1>12. SeenIsStored'
    BY <1>1, <1>3, <1>4, <1>11 DEF Sound, SeenIsStored, Moved
  <1>13. WriteOK'
    <2>1. AtWork => 1 \in 1..Len(line)
      BY DEF AtWork, Sound, Types
    <2> QED BY <1>1, <1>9, <1>11, <2>1 DEF Sound, WriteOK
  <1>14. RequestOK'
    <2>1. request # None => request.token \in Nat
      BY DEF Sound, Types, Conn
    <2>2. PICK c : c = request
      OBVIOUS
    <2>3. request # None => (Home(c) => Home(c)') /\ c.token <= Len(issued')
      BY <1>6, <2>1, <2>2 DEF Sound, RequestOK
    <2> QED BY <1>1, <2>2, <2>3 DEF Sound, RequestOK, Home
  <1>15. StoreOK'
    <2>1. store.token \in Nat /\ store.token <= Len(issued)
      BY DEF Sound, Types, Conn
    <2>2. PICK c : c = store
      OBVIOUS
    <2>3. (Owned(c) => Owned(c)') /\ (Home(c) => Home(c)')
      BY <1>6, <2>1, <2>2
    <2> QED BY <1>1, <1>11, <2>2, <2>3 DEF Sound, StoreOK, Home, Owned
  <1> QED BY <1>5, <1>7, <1>8, <1>10, <1>12, <1>13, <1>14, <1>15 DEF Sound

LEMMA GiveUpsKeep ==
  ASSUME Sound, \/ \E p \in Pairer : NotClaimed(p) \/ Reloaded(p)
                \/ \E f \in Flow : NoIdentity(f)
                \/ CommitEnds
  PROVE  Sound'
  <1>1. lost \in BOOLEAN /\ Pairer \subseteq Flow /\ "commit" \in Flow
    BY DEF Sound, Types, Flow
  <1>2. ASSUME NEW p \in Pairer, NotClaimed(p) \/ Reloaded(p)
        PROVE  Sound'
    <2>1. CASE NotClaimed(p)
      BY <1>1, <2>1, FlowGivesUp DEF NotClaimed
    <2>2. CASE Reloaded(p)
      BY <1>1, <2>2, FlowGivesUp DEF Reloaded
    <2> QED BY <1>2, <2>1, <2>2
  <1>3. ASSUME NEW f \in Flow, NoIdentity(f)
        PROVE  Sound'
    BY <1>1, <1>3, FlowGivesUp DEF NoIdentity
  <1>4. ASSUME CommitEnds
        PROVE  Sound'
    BY <1>1, <1>4, FlowGivesUp DEF CommitEnds
  <1> QED BY <1>2, <1>3, <1>4

LEMMA ProbedKeeps ==
  ASSUME Sound, NEW resolved \in BOOLEAN, Probed(resolved)
  PROVE  Sound'
  <1> DEFINE f == "commit"
  <1>1. /\ f \in Flow \ Pairer /\ flow[f] \in FlowState /\ FlowOK(f)
        /\ flow[f].at = "probe" /\ lost \in BOOLEAN
        /\ UNCHANGED <<servers, store, lost, request, blind>> /\ Same
    BY ConnectionAssumption DEF Flow, Sound, Types, Probed
  <1>2. CASE Give(f) /\ UNCHANGED line
    BY <1>1, <1>2, FlowGivesUp
  <1>3. CASE /\ flow[f].after = "tell" /\ UNCHANGED line
             /\ flow' = [flow EXCEPT ![f].at = "identity"]
    <2>1. PICK w \in FlowState :
            /\ flow' = [flow EXCEPT ![f] = w]
            /\ w.at = "identity" /\ w.new = flow[f].new /\ w.epoch = flow[f].epoch
            /\ w.seen = flow[f].seen /\ w.after = flow[f].after
      <3>1. [flow[f] EXCEPT !.at = "identity"] \in FlowState
        BY <1>1 DEF FlowState
      <3> QED BY <1>1, <1>3, <3>1 DEF FlowState
    <2>2. Moved(f, w)
      BY <1>1, <2>1, FlowMoves DEF Sound
    <2>3. Types'
      BY <1>1, <1>3, <2>2, EventType DEF Sound, Types, servers, Moved, Token
    <2>4. FlowOK(f)'
      <3>1. issued' = issued /\ flow'[f] = w /\ blind' = blind
        BY <1>1, <2>2 DEF servers, Moved
      <3> QED BY <1>1, <1>3, <2>1, <3>1 DEF FlowOK, Owned, Home
    <2>5. w.epoch = "now" => blind \/ AtWork \/ w.seen = store.token
      BY <1>1, <2>1 DEF Sound, SeenIsStored
    <2> QED BY <1>1, <1>3, <2>1, <2>2, <2>3, <2>4, <2>5, FlowStep DEF servers
  <1>4. CASE /\ line' = Append(line, Save(f))
             /\ flow' = [flow EXCEPT ![f].at = "save",
                                     ![f].after = IF resolved THEN "look" ELSE "nothing"]
    <2>1. PICK after \in After : after = IF resolved THEN "look" ELSE "nothing"
      BY DEF After
    <2>2. PICK w \in FlowState :
            /\ flow' = [flow EXCEPT ![f] = w]
            /\ w.at = "save" /\ w.new = flow[f].new /\ w.epoch = flow[f].epoch
            /\ w.seen = flow[f].seen
      <3>1. [flow[f] EXCEPT !.at = "save", !.after = after] \in FlowState
        BY <1>1 DEF FlowState
      <3>2. flow' = [flow EXCEPT ![f] = [flow[f] EXCEPT !.at = "save", !.after = after]]
        BY <1>1, <1>4, <2>1 DEF Sound, Types
      <3> QED BY <1>1, <3>1, <3>2 DEF FlowState
    <2>3. FlowOK(f)'
      <3>1. issued' = issued /\ flow'[f] = w /\ blind' = blind
        BY <1>1, <2>2, FlowMoves DEF servers, Moved, Sound
      <3> QED BY <1>1, <2>2, <3>1 DEF FlowOK, Owned, Home
    <2>4. w.epoch = "now" => blind \/ AtWork \/ w.seen = store.token
      BY <1>1, <2>2 DEF Sound, SeenIsStored
    <2> QED BY <1>1, <1>4, <2>2, <2>3, <2>4, QueueStep
  <1> QED BY <1>2, <1>3, <1>4 DEF Probed

LEMMA OnboardKeeps ==
  ASSUME Sound, NEW a \in Address, Onboard(a)
  PROVE  Sound'
  <1> DEFINE f == "onboard"
  <1>1. /\ f \in Flow \ Pairer /\ flow[f].at = "idle"
        /\ store.token \in 0..MaxToken /\ store.token <= Len(issued)
        /\ UNCHANGED <<servers, store, lost, request, blind>> /\ Event
        /\ line' = Append(line, Save(f))
    BY ConnectionAssumption DEF Flow, Sound, Types, Conn, Onboard
  <1>2. PICK w \in FlowState :
          /\ flow' = [flow EXCEPT ![f] = w]
          /\ w.at = "save" /\ w.epoch = "none" /\ w.seen = store.token
          /\ w.new.token = store.token /\ w.new.id = None /\ w.new.url # None
    <2>1. [at |-> "save", epoch |-> "none", seen |-> store.token, after |-> "nothing",
           new |-> [url |-> a, token |-> store.token, id |-> None]] \in FlowState
      BY <1>1 DEF FlowState, Conn, Epoch, After
    <2> QED BY <2>1, ConnectionAssumption DEF Onboard
  <1>3. FlowOK(f)'
    <2>1. issued' = issued /\ flow'[f] = w /\ blind' = blind
      BY <1>1, <1>2, FlowMoves DEF servers, Moved, Sound
    <2> QED BY <1>1, <1>2, <2>1 DEF FlowOK, Owned
  <1> QED BY <1>1, <1>2, <1>3, QueueStep

-----------------------------------------------------------------------------
(* What happens to a connection from outside.                              *)

\* An operation that clears waits at the end of the chain, or none comes.
LEMMA ClearingQueued ==
  ASSUME Sound, \/ \E op \in {"disconnect", "reset"} : LetGo(op)
                \/ Unauthorized
  PROVE  Sound'
  <1>1. /\ UNCHANGED <<servers, store, lost, flow, blind>>
        /\ request' \in {request, None} /\ (Event \/ Same)
    BY DEF LetGo, Unauthorized
  <1> DEFINE Grown == /\ line' \in Seq(Op) /\ LineOK'
                      /\ AtWork' = AtWork /\ (AtWork => line'[1] = line[1])
  <1>2. Grown
    <2>1. CASE line' = line
      BY <1>1, <2>1 DEF Sound, Types, LineOK, AtWork
    <2>2. ASSUME NEW o \in Op, o.op # "save", ~o.written, line' = Append(line, o)
          PROVE  Grown
      BY <1>1, <2>2, LineAppends DEF Sound
    <2>3. ASSUME NEW op \in {"disconnect", "reset"}, LetGo(op)
          PROVE  [op |-> op, written |-> FALSE] \in Op
      BY DEF Op
    <2>4. ASSUME Unauthorized
          PROVE  Clear(request) \in Op
      BY <2>4 DEF Op, Clear, Unauthorized, Sound, Types
    <2> QED BY <2>1, <2>2, <2>3, <2>4 DEF LetGo, Unauthorized, Clear
  <1>3. Types'
    <2>1. left' \in 0..MaxEvent /\ request' \in Conn \cup {None}
      BY <1>1, EventType DEF Sound, Types
    <2>2. Token' = Token
      BY <1>1 DEF servers, Token
    <2> QED BY <1>1, <1>2, <2>1, <2>2 DEF Sound, Types, servers
  <1>4. \A g \in Flow : FlowOK(g)'
    BY <1>1, FlowStays DEF Sound, servers
  <1>5. SeenIsStored' /\ WriteOK' /\ RequestOK' /\ StoreOK'
    BY <1>1, <1>2
       DEF Sound, SeenIsStored, WriteOK, RequestOK, StoreOK, Home, Owned, servers
  <1> QED BY <1>2, <1>3, <1>4, <1>5 DEF Sound

LEMMA RequestsKeep ==
  ASSUME Sound, Request \/ Answered \/ \E t \in Token : Revoke(t)
  PROVE  Sound'
  <1>1. /\ UNCHANGED <<issued, store, line, lost, flow, blind>>
        /\ active' \subseteq active /\ (Event \/ Same)
        /\ \/ request' = store /\ store.token # 0
           \/ request' \in {request, None}
    BY DEF Request, Answered, Revoke, servers
  <1>2. Types'
    <2>1. left' \in 0..MaxEvent /\ request' \in Conn \cup {None}
      BY <1>1, EventType DEF Sound, Types
    <2>2. Token' = Token
      BY <1>1 DEF Token
    <2> QED BY <1>1, <2>1, <2>2 DEF Sound, Types
  <1>3. \A g \in Flow : FlowOK(g)'
    BY <1>1, FlowStays DEF Sound
  <1>4. AtWork' = AtWork
    BY <1>1 DEF AtWork
  <1>5. LineOK' /\ SeenIsStored' /\ WriteOK' /\ StoreOK'
    BY <1>1, <1>4 DEF Sound, LineOK, SeenIsStored, WriteOK, StoreOK, Home, Owned
  <1>6. RequestOK'
    BY <1>1 DEF Sound, RequestOK, StoreOK, Types, Home
  <1> QED BY <1>2, <1>3, <1>5, <1>6 DEF Sound

LEMMA RestartKeeps ==
  ASSUME Sound, Restart
  PROVE  Sound'
  <1>1. /\ line' = <<>> /\ ~lost' /\ lost' \in BOOLEAN /\ request' = None
        /\ \A f \in Flow : flow'[f] = Idle
        /\ flow' \in [Flow -> FlowState]
        /\ UNCHANGED <<servers, store, blind>> /\ Event
    BY IdleFlow DEF Restart
  <1>2. Types'
    BY <1>1, EventType DEF Sound, Types, servers, Token
  <1>3. \A f \in Flow : FlowOK(f)'
    BY <1>1, IdleIsOK DEF Sound, servers
  <1>4. LineOK' /\ ~AtWork'
    BY <1>1 DEF LineOK, AtWork
  <1>5. SeenIsStored' /\ WriteOK' /\ RequestOK' /\ StoreOK'
    <2>1. Idle.epoch # "now"
      BY DEF Idle
    <2> QED BY <1>1, <1>4, <2>1
            DEF Sound, SeenIsStored, WriteOK, RequestOK, StoreOK, Home, Owned, servers
  <1> QED BY <1>2, <1>3, <1>4, <1>5 DEF Sound

LEMMA StutterKeeps ==
  ASSUME Sound, UNCHANGED vars
  PROVE  Sound'
  BY DEF vars, servers, Sound, Types, Token, LineOK, SeenIsStored, AtWork, WriteOK,
     RequestOK, StoreOK, FlowOK, Home, Owned

-----------------------------------------------------------------------------
(* The chain at work.                                                      *)

\* What is kept of a connection that is written over another.
LEMMA KeptIs ==
  ASSUME NEW previous \in Conn, NEW next \in Conn
  PROVE  LET k == Kept(previous, next) IN
         /\ k \in Conn /\ k.url = next.url /\ k.token \in {0, next.token}
         /\ k.token # 0 /\ previous.token = next.token =>
              previous.url \in {None, next.url}
         /\ k.id # None => \/ k.id = next.id /\ k.token = next.token
                           \/ /\ k.id = previous.id /\ k.url = previous.url
                              /\ k.token = previous.token
  <1> DEFINE moved == /\ previous.url \notin {None, next.url}
                      /\ previous.token # 0 /\ previous.token = next.token
  <1>0. 0 \in 0..MaxToken
    BY ConnectionAssumption
  <1>1. CASE moved
    <2>1. PICK sent \in Conn : /\ sent = [next EXCEPT !.token = 0, !.id = None]
                               /\ sent.url = next.url /\ sent.token = 0 /\ sent.id = None
      <3>1. [next EXCEPT !.token = 0, !.id = None] \in Conn
        BY <1>0 DEF Conn
      <3>2. /\ [next EXCEPT !.token = 0, !.id = None].url = next.url
            /\ [next EXCEPT !.token = 0, !.id = None].token = 0
            /\ [next EXCEPT !.token = 0, !.id = None].id = None
        BY DEF Conn
      <3> QED BY <3>1, <3>2
    <2>2. Kept(previous, next) = sent
      BY <1>1, <2>1 DEF Kept
    <2> QED BY <2>1, <2>2
  <1>2. CASE ~moved
    <2>1. CASE /\ next.id = None /\ previous.url = next.url
               /\ previous.token = next.token
      <3>1. Kept(previous, next) = [next EXCEPT !.id = previous.id]
        BY <1>2, <2>1 DEF Kept
      <3> QED BY <2>1, <3>1 DEF Conn
    <2>2. CASE ~(/\ next.id = None /\ previous.url = next.url
                 /\ previous.token = next.token)
      <3>1. Kept(previous, next) = next
        BY <1>2, <2>2 DEF Kept
      <3> QED BY <1>2, <3>1
    <2> QED BY <2>1, <2>2
  <1> QED BY <1>1, <1>2

LEMMA LineWrites ==
  ASSUME Types, LineOK, line # <<>>, line' = [line EXCEPT ![1].written = TRUE],
         flow' = flow
  PROVE  /\ line' \in Seq(Op) /\ LineOK' /\ AtWork'
         /\ line'[1].op = line[1].op
         /\ line[1].op = "save" => line'[1].by = line[1].by
  <1>1. /\ Len(line) > 0 /\ line[1] \in Op /\ 1 \in 1..Len(line) /\ Len(line) \in Nat
        /\ \A i \in 1..Len(line) : line[i] \in Op
    BY HeadOfLine DEF Types
  <1>2. PICK o \in Op : /\ o.written /\ o.op = line[1].op
                        /\ line[1].op = "save" => o.by = line[1].by
                        /\ line' = [line EXCEPT ![1] = o]
    <2>1. [line[1] EXCEPT !.written = TRUE] \in Op
      BY <1>1 DEF Op
    <2>2. /\ [line[1] EXCEPT !.written = TRUE].written
          /\ [line[1] EXCEPT !.written = TRUE].op = line[1].op
          /\ line[1].op = "save" => [line[1] EXCEPT !.written = TRUE].by = line[1].by
      BY <1>1 DEF Op
    <2> QED BY <2>1, <2>2
  <1>3. /\ line' \in Seq(Op) /\ Len(line') = Len(line) /\ line'[1] = o
        /\ \A i \in 1..Len(line) : i # 1 => line'[i] = line[i]
    <2>1. line \in Seq(Op)
      BY DEF Types
    <2>2. /\ [line EXCEPT ![1] = o] \in Seq(Op) /\ Len([line EXCEPT ![1] = o]) = Len(line)
          /\ \A i \in 1..Len(line) :
               [line EXCEPT ![1] = o][i] = IF i = 1 THEN o ELSE line[i]
      BY <1>1, <2>1, ExceptSeq
    <2> QED BY <1>1, <1>2, <2>2
  <1>4. \A i \in 1..Len(line) :
          /\ line'[i].op = line[i].op
          /\ line[i].op = "save" => line'[i].by = line[i].by
          /\ line'[i].written => i = 1
    BY <1>2, <1>3 DEF LineOK
  <1>5. LineOK'
    BY <1>3, <1>4 DEF LineOK
  <1> QED BY <1>1, <1>2, <1>3, <1>5 DEF AtWork

\* What becomes of a flow whose save is over.
Ended(f, w) ==
  \/ /\ w.at = "saved" /\ w.new = flow[f].new
     /\ w.seen = flow[f].seen /\ w.epoch = flow[f].epoch
  \/ w.at \in {"idle", "reload"} /\ w.new = Empty /\ w.epoch = "none"

LEMMA DoneIs ==
  ASSUME Types, NEW f \in Flow, flow[f].at = "save", FlowOK(f)
  PROVE  \E w \in FlowState : Done(f) = [flow EXCEPT ![f] = w] /\ Ended(f, w)
  <1>1. flow[f] \in FlowState
    BY DEF Types
  <1>2. CASE flow[f].after = "look"
    <2>1. [flow[f] EXCEPT !.at = "saved"] \in FlowState
      BY <1>1 DEF FlowState
    <2>2. PICK w \in FlowState : w = [flow[f] EXCEPT !.at = "saved"]
      BY <2>1
    <2>3. /\ w.at = "saved" /\ w.new = flow[f].new
          /\ w.seen = flow[f].seen /\ w.epoch = flow[f].epoch
      BY <1>1, <2>2 DEF FlowState
    <2>4. Done(f) = [flow EXCEPT ![f] = w]
      BY <1>2, <2>2 DEF Done
    <2> QED BY <2>3, <2>4 DEF Ended
  <1>3. CASE flow[f].after # "look" /\ f \in Pairer
    <2>1. [Idle EXCEPT !.at = "reload"] \in FlowState
      BY IdleFlow DEF FlowState
    <2>2. /\ [Idle EXCEPT !.at = "reload"].at = "reload"
          /\ [Idle EXCEPT !.at = "reload"].new = Empty
          /\ [Idle EXCEPT !.at = "reload"].epoch = "none"
      BY DEF Idle
    <2> QED BY <1>3, <2>1, <2>2 DEF Done, Ended
  <1>4. CASE flow[f].after # "look" /\ f \notin Pairer
    <2>1. Idle.at = "idle" /\ Idle.new = Empty /\ Idle.epoch = "none"
      BY DEF Idle
    <2> QED BY <1>4, <2>1, IdleFlow DEF Done, Ended
  <1> QED BY <1>2, <1>3, <1>4

LEMMA EndedIsOK ==
  ASSUME Types, NEW f \in Flow, FlowOK(f), flow[f].at = "save", NEW w, Ended(f, w),
         flow'[f].at = w.at, flow'[f].new = w.new, issued' = issued
  PROVE  FlowOK(f)'
  <1>1. Len(issued) \in Nat /\ Empty.token = 0 /\ Empty.id = None
    BY DEF Types, Empty
  <1> QED BY <1>1 DEF FlowOK, Owned, Ended

\* The head ends, having found nothing to write.
LEMMA SaveEnds ==
  ASSUME Sound, line # <<>>, line[1].op = "save", ~AtWork, Drop,
         NEW f \in Flow, f = line[1].by, NEW w \in FlowState,
         flow' = [flow EXCEPT ![f] = w], Ended(f, w),
         lost' \in BOOLEAN, lost' => lost, UNCHANGED <<servers, request>>, Same
  PROVE  Sound'
  <1>1. Moved(f, w)
    BY FlowMoves DEF Sound
  <1>2. line' \in Seq(Op) /\ LineOK' /\ ~AtWork'
    BY <1>1, LineDrops DEF Sound, Moved, Drop
  <1>3. flow[f].at = "save" /\ FlowOK(f)
    BY HeadOfLine DEF Sound, LineOK
  <1>4. Types'
    BY <1>1, <1>2, EventType DEF Sound, Types, servers, Moved, Token, Drop
  <1>5. FlowOK(f)'
    BY <1>1, <1>3, EndedIsOK DEF Sound, Moved, servers
  <1>6. \A g \in Flow : FlowOK(g)'
    BY <1>1, <1>5, FlowStays DEF Sound, Moved, servers, Drop
  <1>7. SeenIsStored'
    BY <1>1 DEF Sound, SeenIsStored, Moved, Drop, Ended
  <1>8. WriteOK' /\ RequestOK' /\ StoreOK'
    BY <1>2 DEF Sound, WriteOK, RequestOK, StoreOK, Home, Owned, servers, Drop
  <1> QED BY <1>2, <1>4, <1>6, <1>7, <1>8 DEF Sound

\* The head writes what a flow saves: the flow has seen the stored credential, or the
\* step owns up that it has not.
LEMMA SaveWrites ==
  ASSUME Sound, line # <<>>, line[1].op = "save", ~AtWork,
         NEW f \in Flow, f = line[1].by, NEW next \in Conn,
         next = Kept(store, flow[f].new), ~Stale(f), Written(next),
         blind' = (blind \/ (flow[f].epoch = "none" /\ store.token # flow[f].seen)),
         UNCHANGED <<servers, request>>, Same
  PROVE  /\ Sound'
         /\ blind' \/ flow[f].seen = store.token
  <1>1. /\ flow[f].at = "save" /\ FlowOK(f) /\ flow[f].new \in Conn /\ store \in Conn
        /\ flow[f].epoch \in {"now", "none"}
        /\ lost' = lost /\ flow' = flow /\ store' = next
    BY HeadOfLine DEF Sound, LineOK, Types, FlowState, Stale, Epoch, Written
  <1>2. blind' \/ flow[f].seen = store.token
    BY <1>1 DEF Sound, SeenIsStored
  <1>3. /\ next.url = flow[f].new.url /\ next.token \in {0, flow[f].new.token}
        /\ next.token # 0 /\ store.token = flow[f].new.token =>
             store.url \in {None, next.url}
        /\ next.id # None => \/ next.id = flow[f].new.id /\ next.token = flow[f].new.token
                             \/ /\ next.id = store.id /\ next.url = store.url
                                /\ next.token = store.token
    BY <1>1, KeptIs, SMTT(30)
  <1>4. /\ line' \in Seq(Op) /\ LineOK' /\ AtWork'
        /\ line'[1].op = "save" /\ line'[1].by = f
    BY <1>1, LineWrites DEF Sound, Written
  <1>5. /\ blind' \in BOOLEAN /\ (blind => blind')
        /\ Len(issued) \in Nat /\ issued' = issued
    BY DEF Sound, Types, servers
  <1>6. Types'
    <2>1. next.token <= Len(issued) /\ next.url # None
      BY <1>1, <1>3, <1>5, SMTT(30) DEF FlowOK
    <2> QED BY <1>1, <1>4, <1>5, <2>1, EventType DEF Sound, Types, servers, Token
  <1>7. \A g \in Flow : FlowOK(g)'
    BY <1>1, <1>5, FlowStays DEF Sound
  <1>8. SeenIsStored'
    BY <1>4 DEF SeenIsStored
  <1>9. f \notin Pairer => blind' \/ next.token = 0 \/
                           (store.token = next.token /\ store.url = next.url)
    <2>1. ASSUME f \notin Pairer, ~blind', next.token # 0
          PROVE  store.token = next.token /\ store.url = next.url
      <3>1. store.token = flow[f].new.token /\ store.token = next.token
        BY <1>1, <1>2, <1>3, <2>1 DEF FlowOK
      <3> QED BY <1>3, <2>1, <3>1 DEF Sound, Types
    <2> QED BY <2>1
  <1>10. blind' \/ Home(next)
    <2>1. CASE f \in Pairer
      BY <1>1, <1>3, <2>1 DEF FlowOK, Home
    <2>2. CASE f \notin Pairer
      BY <1>5, <1>9, <2>2 DEF Home, Sound, StoreOK
    <2> QED BY <2>1, <2>2
  <1>11. Owned(next)
    <2>1. CASE next.id = flow[f].new.id /\ next.token = flow[f].new.token
      BY <1>1, <1>3, <2>1 DEF FlowOK, Owned
    <2>2. CASE next.id = store.id /\ next.url = store.url /\ next.token = store.token
      BY <2>2 DEF Sound, StoreOK, Owned
    <2> QED BY <1>3, <2>1, <2>2 DEF Owned
  <1>12. StoreOK'
    BY <1>1, <1>4, <1>5, <1>10, <1>11 DEF StoreOK, Home, Owned
  <1>13. WriteOK'
    <2>1. ASSUME flow[f].after # "tell", lost, ~blind'
          PROVE  next.token = 0
      <3>1. f \notin Pairer /\ store.token = 0
        BY <1>1, <1>5, <2>1 DEF FlowOK, Sound, StoreOK
      <3> QED BY <1>9, <2>1, <3>1
    <2> QED BY <1>1, <1>4, <2>1 DEF WriteOK
  <1>14. RequestOK'
    BY <1>5 DEF Sound, RequestOK, Home
  <1> QED BY <1>2, <1>4, <1>6, <1>7, <1>8, <1>12, <1>13, <1>14 DEF Sound

LEMMA WriteSaveKeeps ==
  ASSUME Sound, WriteSave
  PROVE  /\ Sound'
         /\ store' # store => blind' \/ flow[Head(line).by].seen = store.token
  <1>1. /\ line # <<>> /\ Head(line) = line[1] /\ line[1].op = "save" /\ ~AtWork
        /\ UNCHANGED <<servers, request>> /\ Same
    BY HeadOfLine DEF Sound, WriteSave, AtWork
  <1>2. PICK f \in Flow : f = line[1].by
    BY <1>1, HeadOfLine DEF Sound, Op
  <1>3. flow[f].at = "save" /\ FlowOK(f) /\ flow[f].new \in Conn /\ store \in Conn
    BY <1>1, <1>2, HeadOfLine DEF Sound, LineOK, Types, FlowState
  <1>4. PICK next \in Conn : next = Kept(store, flow[f].new)
    BY <1>3, KeptIs
  <1>5. CASE Drop /\ flow' = [flow EXCEPT ![f] = Idle] /\ UNCHANGED lost
    <2>1. Ended(f, Idle)
      BY DEF Ended, Idle
    <2> QED BY <1>1, <1>2, <1>5, <2>1, IdleFlow, SaveEnds DEF Drop, Sound, Types
  <1>6. CASE Drop /\ flow' = Done(f) /\ lost' = Told(f)
    <2>1. lost' \in BOOLEAN /\ (lost' => lost)
      BY <1>6 DEF Told, Sound, Types
    <2>2. PICK w \in FlowState : Done(f) = [flow EXCEPT ![f] = w] /\ Ended(f, w)
      BY <1>3, DoneIs DEF Sound
    <2> QED BY <1>1, <1>2, <1>6, <2>1, <2>2, SaveEnds DEF Drop
  <1>7. CASE /\ ~Stale(f) /\ Written(next)
             /\ blind' = (blind \/ (flow[f].epoch = "none" /\ store.token # flow[f].seen))
    BY <1>1, <1>2, <1>4, <1>7, SaveWrites
  <1> QED BY <1>1, <1>2, <1>4, <1>5, <1>6, <1>7 DEF WriteSave

LEMMA WriteClearKeeps ==
  ASSUME Sound, WriteClear
  PROVE  Sound'
  <1>1. /\ line # <<>> /\ Head(line) = line[1] /\ line[1] \in Op /\ line[1].op # "save"
        /\ ~AtWork /\ UNCHANGED <<servers, request, flow, lost>> /\ Same
        /\ Len(issued) \in Nat
    BY HeadOfLine DEF Sound, WriteClear, AtWork, Written, Types
  <1>2. \A g \in Flow : blind' = blind => FlowOK(g)'
    BY <1>1, FlowStays DEF Sound, servers
  <1>3. CASE Drop
    <2>1. line' \in Seq(Op) /\ LineOK' /\ ~AtWork'
      BY <1>1, <1>3, LineDrops DEF Sound, Drop
    <2>2. Types'
      BY <1>1, <1>3, <2>1, EventType DEF Sound, Types, servers, Token, Drop
    <2>3. SeenIsStored' /\ WriteOK' /\ RequestOK' /\ StoreOK'
      BY <1>1, <1>3, <2>1 DEF Sound, SeenIsStored, WriteOK, RequestOK, StoreOK, Home,
         Owned, servers, Drop
    <2> QED BY <1>2, <1>3, <2>1, <2>2, <2>3 DEF Sound, Drop
  <1>4. CASE Written(Leaves(line[1])) /\ UNCHANGED blind
    <2>1. /\ line' \in Seq(Op) /\ LineOK' /\ AtWork' /\ line'[1].op # "save"
      BY <1>1, <1>4, LineWrites DEF Sound, Written
    <2>2. /\ store' \in Conn /\ store'.token = 0
          /\ store'.id # None => store'.id = store.id /\ store'.url = store.url
      <3>1. CASE line[1].op = "reset"
        <4>1. store' = Empty
          BY <1>4, <3>1 DEF Written, Leaves
        <4> QED BY <4>1, IdleFlow DEF Empty
      <3>2. CASE line[1].op # "reset"
        <4>1. store' = [store EXCEPT !.token = 0] /\ store \in Conn
          BY <1>4, <3>2 DEF Written, Leaves, Sound, Types
        <4> QED BY <4>1, ConnectionAssumption DEF Conn
      <3> QED BY <3>1, <3>2
    <2>3. Types'
      BY <1>1, <1>4, <2>1, <2>2, EventType DEF Sound, Types, servers, Token
    <2>4. SeenIsStored' /\ WriteOK'
      BY <2>1, <2>2 DEF SeenIsStored, WriteOK
    <2>5. RequestOK'
      BY <1>1, <1>4 DEF Sound, RequestOK, Home, servers
    <2>6. StoreOK'
      BY <1>1, <2>2 DEF Sound, StoreOK, Home, Owned, servers
    <2> QED BY <1>2, <1>4, <2>1, <2>3, <2>4, <2>5, <2>6 DEF Sound
  <1> QED BY <1>1, <1>3, <1>4 DEF WriteClear

\* Every flow has been overtaken; otherwise it is where it was.
LEMMA OvertakenIs ==
  ASSUME NEW flows \in [Flow -> FlowState]
  PROVE  /\ Overtaken(flows) \in [Flow -> FlowState]
         /\ \A g \in Flow : LET w == Overtaken(flows)[g] IN
              /\ w.at = flows[g].at /\ w.new = flows[g].new
              /\ w.after = flows[g].after /\ w.seen = flows[g].seen /\ w.epoch # "now"
  <1>1. ASSUME NEW g \in Flow
        PROVE  LET w == Overtaken(flows)[g] IN
               /\ w \in FlowState
               /\ w.at = flows[g].at /\ w.new = flows[g].new
               /\ w.after = flows[g].after /\ w.seen = flows[g].seen
               /\ w.epoch # "now"
    <2>1. flows[g] \in FlowState
      OBVIOUS
    <2>2. PICK epoch \in Epoch \ {"now"} :
            epoch = IF flows[g].epoch = "now" THEN "past" ELSE flows[g].epoch
      BY <2>1 DEF FlowState, Epoch
    <2>3. [flows[g] EXCEPT !.epoch = epoch] \in FlowState
      BY <2>1, <2>2 DEF FlowState
    <2>4. Overtaken(flows)[g] = [flows[g] EXCEPT !.epoch = epoch]
      BY <2>2 DEF Overtaken
    <2> QED BY <2>1, <2>2, <2>3, <2>4 DEF FlowState
  <1>2. Overtaken(flows) = [g \in Flow |-> Overtaken(flows)[g]]
    BY DEF Overtaken
  <1> QED BY <1>1, <1>2

LEMMA PublishKeeps ==
  ASSUME Sound, Publish
  PROVE  Sound'
  <1>1. /\ line # <<>> /\ Head(line) = line[1] /\ line[1] \in Op /\ AtWork
        /\ line' = Tail(line) /\ request' = None
        /\ UNCHANGED <<servers, store, blind>> /\ Same
        /\ 1 \in 1..Len(line)
    BY HeadOfLine DEF Sound, Publish, AtWork
  <1>2. PICK flows \in [Flow -> FlowState] :
          /\ flow' = Overtaken(flows)
          /\ \A g \in Flow : \/ flows[g] = flow[g]
                             \/ /\ line[1].op = "save" /\ line[1].by = g
                                /\ Ended(g, flows[g])
    <2>1. CASE line[1].op # "save"
      BY <1>1, <2>1 DEF Publish, Sound, Types
    <2>2. CASE line[1].op = "save"
      <3>1. PICK f \in Flow : f = line[1].by
        BY <1>1, <2>2 DEF Op
      <3>2. flow[f].at = "save" /\ FlowOK(f) /\ Types
        BY <1>1, <2>2, <3>1 DEF Sound, LineOK
      <3>3. PICK w \in FlowState : Done(f) = [flow EXCEPT ![f] = w] /\ Ended(f, w)
        BY <3>2, DoneIs
      <3>4. Done(f) \in [Flow -> FlowState]
        BY <3>2, <3>3 DEF Types
      <3>5. \A g \in Flow : IF g = f THEN Done(f)[g] = w ELSE Done(f)[g] = flow[g]
        BY <3>2, <3>3 DEF Types
      <3>6. flow' = Overtaken(Done(f))
        BY <1>1, <2>2, <3>1 DEF Publish
      <3> QED BY <2>2, <3>1, <3>3, <3>4, <3>5, <3>6
    <2> QED BY <2>1, <2>2
  <1>3. /\ flow' \in [Flow -> FlowState]
        /\ \A g \in Flow : /\ flow'[g].at = flows[g].at /\ flow'[g].new = flows[g].new
                           /\ flow'[g].after = flows[g].after
                           /\ flow'[g].seen = flows[g].seen /\ flow'[g].epoch # "now"
    BY <1>2, OvertakenIs
  <1>4. line' \in Seq(Op) /\ LineOK' /\ ~AtWork'
    <2>1. \A g \in Flow : \/ flow[g].at = "save" => flow'[g].at = "save"
                          \/ line[1].op = "save" /\ line[1].by = g
      BY <1>2, <1>3
    <2> QED BY <1>1, <2>1, LineDrops DEF Sound
  <1>5. /\ lost' \in BOOLEAN
        /\ lost' => blind \/ store.token = 0
    <2>1. CASE line[1].op = "save"
      <3>1. lost' = Told(line[1].by)
        BY <1>1, <2>1 DEF Publish
      <3> QED BY <1>1, <2>1, <3>1 DEF Told, Sound, Types, WriteOK
    <2>2. CASE line[1].op # "save"
      <3>1. lost' = (lost \/ line[1].op = "clear") /\ store.token = 0
        BY <1>1, <2>2 DEF Publish, Sound, WriteOK
      <3> QED BY <3>1
    <2> QED BY <2>1, <2>2
  <1>6. Types'
    BY <1>1, <1>3, <1>4, <1>5, EventType DEF Sound, Types, servers, Token
  <1>7. ASSUME NEW g \in Flow
        PROVE  FlowOK(g)'
    <2>1. FlowOK(g) /\ issued' = issued /\ blind' = blind
      BY <1>1 DEF Sound, servers
    <2>2. CASE flows[g] = flow[g]
      <3>1. /\ flow'[g].at = flow[g].at /\ flow'[g].new = flow[g].new
            /\ flow'[g].after = flow[g].after /\ flow'[g].seen = flow[g].seen
        BY <1>3, <2>2
      <3> QED BY <2>1, <3>1 DEF FlowOK, Owned, Home
    <2>3. CASE line[1].op = "save" /\ line[1].by = g /\ Ended(g, flows[g])
      <3>1. flow[g].at = "save" /\ Types
        BY <1>1, <2>3 DEF Sound, LineOK
      <3> QED BY <1>3, <2>1, <2>3, <3>1, EndedIsOK
    <2> QED BY <1>2, <2>2, <2>3
  <1>8. SeenIsStored' /\ WriteOK' /\ RequestOK'
    BY <1>1, <1>3, <1>4 DEF SeenIsStored, WriteOK, RequestOK
  <1>9. StoreOK'
    BY <1>1, <1>5 DEF Sound, StoreOK, Home, Owned, servers
  <1> QED BY <1>4, <1>6, <1>7, <1>8, <1>9 DEF Sound

LEMMA PublishFailsKeeps ==
  ASSUME Sound, PublishFails
  PROVE  Sound'
  <1>1. /\ line # <<>> /\ line' = Tail(line) /\ blind' = TRUE /\ Event
        /\ UNCHANGED <<servers, store, lost, flow, request>>
    BY DEF PublishFails
  <1>2. line' \in Seq(Op) /\ LineOK' /\ ~AtWork'
    BY <1>1, LineDrops DEF Sound
  <1>3. Types'
    BY <1>1, <1>2, EventType DEF Sound, Types, servers, Token
  <1>4. \A g \in Flow : FlowOK(g)'
    BY <1>1, FlowStays DEF Sound, servers
  <1>5. SeenIsStored' /\ WriteOK' /\ RequestOK' /\ StoreOK'
    BY <1>1, <1>2 DEF Sound, SeenIsStored, WriteOK, RequestOK, StoreOK, Owned, servers
  <1> QED BY <1>2, <1>3, <1>4, <1>5 DEF Sound

-----------------------------------------------------------------------------
LEMMA SoundInit == Init => Sound
  <1> SUFFICES ASSUME Init PROVE Sound
    OBVIOUS
  <1>1. /\ issued = <<>> /\ active = {} /\ store = Empty /\ line = <<>>
        /\ lost = FALSE /\ request = None /\ blind = FALSE /\ left = MaxEvent
        /\ flow \in [Flow -> FlowState] /\ \A f \in Flow : flow[f] = Idle
    BY IdleFlow DEF Init
  <1>2. /\ issued \in Seq(Library) /\ Len(issued) = 0 /\ line \in Seq(Op) /\ Len(line) = 0
    BY <1>1
  <1>3. Empty.token = 0 /\ Empty.id = None /\ Idle.new = Empty /\ Idle.epoch = "none"
        /\ Idle.at = "idle"
    BY DEF Empty, Idle
  <1>4. Types
    <2>1. store \in Conn /\ store.token <= Len(issued) /\ store.token = 0
      BY <1>1, <1>2, <1>3, IdleFlow
    <2>2. left \in 0..MaxEvent /\ Len(issued) <= MaxToken
      BY <1>1, <1>2, ConnectionAssumption
    <2> QED BY <1>1, <1>2, <2>1, <2>2 DEF Types
  <1>5. LineOK /\ SeenIsStored /\ WriteOK /\ RequestOK /\ StoreOK
    BY <1>1, <1>2, <1>3
       DEF LineOK, SeenIsStored, AtWork, WriteOK, RequestOK, StoreOK, Owned, Home
  <1>6. \A f \in Flow : FlowOK(f)
    BY <1>1, <1>2, <1>3 DEF FlowOK, Owned
  <1> QED BY <1>4, <1>5, <1>6 DEF Sound

LEMMA SoundNext ==
  ASSUME Sound, [Next]_vars
  PROVE  Sound'
  <1>1. CASE Chain
    BY <1>1, WriteSaveKeeps, WriteClearKeeps, PublishKeeps, PublishFailsKeeps DEF Chain
  <1>2. CASE Connect
    BY <1>2, StartsKeep, ClaimedKeeps, IdentityKeeps, GiveUpsKeep, CommitLoadKeeps,
       ProbedKeeps, OnboardKeeps DEF Connect
  <1>3. CASE Request \/ Unauthorized \/ Answered \/ Restart
             \/ (\E t \in Token : Revoke(t))
             \/ \E op \in {"disconnect", "reset"} : LetGo(op)
    BY <1>3, ClearingQueued, RequestsKeep, RestartKeeps
  <1> QED BY <1>1, <1>2, <1>3, StutterKeeps DEF Next

LEMMA SoundHolds == Spec => []Sound
  BY SoundInit, SoundNext, PTL DEF Spec

-----------------------------------------------------------------------------
(* What follows.                                                           *)

\* The connection, its chain and its flows stay within their types.
THEOREM ConnectionTypeCorrect == Spec => []ConnectionTypeOK
  <1>1. Sound => ConnectionTypeOK
    <2> SUFFICES ASSUME Sound PROVE ConnectionTypeOK
      OBVIOUS
    <2>1. \A i \in DOMAIN line :
            /\ line[i].op \in {"save", "clear", "disconnect", "reset"}
            /\ line[i].op = "save" => flow[line[i].by].at = "save"
            /\ line[i].written => i = 1
      <3>1. \A i \in DOMAIN line : line[i] \in Op /\ i \in 1..Len(line)
        BY DEF Sound, Types
      <3>2. \A o \in Op : o.op \in {"save", "clear", "disconnect", "reset"}
        BY DEF Op
      <3> QED BY <3>1, <3>2 DEF Sound, LineOK
    <2> QED BY <2>1 DEF Sound, Types, FlowState, ConnectionTypeOK
  <1> QED BY <1>1, SoundHolds, PTL

\* A credential stays with the server that issued it, the identity is that of its
\* library, and the app says that it was disconnected only when it was, however
\* pairings, address changes, rejections and passes fall together.
THEOREM ConnectionsAreSound == Spec => []ConnectionIsSound
  <1>1. Sound => ConnectionIsSound
    <2> SUFFICES ASSUME Sound PROVE ConnectionIsSound
      OBVIOUS
    <2>1. CredentialStaysHome
      BY DEF Sound, StoreOK, RequestOK, FlowOK, CredentialStaysHome
    <2>2. IdentityIsOwners
      BY DEF Sound, StoreOK, Owned, IdentityIsOwners
    <2>3. LostIsTrue
      <3>1. AtWork => line # <<>> /\ Head(line) = line[1]
        BY DEF AtWork, Sound, Types
      <3> QED BY <3>1 DEF Sound, StoreOK, AtWork, LostIsTrue
    <2> QED BY <2>1, <2>2, <2>3 DEF ConnectionIsSound
  <1> QED BY <1>1, SoundHolds, PTL

\* A stored credential goes only by what knew of it: no late 401, older pairing or
\* older address change takes it away.
THEOREM CredentialsOutliveOlder == Spec => CredentialOutlivesOlder
  <1>1. ASSUME Sound, Next, store.token \notin {0, store'.token}
        PROVE  LET op == Head(line) IN
               \/ blind' \/ op.op \in {"disconnect", "reset"}
               \/ op.op = "clear" /\ op.failed.token = store.token
               \/ op.op = "save" /\ flow[op.by].seen = store.token
    <2>1. store' # store
      BY <1>1
    <2>2. WriteSave \/ WriteClear
      BY <1>1, <2>1 DEF Next, Chain, Publish, PublishFails, Connect, NotClaimed, Reloaded,
         Pair, Claimed, Identity, NoIdentity, Commit, Onboard, CommitLoad, CommitEnds,
         Resolve, Probed, Request, Unauthorized, Answered, Restart, Revoke, LetGo
    <2>3. CASE WriteSave
      <3>1. Head(line).op = "save"
        BY <2>3 DEF WriteSave
      <3> QED BY <1>1, <2>1, <2>3, <3>1, WriteSaveKeeps
    <2>4. CASE WriteClear
      <3>1. Head(line) \in Op /\ Head(line).op # "save"
        BY <1>1, <2>4, HeadOfLine DEF WriteClear, Sound
      <3>2. Head(line).op = "clear" => Rejected(Head(line))
        BY <2>1, <2>4 DEF WriteClear, Drop
      <3> QED BY <3>1, <3>2 DEF Op, Rejected
    <2> QED BY <2>2, <2>3, <2>4
  <1>2. Sound /\ [Next]_vars =>
          [store.token \notin {0, store'.token} =>
             LET op == Head(line) IN
             \/ blind' \/ op.op \in {"disconnect", "reset"}
             \/ op.op = "clear" /\ op.failed.token = store.token
             \/ op.op = "save" /\ flow[op.by].seen = store.token]_vars
    BY <1>1
  <1> QED BY <1>2, SoundHolds, PTL DEF Spec, CredentialOutlivesOlder
=============================================================================
