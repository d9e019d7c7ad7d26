----------------------------- MODULE Connection -----------------------------
(***************************************************************************)
(* The phone's connection to a server: the credential in the secure store, *)
(* the serial chain of operations that write it, the epoch that tells who  *)
(* has been overtaken, and the flows that connect - pairing, changing the  *)
(* address, the first-run server step, and the backup engine that resolves *)
(* the identity of the library (mobile/src/lib/settings.ts, session.ts,    *)
(* connection-settings.ts).                                                *)
(*                                                                         *)
(* The servers are external: what they issue and what they answer.         *)
(***************************************************************************)
EXTENDS Integers, FiniteSets, Sequences

CONSTANTS
  Address,     \* the origins of servers
  Library,     \* the libraries on them, one for each account
  AddressOf,   \* where each library is
  Pairer,      \* pairings that may be under way at once
  None,
  MaxToken,    \* how many tokens the servers ever issue
  MaxEvent,    \* what users, networks and faults do, all together
  MaxLine      \* reports of a rejected token are queued while the chain is shorter

ASSUME ConnectionAssumption ==
  /\ Pairer \cap {"commit", "onboard", "engine"} = {}
  /\ None \notin Address \cup Library
  /\ AddressOf \in [Library -> Address]
  /\ {MaxToken, MaxEvent, MaxLine} \subseteq Nat

VARIABLES
  issued,   \* the libraries of the tokens issued so far
  active,   \* the tokens that are not revoked
  store,    \* the connection in the secure store
  line,     \* the serial chain: the operations that wait, the first one at work
  lost,     \* "the server rejected our device token"
  flow,     \* how far each connecting flow is
  request,  \* a device request under way, with the connection it was made for
  blind,    \* the epoch did not tell of a write: one that gave no epoch wrote over a
            \* connection it had not seen, or one failed before it was published
  left      \* how many events may still happen

servers == <<issued, active>>
vars == <<issued, active, store, line, lost, flow, request, blind, left>>

Flow == Pairer \cup {"commit", "onboard", "engine"}
Token == DOMAIN issued
Conn == [url: Address \cup {None}, token: 0..MaxToken, id: Library \cup {None}]
Empty == [url |-> None, token |-> 0, id |-> None]

\* The connection epoch, as a flow that remembers it sees it: no connection has been
\* published since ("now"), or one has ("past"); "none" is expectedEpoch undefined.
Epoch == {"none", "now", "past"}

\* What a flow does once its connection is saved: clear the lost flag, look at the
\* stored credential first, or neither.
After == {"tell", "look", "nothing"}
Idle == [at |-> "idle", new |-> Empty, epoch |-> "none", seen |-> 0, after |-> "nothing"]

ConnectionTypeOK ==
  /\ issued \in Seq(Library) /\ Len(issued) <= MaxToken /\ active \subseteq Token
  /\ store \in Conn /\ store.token <= Len(issued) /\ (store.token # 0 => store.url # None)
  /\ lost \in BOOLEAN /\ blind \in BOOLEAN
  /\ flow \in [Flow -> [at: {"idle", "claim", "load", "probe", "identity", "save",
                             "saved", "reload"},
                        new: Conn, epoch: Epoch, seen: 0..MaxToken,
                        after: After]]
  /\ \A i \in DOMAIN line :
       /\ line[i].op \in {"save", "clear", "disconnect", "reset"}
       /\ line[i].op = "save" => flow[line[i].by].at = "save"
       /\ line[i].written => i = 1
  /\ request \in Conn \cup {None}
  /\ left \in 0..MaxEvent

Init ==
  /\ issued = <<>> /\ active = {} /\ store = Empty /\ line = <<>>
  /\ lost = FALSE /\ flow = [f \in Flow |-> Idle] /\ request = None
  /\ blind = FALSE /\ left = MaxEvent

Event == left > 0 /\ left' = left - 1
Same == UNCHANGED left

\* The server at a connection's address takes its token.
Accepted(c) == c.token \in active /\ AddressOf[issued[c.token]] = c.url

Revoke(t) ==
  /\ t \in active /\ Event
  /\ active' = active \ {t}
  /\ UNCHANGED <<issued, store, line, lost, flow, request, blind>>

-----------------------------------------------------------------------------
(* The serial chain.                                                       *)

Save(f) == [op |-> "save", by |-> f, written |-> FALSE]
Clear(c) == [op |-> "clear", failed |-> c, written |-> FALSE]

\* An address that was edited does not take the credential along; an identity is kept
\* only with the credential it was resolved for.
KeptAnywhere(previous, next) ==    \* (a mutant: a new address keeps the credential)
  IF next.id = None /\ previous.url = next.url /\ previous.token = next.token
  THEN [next EXCEPT !.id = previous.id] ELSE next
Kept(previous, next) ==
  LET moved == /\ previous.url \notin {None, next.url}
               /\ previous.token # 0 /\ previous.token = next.token
      sent == IF moved THEN [next EXCEPT !.token = 0, !.id = None] ELSE next
  IN IF sent.id = None /\ previous.url = sent.url /\ previous.token = sent.token
     THEN [sent EXCEPT !.id = previous.id] ELSE sent

\* A save was told to expect the epoch it started in.
Stale(f) == flow[f].epoch = "past"

\* A rejected credential is worth clearing while it is the stored one.
RejectedAny(op) == store.token # 0    \* (a mutant: whatever is stored is cleared)
RejectedVerified(op) ==               \* (a mutant: only a verified connection is)
  op.failed = store /\ store.id # None
Rejected(op) == op.failed = store

\* What a clearing operation leaves: a reset, nothing.
LeavesToken(op) == [store EXCEPT !.url = IF op.op = "reset" THEN None ELSE @,
                                 !.token = IF op.op = "reset" THEN @ ELSE 0]    \* (a mutant)
Leaves(op) == IF op.op = "reset" THEN Empty ELSE [store EXCEPT !.token = 0]

Done(f) ==
  [flow EXCEPT ![f] = IF flow[f].after = "look" THEN [flow[f] EXCEPT !.at = "saved"]
                      ELSE IF f \in Pairer THEN [Idle EXCEPT !.at = "reload"] ELSE Idle]
Told(f) == IF flow[f].after = "tell" THEN FALSE ELSE lost

\* The operation at the head is over, with nothing to publish.
Drop == line' = Tail(line) /\ UNCHANGED <<store, blind>>

\* The operation at the head reads the connection and writes its own.
Written(c) ==
  /\ store' = c
  /\ line' = [line EXCEPT ![1].written = TRUE]
  /\ UNCHANGED <<flow, lost>>

WriteSave ==
  /\ line # <<>> /\ ~Head(line).written /\ Head(line).op = "save"
  /\ LET f == Head(line).by
         next == Kept(store, flow[f].new) IN
     \/ Stale(f) /\ Drop /\ flow' = [flow EXCEPT ![f] = Idle] /\ UNCHANGED lost
     \/ ~Stale(f) /\ next = store /\ Drop /\ flow' = Done(f) /\ lost' = Told(f)
     \/ /\ ~Stale(f) /\ next # store /\ Written(next)
        /\ blind' = (blind \/ (flow[f].epoch = "none" /\ store.token # flow[f].seen))
  /\ UNCHANGED <<servers, request>> /\ Same

WriteClear ==
  /\ line # <<>> /\ ~Head(line).written /\ Head(line).op # "save"
  /\ \/ Head(line).op = "clear" /\ ~Rejected(Head(line)) /\ Drop /\ UNCHANGED <<flow, lost>>
     \/ /\ Head(line).op = "clear" => Rejected(Head(line))
        /\ Written(Leaves(Head(line)))
        /\ UNCHANGED blind
  /\ UNCHANGED <<servers, request>> /\ Same

\* publishConnection: the epoch goes on, for every flow that remembers one.
Overtaken(flows) ==
  [f \in Flow |-> [flows[f] EXCEPT !.epoch = IF @ = "now" THEN "past" ELSE @]]

\* What is written is published: requests made for another connection are aborted.  The
\* flow that saved it goes on in the same turn.
Publish ==
  /\ line # <<>> /\ Head(line).written
  /\ line' = Tail(line) /\ request' = None
  /\ IF Head(line).op = "save"
     THEN flow' = Overtaken(Done(Head(line).by)) /\ lost' = Told(Head(line).by)
     ELSE flow' = Overtaken(flow) /\ lost' = (lost \/ Head(line).op = "clear")
  /\ UNCHANGED <<servers, store, blind>> /\ Same

\* The legacy credential cannot be deleted: the operation fails after its write, and
\* the chain goes on with the next one.
PublishFails ==
  /\ line # <<>> /\ Head(line).written /\ Head(line).op # "save" /\ Event
  /\ line' = Tail(line) /\ blind' = TRUE
  /\ UNCHANGED <<servers, store, lost, flow, request>>

-----------------------------------------------------------------------------
(* Flows that connect.                                                     *)

Start(f, at, url, token, after) ==
  flow' = [flow EXCEPT ![f] = [at |-> at, epoch |-> "now", seen |-> store.token,
                               new |-> [url |-> url, token |-> token, id |-> None],
                               after |-> after]]
Give(f) == flow' = [flow EXCEPT ![f] = Idle]
Queue(f, new) ==
  /\ line' = Append(line, Save(f))
  /\ flow' = [flow EXCEPT ![f].at = "save", ![f].new = new]

\* A code is redeemed at a server, by hand or scanned (pairings are alike: the next one
\* takes a fixed one of those that are free).
Pair(p, a) ==
  /\ flow[p].at = "idle" /\ p = (CHOOSE q \in Pairer : flow[q].at = "idle") /\ Event
  /\ Start(p, "claim", a, 0, "tell")
  /\ UNCHANGED <<servers, store, line, lost, request, blind>>

\* The server issues a token for the library whose code it was.
Claimed(p, l) ==
  /\ flow[p].at = "claim" /\ AddressOf[l] = flow[p].new.url /\ Len(issued) < MaxToken
  /\ issued' = Append(issued, l) /\ active' = active \cup {Len(issued) + 1}
  /\ flow' = [flow EXCEPT ![p].at = "identity", ![p].new.token = Len(issued) + 1]
  /\ UNCHANGED <<store, line, lost, request, blind>> /\ Same

\* The code is wrong, or the server cannot be reached.
NotClaimed(p) ==
  /\ flow[p].at = "claim"
  /\ Give(p)
  /\ UNCHANGED <<servers, store, line, lost, request, blind>> /\ Same

\* GET /api/capture/identity, which an older server does not have.
Identity(f) ==
  /\ flow[f].at = "identity" /\ Accepted(flow[f].new)
  /\ \E id \in {issued[flow[f].new.token], None} : Queue(f, [flow[f].new EXCEPT !.id = id])
  /\ UNCHANGED <<servers, store, lost, request, blind>> /\ Same

NoIdentity(f) ==
  /\ flow[f].at = "identity"
  /\ IF Accepted(flow[f].new) THEN Event ELSE Same
  /\ Give(f)
  /\ UNCHANGED <<servers, store, line, lost, request, blind>>

\* The settings screen reads the connection again after a pairing, and clears the flag
\* a second time.
Reloaded(p) ==
  /\ flow[p].at = "reload"
  /\ Give(p) /\ lost' = FALSE
  /\ UNCHANGED <<servers, store, line, request, blind>> /\ Same

\* The address is edited: the epoch, then the connection, then a probe.
Commit(a) ==
  /\ flow["commit"].at = "idle" /\ Event
  /\ Start("commit", "load", a, 0, "nothing")
  /\ UNCHANGED <<servers, store, line, lost, request, blind>>

CommitLoad ==
  /\ flow["commit"].at = "load"
  /\ LET url == flow["commit"].new.url IN
     flow' = [flow EXCEPT !["commit"] =
       [at |-> "probe", epoch |-> flow["commit"].epoch, seen |-> store.token,
        new |-> [url |-> url, token |-> store.token, id |-> None],
        after |-> IF store.url = url THEN "tell" ELSE "look"]]
  /\ UNCHANGED <<servers, store, line, lost, request, blind>> /\ Same

\* The server at the address answered, or did not.
Probed(resolved) ==
  /\ flow["commit"].at = "probe"
  /\ LET c == flow["commit"] IN
     \/ Stale("commit") /\ Give("commit") /\ UNCHANGED line
     \/ /\ ~Stale("commit") /\ resolved /\ c.new.token # 0 /\ c.after = "tell"
        /\ flow' = [flow EXCEPT !["commit"].at = "identity"] /\ UNCHANGED line
     \/ /\ ~Stale("commit") /\ ~(resolved /\ c.new.token # 0 /\ c.after = "tell")
        /\ line' = Append(line, Save("commit"))
        /\ flow' = [flow EXCEPT !["commit"].at = "save",
                                !["commit"].after = IF resolved THEN "look" ELSE "nothing"]
  /\ UNCHANGED <<servers, store, lost, request, blind>> /\ Same

CommitEnds ==
  /\ flow["commit"].at = "saved"
  /\ Give("commit") /\ lost' = (lost /\ store.token = 0)
  /\ UNCHANGED <<servers, store, line, request, blind>> /\ Same

\* The first-run server step: it loads the connection, and saves the address with the
\* token it has read, in no epoch.
Onboard(a) ==
  /\ flow["onboard"].at = "idle" /\ Event
  /\ line' = Append(line, Save("onboard"))
  /\ flow' = [flow EXCEPT !["onboard"] =
       [at |-> "save", epoch |-> "none", seen |-> store.token, after |-> "nothing",
        new |-> [url |-> a, token |-> store.token, id |-> None]]]
  /\ UNCHANGED <<servers, store, lost, request, blind>>

\* A pass of the backup engine whose connection has no identity yet resolves it.
Resolve ==
  /\ flow["engine"].at = "idle" /\ store.token # 0 /\ store.id = None
  /\ Start("engine", "identity", store.url, store.token, "nothing")
  /\ UNCHANGED <<servers, store, line, lost, request, blind>> /\ Same

-----------------------------------------------------------------------------
(* The user lets go of the connection, requests are rejected, the app dies. *)

\* Disconnect in the settings, or the reset the startup screen offers.
LetGo(op) ==
  /\ Event
  /\ line' = Append(line, [op |-> op, written |-> FALSE])
  /\ UNCHANGED <<servers, store, lost, flow, request, blind>>

Request ==
  /\ request = None /\ store.token # 0
  /\ request' = store
  /\ UNCHANGED <<servers, store, line, lost, flow, blind>> /\ Same

\* A 401 is reported while the connection it was for is the stored one.
Unauthorized ==
  /\ request # None /\ ~Accepted(request) /\ Len(line) < MaxLine
  /\ line' = IF request = store THEN Append(line, Clear(request)) ELSE line
  /\ request' = None
  /\ UNCHANGED <<servers, store, lost, flow, blind>> /\ Same

Answered ==
  /\ request # None /\ Accepted(request)
  /\ request' = None
  /\ UNCHANGED <<servers, store, line, lost, flow, blind>> /\ Same

Restart ==
  /\ Event
  /\ line' = <<>> /\ lost' = FALSE /\ request' = None
  /\ flow' = [f \in Flow |-> Idle]
  /\ UNCHANGED <<servers, store, blind>>

Chain == WriteSave \/ WriteClear \/ Publish \/ PublishFails
Connect ==
  \/ \E p \in Pairer : NotClaimed(p) \/ Reloaded(p)
                         \/ (\E a \in Address : Pair(p, a)) \/ \E l \in Library : Claimed(p, l)
  \/ \E f \in Flow : Identity(f) \/ NoIdentity(f)
  \/ (\E a \in Address : Commit(a) \/ Onboard(a))
  \/ CommitLoad \/ CommitEnds \/ Resolve
  \/ \E resolved \in BOOLEAN : Probed(resolved)
Next ==
  \/ Chain \/ Connect \/ Request \/ Unauthorized \/ Answered \/ Restart
  \/ \E t \in Token : Revoke(t)
  \/ \E op \in {"disconnect", "reset"} : LetGo(op)

\* The chain is worked off, and the app goes on making requests (its passes and its
\* background task), which are answered.
Fairness ==
  /\ WF_vars(WriteSave \/ WriteClear \/ Publish)
  /\ WF_vars(Request \/ Unauthorized \/ Answered)

Spec == Init /\ [][Next]_vars /\ Fairness

-----------------------------------------------------------------------------
(* Properties.                                                             *)

Home(c) == c.token # 0 => AddressOf[issued[c.token]] = c.url

\* A credential is stored with, and sent to, the origin that issued it and no other,
\* however pairings, address changes, rejections and passes fall together
\* (settings.ts:168: editing the address is no authorization to forward it).  The
\* first-run step, when it writes over what it had not read, is an exception, and a
\* write that failed half way.
CredentialStaysHome ==
  ~blind =>
    /\ Home(store) /\ (request # None => Home(request))
    /\ \A f \in Flow : flow[f].at = "identity" => Home(flow[f].new)

\* The identity under which receipts, mirror and queue are kept is that of the library
\* of the stored credential: never one of an earlier pairing, of another account on
\* the same server, or of the address before.
IdentityIsOwners ==
  store.id # None => /\ AddressOf[store.id] = store.url
                     /\ store.token # 0 => issued[store.token] = store.id

\* The app says that it was disconnected only while it holds no credential, but for
\* the turn in which a new one is written.
LostIsTrue ==
  lost => \/ store.token = 0 \/ blind
          \/ line # <<>> /\ Head(line).written /\ Head(line).op = "save"

\* All three: what the store holds is of one server and one library, and what the app
\* says of it is so.
ConnectionIsSound == CredentialStaysHome /\ IdentityIsOwners /\ LostIsTrue

\* A stored credential goes only by what knew of it: the user's disconnect or reset,
\* its own rejection, or a flow that began when it was stored.  A late 401, an older
\* pairing or an older address change never takes it away.
CredentialOutlivesOlder ==
  [][store.token \notin {0, store'.token} =>
       LET op == Head(line) IN
       \/ blind' \/ op.op \in {"disconnect", "reset"}
       \/ op.op = "clear" /\ op.failed.token = store.token
       \/ op.op = "save" /\ flow[op.by].seen = store.token]_vars

\* A token that was revoked is found out: as requests go on, it leaves the store, also
\* past operations of the chain that fail and requests made before the identity was
\* resolved.
RevocationIsNoticed ==
  store.token \notin active \cup {0} ~> store.token \in active \cup {0}
=============================================================================
