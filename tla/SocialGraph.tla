---------------------------- MODULE SocialGraph ----------------------------
(***************************************************************************)
(* Friend Requests, Friendships and Blocks of the backend, at the grain    *)
(* at which concurrent HTTP requests interleave: one action per database   *)
(* statement of a handler.  The tables are Postgres tables read and        *)
(* written at READ COMMITTED (no isolation level is ever passed to         *)
(* $transaction), so                                                       *)
(*   - a statement sees the rows committed when it runs, and the           *)
(*     uncommitted rows of its own transaction only;                       *)
(*   - a DELETE, and an INSERT on a unique key, wait for the open          *)
(*     transaction that deleted or inserted that row, and then see the     *)
(*     rows of that moment;                                                *)
(*   - a lookup by Username is left out: no code deletes a User.           *)
(* A handler runs in a slot of the server, so with a single slot the       *)
(* handlers run one at a time, as the repository's tests run them.  A      *)
(* handler that stops early without having changed anything has no step.   *)
(***************************************************************************)
EXTENDS Integers

CONSTANTS User,         \* Users, by the order of their ids
          Slot,         \* the handlers the server runs at a time
          MaxRequests   \* bound: no `send` starts once this many rows were made

ASSUME UserAssumption == User \subseteq Nat \ {0}
ASSUME MaxAssumption == MaxRequests \in Nat

VARIABLES
    friendRequest,  \* committed rows of each table
    friendship,
    block,
    pc,             \* the next statement of the handler in each slot
    job,            \* its caller, the other User and the accepted request's id
    tx,             \* what its open transaction did so far
    nextId,         \* the id of the next friend_requests row
    sent,           \* history: every request a `send` has created
    accepted        \* history: the requests whose `accept` has committed

tables == <<friendRequest, friendship, block>>
vars == <<friendRequest, friendship, block, pc, job, tx, nextId, sent, accepted>>

RequestRow == [id : Nat \ {0}, senderId : User, recipientId : User]
FriendshipRow == {p \in User \X User : p[1] < p[2]}
BlockRow == User \X User

\* An operator named ...Slip is the one that follows it with a mistake in it:
\* no specification uses it; it shows that a property notices the mistake.
orderedFriendPairSlip(idA, idB) == <<idA, idB>>

\* The one row an unordered pair of Users owns.
orderedFriendPair(idA, idB) == IF idA < idB THEN <<idA, idB>> ELSE <<idB, idA>>

Between(r, u, v) == {r.senderId, r.recipientId} = {u, v}
RequestsBetweenSlip(u, v) == {r \in friendRequest : r.senderId = u /\ r.recipientId = v}
RequestsBetween(u, v) == {r \in friendRequest : Between(r, u, v)}

Blocked(u, v) == <<u, v>> \in block \/ <<v, u>> \in block

NoJob == [me |-> 0, peer |-> 0, id |-> 0]

\* A transaction's deleted requests and Friendships, new Friendships and Blocks.
Writes(dropped, severed, joined, placed) ==
    [dropped |-> dropped, severed |-> severed, joined |-> joined, placed |-> placed]
NoTx == Writes({}, {}, {}, {})

Pair(h) == orderedFriendPair(job[h].me, job[h].peer)
Found(h) == [id |-> job[h].id, senderId |-> job[h].peer, recipientId |-> job[h].me]

NewRow(h) == [id |-> nextId, senderId |-> job[h].me, recipientId |-> job[h].peer]

SendPc == {"send:areFriends", "send:findBetween", "send:create"}
AcceptPc == {"accept:sweep", "accept:upsert", "accept:commit"}
BlockPc == {"block:own", "block:create", "block:sever", "block:sweep", "block:commit"}

Init ==
    /\ friendRequest = {} /\ friendship = {} /\ block = {}
    /\ pc = [h \in Slot |-> "idle"]
    /\ job = [h \in Slot |-> NoJob]
    /\ tx = [h \in Slot |-> NoTx]
    /\ nextId = 1
    /\ sent = {}
    /\ accepted = {}

\* Rows another handler's open transaction holds, until it ends.
Held(h, rows, field) == \E g \in Slot \ {h} : rows \cap tx[g][field] # {}

Start(h, where, u, v, id) ==
    /\ pc[h] = "idle"
    /\ pc' = [pc EXCEPT ![h] = where]
    /\ job' = [job EXCEPT ![h] = [me |-> u, peer |-> v, id |-> id]]

Goto(h, where) == pc' = [pc EXCEPT ![h] = where] /\ UNCHANGED job

FinishSlip(h) ==                \* its transaction is left open
    /\ pc' = [pc EXCEPT ![h] = "idle"]
    /\ job' = [job EXCEPT ![h] = NoJob]
    /\ UNCHANGED tx

\* The handler answers; its transaction, if any, is over.
Finish(h) ==
    /\ pc' = [pc EXCEPT ![h] = "idle"]
    /\ job' = [job EXCEPT ![h] = NoJob]
    /\ tx' = [tx EXCEPT ![h] = NoTx]

----------------------------------------------------------------------------
(* POST /friend-requests: three checks, then the insert.                   *)

SendCheckBlock(h, u, v) ==
    /\ nextId <= MaxRequests
    /\ u # v
    /\ ~Blocked(u, v)
    /\ Start(h, "send:areFriends", u, v, 0)
    /\ UNCHANGED <<tables, tx, nextId, sent, accepted>>

SendCheckFriends(h) ==
    /\ pc[h] = "send:areFriends"
    /\ IF Pair(h) \in friendship
       THEN Finish(h)
       ELSE Goto(h, "send:findBetween") /\ UNCHANGED tx
    /\ UNCHANGED <<tables, nextId, sent, accepted>>

SendCheckPending(h) ==
    /\ pc[h] = "send:findBetween"
    /\ IF RequestsBetween(job[h].me, job[h].peer) # {}
       THEN Finish(h)
       ELSE Goto(h, "send:create") /\ UNCHANGED tx
    /\ UNCHANGED <<tables, nextId, sent, accepted>>

\* The unique index on (senderId, recipientId) turns a duplicate into a 409.
SendCreate(h) ==
    LET twin == {r \in friendRequest :
                    r.senderId = job[h].me /\ r.recipientId = job[h].peer}
    IN
    /\ pc[h] = "send:create"
    /\ ~Held(h, twin, "dropped")
    /\ \/ /\ twin = {}
          /\ friendRequest' = friendRequest \cup {NewRow(h)}
          /\ sent' = sent \cup {NewRow(h)}
          /\ nextId' = nextId + 1
       \/ twin # {} /\ UNCHANGED <<friendRequest, nextId, sent>>
    /\ Finish(h)
    /\ UNCHANGED <<friendship, block, accepted>>

----------------------------------------------------------------------------
(* POST /friend-requests/:id/accept: one interactive transaction.          *)

AcceptFindSlip(h, u, r) ==      \* by anyone
    /\ r \in friendRequest
    /\ Start(h, "accept:sweep", u, r.senderId, r.id)
    /\ UNCHANGED <<tables, tx, nextId, sent, accepted>>

AcceptFind(h, u, r) ==
    /\ r \in friendRequest
    /\ r.recipientId = u
    /\ Start(h, "accept:sweep", u, r.senderId, r.id)
    /\ UNCHANGED <<tables, tx, nextId, sent, accepted>>

\* Deletes both directions of the pair; how many rows went is not looked at.
AcceptSweep(h) ==
    LET rows == RequestsBetween(job[h].me, job[h].peer) IN
    /\ pc[h] = "accept:sweep"
    /\ ~Held(h, rows, "dropped")
    /\ tx' = [tx EXCEPT ![h] = Writes(rows, {}, {}, {})]
    /\ Goto(h, "accept:upsert")
    /\ UNCHANGED <<tables, nextId, sent, accepted>>

AcceptUpsert(h) ==
    /\ pc[h] = "accept:upsert"
    /\ ~Held(h, {Pair(h)}, "joined")
    /\ ~Held(h, {Pair(h)}, "severed")
    /\ tx' = [tx EXCEPT ![h] = Writes(tx[h].dropped, {}, {Pair(h)} \ friendship, {})]
    /\ Goto(h, "accept:commit")
    /\ UNCHANGED <<tables, nextId, sent, accepted>>

\* The transaction's rows become visible to everyone at once.
ApplyTx(h) ==
    /\ friendRequest' = friendRequest \ tx[h].dropped
    /\ friendship' = (friendship \ tx[h].severed) \cup tx[h].joined
    /\ block' = block \cup tx[h].placed

AcceptCommit(h) ==
    /\ pc[h] = "accept:commit"
    /\ ApplyTx(h)
    /\ accepted' = accepted \cup {Found(h)}
    /\ Finish(h)
    /\ UNCHANGED <<nextId, sent>>

----------------------------------------------------------------------------
(* POST /blocks: two checks, then one transaction of three writes.         *)

BlockCheckReverse(h, u, v) ==
    /\ u # v
    /\ <<v, u>> \notin block
    /\ Start(h, "block:own", u, v, 0)
    /\ UNCHANGED <<tables, tx, nextId, sent, accepted>>

BlockCheckOwn(h) ==
    /\ pc[h] = "block:own"
    /\ IF <<job[h].me, job[h].peer>> \in block
       THEN Finish(h)
       ELSE Goto(h, "block:create") /\ UNCHANGED tx
    /\ UNCHANGED <<tables, nextId, sent, accepted>>

\* A duplicate the checks missed is an uncaught P2002: a 500, rolled back.
BlockCreate(h) ==
    LET row == <<job[h].me, job[h].peer>> IN
    /\ pc[h] = "block:create"
    /\ ~Held(h, {row}, "placed")
    /\ IF row \in block
       THEN Finish(h)
       ELSE /\ tx' = [tx EXCEPT ![h] = Writes({}, {}, {}, {row})]
            /\ Goto(h, "block:sever")
    /\ UNCHANGED <<tables, nextId, sent, accepted>>

BlockSeverSlip(h) ==            \* nothing
    /\ pc[h] = "block:sever"
    /\ Goto(h, "block:sweep")
    /\ UNCHANGED <<tables, tx, nextId, sent, accepted>>

BlockSever(h) ==
    /\ pc[h] = "block:sever"
    /\ ~Held(h, {Pair(h)} \cap friendship, "severed")
    /\ tx' = [tx EXCEPT ![h] = Writes({}, {Pair(h)} \cap friendship, {}, tx[h].placed)]
    /\ Goto(h, "block:sweep")
    /\ UNCHANGED <<tables, nextId, sent, accepted>>

BlockSweep(h) ==
    LET rows == RequestsBetween(job[h].me, job[h].peer) IN
    /\ pc[h] = "block:sweep"
    /\ ~Held(h, rows, "dropped")
    /\ tx' = [tx EXCEPT ![h] = Writes(rows, tx[h].severed, {}, tx[h].placed)]
    /\ Goto(h, "block:commit")
    /\ UNCHANGED <<tables, nextId, sent, accepted>>

BlockCommit(h) ==
    /\ pc[h] = "block:commit"
    /\ ApplyTx(h)
    /\ Finish(h)
    /\ UNCHANGED <<nextId, sent, accepted>>

----------------------------------------------------------------------------
(* Handlers of a single statement, atomic where they run.                  *)

\* DELETE /friend-requests/:id: decline or cancel, by either party.
Remove(h, u, r) ==
    /\ pc[h] = "idle"
    /\ r \in friendRequest
    /\ u \in {r.senderId, r.recipientId}
    /\ ~Held(h, {r}, "dropped")
    /\ friendRequest' = friendRequest \ {r}
    /\ UNCHANGED <<friendship, block, pc, job, tx, nextId, sent, accepted>>

\* DELETE /friends/:username
Unfriend(h, u, v) ==
    /\ pc[h] = "idle"
    /\ orderedFriendPair(u, v) \in friendship
    /\ ~Held(h, {orderedFriendPair(u, v)}, "severed")
    /\ friendship' = friendship \ {orderedFriendPair(u, v)}
    /\ UNCHANGED <<friendRequest, block, pc, job, tx, nextId, sent, accepted>>

\* DELETE /blocks/:username: the exact direction only.
Unblock(h, u, v) ==
    /\ pc[h] = "idle"
    /\ <<u, v>> \in block
    /\ block' = block \ {<<u, v>>}
    /\ UNCHANGED <<friendRequest, friendship, pc, job, tx, nextId, sent, accepted>>

\* A statement fails: the connection is lost, the process stops, Postgres
\* picks the transaction as the victim of a lock cycle, or Prisma's limit on
\* an interactive transaction passes.  Nothing the transaction did remains.
Abort(h) ==
    /\ pc[h] # "idle"
    /\ Finish(h)
    /\ UNCHANGED <<tables, nextId, sent, accepted>>

----------------------------------------------------------------------------
\* What a handler that has begun does next.
Proceed(h) ==
    \/ SendCheckFriends(h) \/ SendCheckPending(h) \/ SendCreate(h)
    \/ AcceptSweep(h) \/ AcceptUpsert(h) \/ AcceptCommit(h)
    \/ BlockCheckOwn(h) \/ BlockCreate(h) \/ BlockSever(h) \/ BlockSweep(h)
    \/ BlockCommit(h)

Handler(h) ==
    \/ \E u, v \in User :
          \/ SendCheckBlock(h, u, v) \/ BlockCheckReverse(h, u, v)
          \/ Unfriend(h, u, v) \/ Unblock(h, u, v)
    \/ \E u \in User, r \in friendRequest : AcceptFind(h, u, r) \/ Remove(h, u, r)
    \/ Proceed(h)
    \/ Abort(h)

Next == \E h \in Slot : Handler(h)

Spec == Init /\ [][Next]_vars

\* An accept holds the requests and wants the Friendship; a Block holds the
\* Friendship and wants the requests.  Postgres finds such a cycle and picks a
\* victim.
AcceptWaits(h, g) == pc[h] = "accept:upsert" /\ Pair(h) \in tx[g].severed
BlockWaits(h, g) ==
    pc[h] = "block:sweep" /\ RequestsBetween(job[h].me, job[h].peer) \cap tx[g].dropped # {}
Victim(h) ==
    /\ \E g \in Slot \ {h} : \/ (AcceptWaits(h, g) /\ BlockWaits(g, h))
                           \/ (BlockWaits(h, g) /\ AcceptWaits(g, h))
    /\ Abort(h)

\* The event loop runs what is ready, and of those that wait for a row lock the
\* database serves the first.
FairSpec == Spec /\ \A h \in Slot : SF_vars(Proceed(h)) /\ WF_vars(Victim(h))

----------------------------------------------------------------------------
JobType == [me : User \cup {0}, peer : User \cup {0}, id : Nat]

TxType == [dropped : SUBSET RequestRow, severed : SUBSET FriendshipRow,
           joined : SUBSET FriendshipRow, placed : SUBSET BlockRow]

\* The tables hold rows of their schema, a Friendship's two ids in order
\* (schema.prisma), and every handler is between two statements of its code.
TypeOK ==
    /\ friendRequest \subseteq RequestRow
    /\ friendship \subseteq FriendshipRow
    /\ block \subseteq BlockRow
    /\ pc \in [Slot -> {"idle"} \cup SendPc \cup AcceptPc \cup BlockPc]
    /\ job \in [Slot -> JobType]
    /\ tx \in [Slot -> TxType]
    /\ nextId \in Nat \ {0}
    /\ sent \subseteq RequestRow
    /\ accepted \subseteq RequestRow

(* Safety, however the handlers interleave.                                *)

\* A Friend Request whose accept has answered 200 is pending for nobody: the
\* accept's delete and its Friendship cannot half-apply in this direction,
\* whatever cancels, opposite requests and Blocks run in between.
AcceptedIsSpent == friendRequest \cap accepted = {}

\* Two Users are Friends only when one of them really sent a request that the
\* other accepted: no order of statements makes Friends of anyone else.
FriendshipHasConsent ==
    \A p \in friendship : \E r \in accepted \cap sent :
        orderedFriendPair(r.senderId, r.recipientId) = p

(* Liveness.                                                               *)

\* Every request is answered, whatever locks it has to wait for: no handler
\* keeps rows locked when it is done, and accepts and Blocks that lock the same
\* rows in opposite orders do not wait for ever.
Answered == \A h \in Slot : pc[h] # "idle" ~> pc[h] = "idle"

\* Across a Block there is no Friendship: it was severed, and none can form.
\* (Two handlers that overlap break this one.)
BlockSevers ==
    \A u, v \in User : <<u, v>> \in block => orderedFriendPair(u, v) \notin friendship

(* What the handlers promise, each as one indivisible step: one at a time,  *)
(* they implement it.                                                       *)
Rules == INSTANCE FriendshipRules WITH
    offers  <- {<<r.senderId, r.recipientId>> : r \in friendRequest},
    friends <- {{p[1], p[2]} : p \in friendship},
    blocks  <- block
=============================================================================
