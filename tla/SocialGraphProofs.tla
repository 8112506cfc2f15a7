------------------------- MODULE SocialGraphProofs -------------------------
(***************************************************************************)
(* What holds of SocialGraph however its handlers interleave, for any set  *)
(* of Users and any number of slots; and, in the last part, what holds of  *)
(* PeopleScreens, the screens that show this graph, for any set of Users,  *)
(* of calls under way and any bound on what others do.                     *)
(***************************************************************************)
EXTENDS MCSocialGraph, TLAPS

\* A busy handler works on two different Users.
JobOK == \A h \in Slot : pc[h] # "idle" =>
            /\ job[h].me \in User
            /\ job[h].peer \in User
            /\ job[h].me # job[h].peer

\* Ids are handed out once.
IdsOK == /\ friendRequest \subseteq sent
         /\ accepted \subseteq sent
         /\ \A r \in sent : r.id < nextId /\ r.senderId # r.recipientId

\* An accept works on a request that was sent; once its sweep has run, that
\* request is gone or is among the rows its commit will delete.
AcceptOK == \A h \in Slot : pc[h] \in AcceptPc =>
               /\ Found(h) \in sent
               /\ pc[h] # "accept:sweep" /\ Found(h) \in friendRequest
                     => Found(h) \in tx[h].dropped

\* Only an accept about to commit holds a new Friendship, that of its pair.
TxOK == \A h \in Slot : /\ tx[h].joined \subseteq {Pair(h)}
                        /\ tx[h].joined # {} => pc[h] = "accept:commit"

IInv == /\ TypeOK
        /\ JobOK
        /\ IdsOK
        /\ AcceptOK
        /\ TxOK
        /\ AcceptedIsSpent
        /\ FriendshipHasConsent

----------------------------------------------------------------------------
\* The canonical order makes one row of an unordered pair.
LEMMA PairLemma ==
    ASSUME NEW u \in User, NEW v \in User
    PROVE  /\ orderedFriendPair(u, v) = orderedFriendPair(v, u)
           /\ u # v => orderedFriendPair(u, v) \in FriendshipRow
BY UserAssumption DEF orderedFriendPair, FriendshipRow

LEMMA InitIInv == Init => IInv
BY DEF Init, IInv, TypeOK, JobOK, IdsOK, AcceptOK, TxOK, AcceptedIsSpent,
       FriendshipHasConsent, NoJob, NoTx, Writes, JobType, TxType, SendPc, AcceptPc, BlockPc

\* A handler that starts, on two different Users and on a request that was
\* sent if it accepts one, breaks nothing.
LEMMA StartKeeps ==
    ASSUME IInv, NEW h \in Slot, NEW where \in SendPc \cup AcceptPc \cup BlockPc,
           NEW u \in User, NEW v \in User, NEW id \in Nat, u # v,
           where \in AcceptPc =>
               /\ where = "accept:sweep"
               /\ [id |-> id, senderId |-> v, recipientId |-> u] \in sent,
           Start(h, where, u, v, id),
           UNCHANGED <<tables, tx, nextId, sent, accepted>>
    PROVE  IInv'
<1> USE DEF IInv, Start, tables
<1>1. TypeOK'
  BY UserAssumption DEF TypeOK, JobType
<1>2. JobOK'
  BY DEF JobOK, TypeOK
<1>3. IdsOK'
  BY DEF IdsOK
<1>4. AcceptOK'
  BY DEF AcceptOK, Found, TypeOK, AcceptPc
<1>5. TxOK'
  BY DEF TxOK, Pair, TypeOK
<1>6. AcceptedIsSpent' /\ FriendshipHasConsent'
  BY DEF AcceptedIsSpent, FriendshipHasConsent
<1>. QED  BY <1>1, <1>2, <1>3, <1>4, <1>5, <1>6

\* Neither does one that answers, or whose transaction is rolled back.
LEMMA FinishKeeps ==
    ASSUME IInv, NEW h \in Slot, Finish(h),
           UNCHANGED <<tables, nextId, sent, accepted>>
    PROVE  IInv'
<1> USE DEF IInv, Finish, tables, NoJob, NoTx, Writes
<1>1. TypeOK'
  BY DEF TypeOK, JobType, TxType
<1>2. JobOK'
  BY DEF JobOK, TypeOK
<1>3. IdsOK'
  BY DEF IdsOK
<1>4. AcceptOK'
  BY DEF AcceptOK, Found, TypeOK, AcceptPc
<1>5. TxOK'
  BY DEF TxOK, Pair, TypeOK
<1>6. AcceptedIsSpent' /\ FriendshipHasConsent'
  BY DEF AcceptedIsSpent, FriendshipHasConsent
<1>. QED  BY <1>1, <1>2, <1>3, <1>4, <1>5, <1>6

\* Nor a check of `send` or `block` that passes.
LEMMA CheckKeeps ==
    ASSUME IInv, NEW h \in Slot, NEW where \in SendPc \cup BlockPc,
           pc[h] \in SendPc \cup BlockPc, Goto(h, where),
           UNCHANGED <<tables, tx, nextId, sent, accepted>>
    PROVE  IInv'
<1> USE DEF IInv, Goto, tables
<1>1. TypeOK'
  BY DEF TypeOK
<1>2. JobOK'
  BY DEF JobOK, TypeOK, SendPc, BlockPc
<1>3. IdsOK'
  BY DEF IdsOK
<1>4. AcceptOK'
  BY DEF AcceptOK, Found, TypeOK, AcceptPc, SendPc, BlockPc
<1>5. TxOK'
  BY DEF TxOK, Pair, TypeOK, SendPc, BlockPc
<1>6. AcceptedIsSpent' /\ FriendshipHasConsent'
  BY DEF AcceptedIsSpent, FriendshipHasConsent
<1>. QED  BY <1>1, <1>2, <1>3, <1>4, <1>5, <1>6

----------------------------------------------------------------------------
\* The steps that change a table or an open transaction, one by one.

LEMMA SendCreateKeeps ==
    ASSUME IInv, NEW h \in Slot, SendCreate(h)
    PROVE  IInv'
<1> USE DEF IInv, SendCreate, Finish, NoJob, NoTx, Writes
<1>1. CASE UNCHANGED <<friendRequest, nextId, sent>>
  BY <1>1, FinishKeeps DEF tables
<1>2. CASE /\ friendRequest' = friendRequest \cup {NewRow(h)}
           /\ sent' = sent \cup {NewRow(h)}
           /\ nextId' = nextId + 1
  <2>1. NewRow(h) \in RequestRow /\ NewRow(h).senderId # NewRow(h).recipientId
    BY DEF NewRow, RequestRow, TypeOK, JobOK
  <2>2. NewRow(h) \notin sent /\ NewRow(h).id = nextId
    BY DEF NewRow, IdsOK, TypeOK
  <2>3. TypeOK'
    BY <1>2, <2>1 DEF TypeOK, JobType, TxType
  <2>4. JobOK'
    BY DEF JobOK, TypeOK
  <2>5. IdsOK'
    BY <1>2, <2>1, <2>2 DEF IdsOK, TypeOK, RequestRow
  <2>6. AcceptOK'
    BY <1>2, <2>2 DEF AcceptOK, Found, TypeOK, AcceptPc
  <2>7. TxOK'
    BY DEF TxOK, Pair, TypeOK
  <2>8. AcceptedIsSpent'
    BY <1>2, <2>2 DEF AcceptedIsSpent, IdsOK
  <2>9. FriendshipHasConsent'
    BY <1>2 DEF FriendshipHasConsent
  <2>. QED  BY <2>3, <2>4, <2>5, <2>6, <2>7, <2>8, <2>9
<1>. QED  BY <1>1, <1>2

LEMMA AcceptSweepKeeps ==
    ASSUME IInv, NEW h \in Slot, AcceptSweep(h)
    PROVE  IInv'
<1> USE DEF IInv, AcceptSweep, Goto, Writes, tables
<1>1. TypeOK'
  BY DEF TypeOK, TxType, RequestsBetween, AcceptPc
<1>2. JobOK'
  BY DEF JobOK, TypeOK
<1>3. IdsOK'
  BY DEF IdsOK
<1>4. Found(h) \in friendRequest => Found(h) \in RequestsBetween(job[h].me, job[h].peer)
  BY DEF Found, RequestsBetween, Between
<1>5. AcceptOK'
  BY <1>4 DEF AcceptOK, Found, TypeOK, AcceptPc, TxType
<1>6. TxOK'
  BY DEF TxOK, Pair, TypeOK, TxType
<1>7. AcceptedIsSpent' /\ FriendshipHasConsent'
  BY DEF AcceptedIsSpent, FriendshipHasConsent
<1>. QED  BY <1>1, <1>2, <1>3, <1>5, <1>6, <1>7

LEMMA AcceptUpsertKeeps ==
    ASSUME IInv, NEW h \in Slot, AcceptUpsert(h)
    PROVE  IInv'
<1> USE DEF IInv, AcceptUpsert, Goto, Writes, tables
<1>1. Pair(h) \in FriendshipRow
  BY PairLemma DEF Pair, JobOK
<1>2. TypeOK'
  BY <1>1 DEF TypeOK, TxType, AcceptPc
<1>3. JobOK'
  BY DEF JobOK, TypeOK
<1>4. IdsOK'
  BY DEF IdsOK
<1>5. AcceptOK'
  BY DEF AcceptOK, Found, TypeOK, AcceptPc, TxType
<1>6. TxOK'
  BY DEF TxOK, Pair, TypeOK, TxType
<1>7. AcceptedIsSpent' /\ FriendshipHasConsent'
  BY DEF AcceptedIsSpent, FriendshipHasConsent
<1>. QED  BY <1>2, <1>3, <1>4, <1>5, <1>6, <1>7

LEMMA AcceptCommitKeeps ==
    ASSUME IInv, NEW h \in Slot, AcceptCommit(h)
    PROVE  IInv'
<1> USE DEF IInv, AcceptCommit, ApplyTx, Finish, NoJob, NoTx, Writes
<1>1. /\ Found(h) \in sent
      /\ Found(h) \in friendRequest => Found(h) \in tx[h].dropped
      /\ orderedFriendPair(Found(h).senderId, Found(h).recipientId) = Pair(h)
  BY PairLemma DEF AcceptOK, AcceptPc, Found, Pair, JobOK
<1>2. tx[h] \in TxType
  BY DEF TypeOK
<1>3. TypeOK'
  BY <1>1, <1>2 DEF TypeOK, IdsOK, JobType, TxType
<1>4. JobOK'
  BY DEF JobOK, TypeOK
<1>5. IdsOK'
  BY <1>1 DEF IdsOK
<1>6. AcceptOK'
  BY DEF AcceptOK, Found, TypeOK, AcceptPc
<1>7. TxOK'
  BY DEF TxOK, Pair, TypeOK
<1>8. AcceptedIsSpent'
  BY <1>1 DEF AcceptedIsSpent
<1>9. FriendshipHasConsent'
  BY <1>1 DEF FriendshipHasConsent, TxOK
<1>. QED  BY <1>3, <1>4, <1>5, <1>6, <1>7, <1>8, <1>9

LEMMA BlockWriteKeeps ==
    ASSUME IInv, NEW h \in Slot, BlockCreate(h) \/ BlockSever(h) \/ BlockSweep(h)
    PROVE  IInv'
<1> USE DEF IInv, Goto, Writes, tables
<1>1. CASE BlockCreate(h) /\ <<job[h].me, job[h].peer>> \in block
  BY <1>1, FinishKeeps DEF BlockCreate
<1>2. CASE BlockCreate(h) /\ <<job[h].me, job[h].peer>> \notin block
  <2>1. TypeOK'
    BY <1>2 DEF BlockCreate, TypeOK, TxType, BlockPc, JobOK, BlockRow
  <2>2. JobOK' /\ IdsOK' /\ AcceptedIsSpent' /\ FriendshipHasConsent'
    BY <1>2 DEF BlockCreate, JobOK, IdsOK, AcceptedIsSpent, FriendshipHasConsent, TypeOK
  <2>3. AcceptOK' /\ TxOK'
    BY <1>2 DEF BlockCreate, AcceptOK, TxOK, Found, Pair, TypeOK, TxType, AcceptPc
  <2>. QED  BY <2>1, <2>2, <2>3
<1>3. CASE BlockSever(h)
  <2>0. tx[h].placed \subseteq BlockRow
    BY DEF TypeOK, TxType
  <2>1. TypeOK'
    BY <1>3, <2>0 DEF BlockSever, TypeOK, TxType, BlockPc
  <2>2. JobOK' /\ IdsOK' /\ AcceptedIsSpent' /\ FriendshipHasConsent'
    BY <1>3 DEF BlockSever, JobOK, IdsOK, AcceptedIsSpent, FriendshipHasConsent, TypeOK
  <2>3. AcceptOK' /\ TxOK'
    BY <1>3 DEF BlockSever, AcceptOK, TxOK, Found, Pair, TypeOK, TxType, AcceptPc
  <2>. QED  BY <2>1, <2>2, <2>3
<1>4. CASE BlockSweep(h)
  <2>1. TypeOK'
    BY <1>4 DEF BlockSweep, TypeOK, TxType, BlockPc, RequestsBetween
  <2>2. JobOK' /\ IdsOK' /\ AcceptedIsSpent' /\ FriendshipHasConsent'
    BY <1>4 DEF BlockSweep, JobOK, IdsOK, AcceptedIsSpent, FriendshipHasConsent, TypeOK
  <2>3. AcceptOK' /\ TxOK'
    BY <1>4 DEF BlockSweep, AcceptOK, TxOK, Found, Pair, TypeOK, TxType, AcceptPc
  <2>. QED  BY <2>1, <2>2, <2>3
<1>. QED  BY <1>1, <1>2, <1>3, <1>4 DEF BlockCreate

LEMMA BlockCommitKeeps ==
    ASSUME IInv, NEW h \in Slot, BlockCommit(h)
    PROVE  IInv'
<1> USE DEF IInv, BlockCommit, ApplyTx, Finish, NoJob, NoTx, Writes
<1>1. tx[h] \in TxType /\ tx[h].joined = {}
  BY DEF TypeOK, TxOK
<1>2. TypeOK'
  BY <1>1 DEF TypeOK, JobType, TxType
<1>3. JobOK' /\ IdsOK' /\ AcceptedIsSpent' /\ FriendshipHasConsent'
  BY <1>1 DEF JobOK, IdsOK, AcceptedIsSpent, FriendshipHasConsent, TypeOK
<1>4. AcceptOK' /\ TxOK'
  BY DEF AcceptOK, TxOK, Found, Pair, TypeOK, AcceptPc
<1>. QED  BY <1>2, <1>3, <1>4

\* Handlers of one statement only take rows away.
LEMMA DeleteKeeps ==
    ASSUME IInv, friendRequest' \subseteq friendRequest,
           friendship' \subseteq friendship, block' \subseteq block,
           UNCHANGED <<pc, job, tx, nextId, sent, accepted>>
    PROVE  IInv'
<1> USE DEF IInv
<1>1. TypeOK' /\ JobOK' /\ IdsOK'
  BY DEF TypeOK, JobOK, IdsOK
<1>2. AcceptOK' /\ TxOK'
  BY DEF AcceptOK, TxOK, Found, Pair
<1>3. AcceptedIsSpent' /\ FriendshipHasConsent'
  BY DEF AcceptedIsSpent, FriendshipHasConsent
<1>. QED  BY <1>1, <1>2, <1>3

LEMMA NextIInv == IInv /\ [Next]_vars => IInv'
<1> SUFFICES ASSUME IInv, [Next]_vars
             PROVE  IInv'
  OBVIOUS
<1>1. ASSUME NEW h \in Slot, NEW u \in User, NEW v \in User,
             SendCheckBlock(h, u, v) \/ BlockCheckReverse(h, u, v)
      PROVE  IInv'
  <2>1. CASE SendCheckBlock(h, u, v)
    BY <2>1, StartKeeps DEF SendCheckBlock, SendPc, AcceptPc
  <2>2. CASE BlockCheckReverse(h, u, v)
    BY <2>2, StartKeeps DEF BlockCheckReverse, BlockPc, AcceptPc
  <2>. QED  BY <1>1, <2>1, <2>2
<1>2. ASSUME NEW h \in Slot, NEW u \in User, NEW r \in friendRequest, AcceptFind(h, u, r)
      PROVE  IInv'
  <2>1. /\ r \in RequestRow /\ r \in sent /\ r.senderId # r.recipientId
        /\ r = [id |-> r.id, senderId |-> r.senderId, recipientId |-> u]
    BY <1>2 DEF AcceptFind, IInv, TypeOK, IdsOK, RequestRow
  <2>. QED  BY <1>2, <2>1, StartKeeps DEF AcceptFind, RequestRow, AcceptPc
<1>3. ASSUME NEW h \in Slot, SendCheckFriends(h) \/ SendCheckPending(h) \/ BlockCheckOwn(h)
      PROVE  IInv'
  BY <1>3, FinishKeeps, CheckKeeps
     DEF SendCheckFriends, SendCheckPending, BlockCheckOwn, SendPc, BlockPc
<1>4. ASSUME NEW h \in Slot, NEW u \in User, NEW v \in User,
             Unfriend(h, u, v) \/ Unblock(h, u, v)
      PROVE  IInv'
  BY <1>4, DeleteKeeps DEF Unfriend, Unblock
<1>5. ASSUME NEW h \in Slot, NEW u \in User, NEW r \in friendRequest, Remove(h, u, r)
      PROVE  IInv'
  BY <1>5, DeleteKeeps DEF Remove
<1>6. ASSUME NEW h \in Slot, Abort(h)
      PROVE  IInv'
  BY <1>6, FinishKeeps DEF Abort
<1>7. CASE UNCHANGED vars
  BY <1>7, DeleteKeeps DEF vars
<1>. QED
  BY <1>1, <1>2, <1>3, <1>4, <1>5, <1>6, <1>7, SendCreateKeeps, AcceptSweepKeeps,
     AcceptUpsertKeeps, AcceptCommitKeeps, BlockWriteKeeps, BlockCommitKeeps
     DEF Next, Handler, Proceed

LEMMA Inductive == Spec => []IInv
BY InitIInv, NextIInv, PTL DEF Spec

----------------------------------------------------------------------------
\* The tables and handlers keep their types, for any Users and slots.
THEOREM TypeCorrect == Spec => []TypeOK
BY Inductive, PTL DEF IInv

\* An accepted request is never pending again, for any Users and slots.
THEOREM AcceptSpends == Spec => []AcceptedIsSpent
BY Inductive, PTL DEF IInv

\* No interleaving makes Friends of two Users without a sent and accepted
\* request between them, for any Users and slots.
THEOREM Consent == Spec => []FriendshipHasConsent
BY Inductive, PTL DEF IInv

----------------------------------------------------------------------------
(* One handler at a time: the tables as FriendshipRules sees them.         *)

Offers(rows) == {<<r.senderId, r.recipientId>> : r \in rows}
Friends(rows) == {{p[1], p[2]} : p \in rows}

LEMMA SamePair ==
    ASSUME NEW p \in FriendshipRow, NEW u \in User, NEW v \in User
    PROVE  {p[1], p[2]} = {u, v} <=> p = orderedFriendPair(u, v)
<1>1. /\ p = <<p[1], p[2]>> /\ p[1] \in Nat /\ p[2] \in Nat /\ p[1] < p[2]
      /\ u \in Nat /\ v \in Nat
  <2>1. PICK a \in User, b \in User : p = <<a, b>>
    BY DEF FriendshipRow
  <2>. QED  BY <2>1, UserAssumption DEF FriendshipRow
<1>2. CASE u < v
  BY <1>1, <1>2 DEF orderedFriendPair
<1>3. CASE v < u
  BY <1>1, <1>3 DEF orderedFriendPair
<1>4. CASE u = v
  BY <1>1, <1>4 DEF orderedFriendPair
<1>. QED  BY <1>1, <1>2, <1>3, <1>4

LEMMA FriendsAre ==
    ASSUME friendship \subseteq FriendshipRow, NEW u \in User, NEW v \in User, u # v
    PROVE  /\ {u, v} \in Friends(friendship) <=> orderedFriendPair(u, v) \in friendship
           /\ Friends(friendship \cup {orderedFriendPair(u, v)})
                 = Friends(friendship) \cup {{u, v}}
           /\ Friends(friendship \ {orderedFriendPair(u, v)})
                 = Friends(friendship) \ {{u, v}}
<1> DEFINE p == orderedFriendPair(u, v)
<1>1. p \in FriendshipRow /\ {p[1], p[2]} = {u, v}
  BY PairLemma, SamePair
<1>2. \A q \in friendship : {q[1], q[2]} = {u, v} <=> q = p
  BY SamePair
<1> HIDE DEF p
<1>3. {u, v} \in Friends(friendship) <=> p \in friendship
  BY <1>1, <1>2 DEF Friends
<1>4. Friends(friendship \cup {p}) = Friends(friendship) \cup {{u, v}}
  BY <1>1 DEF Friends
<1>5. Friends(friendship \ {p}) = Friends(friendship) \ {{u, v}}
  BY <1>2 DEF Friends
<1>. QED  BY <1>3, <1>4, <1>5 DEF p

LEMMA OffersAre ==
    ASSUME NEW rows \in SUBSET RequestRow, NEW u \in User, NEW v \in User
    PROVE  LET both == {r \in rows : Between(r, u, v)} IN
           /\ Rules!Both(u, v) \cap Offers(rows) = {} <=> both = {}
           /\ Offers(rows \ both) = Offers(rows) \ Rules!Both(u, v)
<1>1. \A r \in rows : <<r.senderId, r.recipientId>> \in Rules!Both(u, v) <=> Between(r, u, v)
  <2> SUFFICES ASSUME NEW r \in rows
               PROVE  <<r.senderId, r.recipientId>> \in Rules!Both(u, v) <=> Between(r, u, v)
    OBVIOUS
  <2>1. Between(r, u, v) <=> \/ r.senderId = u /\ r.recipientId = v
                             \/ r.senderId = v /\ r.recipientId = u
    BY DEF Between
  <2>. QED  BY <2>1 DEF Rules!Both
<1>. QED  BY <1>1 DEF Offers

\* The unique index on (senderId, recipientId).
OneRow == \A r, s \in friendRequest :
    r.senderId = s.senderId /\ r.recipientId = s.recipientId => r = s

\* What the handler of each place has found, and its transaction holds: nothing
\* has changed since.
Requests(h) == RequestsBetween(job[h].me, job[h].peer)
Severed(h) == {Pair(h)} \cap friendship
NewBlock(h) == <<job[h].me, job[h].peer>>

SendFound(h) ==
    pc[h] \in SendPc =>
        /\ ~ Blocked(job[h].me, job[h].peer)
        /\ pc[h] # "send:areFriends" => Pair(h) \notin friendship
        /\ pc[h] = "send:create" => Requests(h) = {}
AcceptFound(h) ==
    pc[h] \in AcceptPc =>
        /\ Found(h) \in friendRequest
        /\ pc[h] = "accept:upsert" => tx[h] = Writes(Requests(h), {}, {}, {})
        /\ pc[h] = "accept:commit" =>
              tx[h] = Writes(Requests(h), {}, {Pair(h)} \ friendship, {})
BlockFound(h) ==
    pc[h] \in BlockPc =>
        /\ <<job[h].peer, job[h].me>> \notin block
        /\ pc[h] \notin {"block:own"} => NewBlock(h) \notin block
        /\ pc[h] = "block:sever" => tx[h] = Writes({}, {}, {}, {NewBlock(h)})
        /\ pc[h] = "block:sweep" => tx[h] = Writes({}, Severed(h), {}, {NewBlock(h)})
        /\ pc[h] = "block:commit" =>
              tx[h] = Writes(Requests(h), Severed(h), {}, {NewBlock(h)})

FoundOK == \A h \in Slot : SendFound(h) /\ AcceptFound(h) /\ BlockFound(h)
Sole == \A g, h \in Slot : pc[g] # "idle" /\ pc[h] # "idle" => g = h
AloneOK == alone => Sole /\ FoundOK
MCInv == IInv /\ OneRow /\ AloneOK

LEMMA StepOneRow == IInv /\ OneRow /\ [Next]_vars => OneRow'
<1> SUFFICES ASSUME IInv, OneRow, [Next]_vars PROVE OneRow'
  OBVIOUS
<1>1. CASE friendRequest' \subseteq friendRequest
  BY <1>1 DEF OneRow
<1>2. CASE \E h \in Slot : SendCreate(h)
  <2>1. PICK h \in Slot : SendCreate(h)
    BY <1>2
  <2>2. CASE friendRequest' = friendRequest \cup {NewRow(h)}
             /\ {r \in friendRequest : r.senderId = job[h].me /\ r.recipientId = job[h].peer} = {}
    BY <2>2 DEF OneRow, NewRow
  <2>. QED  BY <1>1, <2>1, <2>2 DEF SendCreate
<1>3. friendRequest' \subseteq friendRequest \/ \E h \in Slot : SendCreate(h)
  BY DEF Next, vars, Handler, Proceed, SendCheckBlock, SendCheckFriends, SendCheckPending,
         AcceptFind, AcceptSweep, AcceptUpsert, AcceptCommit, BlockCheckReverse, BlockCheckOwn,
         BlockCreate, BlockSever, BlockSweep, BlockCommit, Remove, Unfriend, Unblock, Abort,
         ApplyTx, tables
<1>. QED  BY <1>1, <1>2, <1>3

LEMMA SoleStep ==
    ASSUME IInv, NEW h \in Slot, Handler(h), \A g \in Slot \ {h} : pc[g] = "idle"
    PROVE  Sole' /\ \A g \in Slot \ {h} : pc'[g] = "idle"
<1>1. pc' = pc \/ \E where : pc' = [pc EXCEPT ![h] = where]
  <2>1. ASSUME Proceed(h) \/ Abort(h) PROVE \E where : pc' = [pc EXCEPT ![h] = where]
    BY <2>1 DEF Proceed, SendCheckFriends, SendCheckPending, SendCreate, AcceptSweep,
       AcceptUpsert, AcceptCommit, BlockCheckOwn, BlockCreate, BlockSever, BlockSweep,
       BlockCommit, Abort, Finish, Goto
  <2>. QED  BY <2>1 DEF Handler, SendCheckBlock, BlockCheckReverse, Unfriend, Unblock, AcceptFind,
            Remove, Start
<1>2. \A g \in Slot \ {h} : pc'[g] = "idle"
  BY <1>1 DEF IInv, TypeOK
<1>. QED  BY <1>2 DEF Sole

\* A handler that is over has found nothing that matters.
LEMMA FoundOver ==
    ASSUME NEW h \in Slot, \A g \in Slot \ {h} : pc'[g] = "idle", pc'[h] = "idle"
    PROVE  FoundOK'
BY DEF FoundOK, SendFound, AcceptFound, BlockFound, SendPc, AcceptPc, BlockPc

LEMMA FoundHere ==
    ASSUME NEW h \in Slot, \A g \in Slot \ {h} : pc'[g] = "idle",
           SendFound(h)', AcceptFound(h)', BlockFound(h)'
    PROVE  FoundOK'
<1> SUFFICES ASSUME NEW g \in Slot PROVE SendFound(g)' /\ AcceptFound(g)' /\ BlockFound(g)'
  BY DEF FoundOK
<1>1. CASE g = h
  BY <1>1
<1>2. CASE g # h
  BY <1>2 DEF SendFound, AcceptFound, BlockFound, SendPc, AcceptPc, BlockPc
<1>. QED  BY <1>1, <1>2

\* A start, or a statement that changes no table.
LEMMA FoundStep ==
    ASSUME MCInv, alone, NEW h \in Slot, Handler(h), \A g \in Slot \ {h} : pc[g] = "idle"
    PROVE  FoundOK'
<1> USE DEF MCInv, AloneOK, IInv
<1>1. \A g \in Slot \ {h} : pc'[g] = "idle"
  BY SoleStep
<1>2. /\ SendFound(h) /\ AcceptFound(h) /\ BlockFound(h)
      /\ friendRequest \subseteq RequestRow
      /\ DOMAIN pc = Slot /\ DOMAIN job = Slot /\ DOMAIN tx = Slot
  BY DEF FoundOK, TypeOK
<1>3. CASE pc'[h] = "idle"
  BY <1>1, <1>3, FoundOver
<1>4. ASSUME NEW u \in User, NEW v \in User, SendCheckBlock(h, u, v) \/ BlockCheckReverse(h, u, v)
      PROVE  FoundOK'
  <2>1. /\ UNCHANGED <<friendRequest, friendship, block>>
        /\ job'[h].me = u /\ job'[h].peer = v
        /\ \/ pc'[h] = "send:areFriends" /\ ~ Blocked(u, v)
           \/ pc'[h] = "block:own" /\ <<v, u>> \notin block
    BY <1>2, <1>4 DEF SendCheckBlock, BlockCheckReverse, Start, tables
  <2>2. SendFound(h)' /\ AcceptFound(h)' /\ BlockFound(h)'
    BY <2>1 DEF SendFound, AcceptFound, BlockFound, Blocked, SendPc, AcceptPc, BlockPc
  <2>. QED  BY <1>1, <2>2, FoundHere
<1>5. ASSUME NEW u \in User, NEW r \in friendRequest, AcceptFind(h, u, r)
      PROVE  FoundOK'
  <2>1. /\ UNCHANGED <<friendRequest, friendship, block>> /\ pc'[h] = "accept:sweep"
        /\ job'[h] = [me |-> u, peer |-> r.senderId, id |-> r.id]
    BY <1>2, <1>5 DEF AcceptFind, Start, tables
  <2>2. r = [id |-> r.id, senderId |-> r.senderId, recipientId |-> u]
    BY <1>2, <1>5 DEF AcceptFind, RequestRow
  <2>3. Found(h)' = r
    BY <2>1, <2>2 DEF Found
  <2>4. SendFound(h)' /\ AcceptFound(h)' /\ BlockFound(h)'
    BY <2>1, <2>3 DEF SendFound, AcceptFound, BlockFound, SendPc, AcceptPc, BlockPc
  <2>. QED  BY <1>1, <2>4, FoundHere
<1>6. ASSUME pc'[h] # "idle", Proceed(h)
      PROVE  FoundOK'
  <2>1. /\ UNCHANGED <<friendRequest, friendship, block, job>>
        /\ Requests(h)' = Requests(h) /\ Pair(h)' = Pair(h) /\ Found(h)' = Found(h)
        /\ Severed(h)' = Severed(h) /\ NewBlock(h)' = NewBlock(h)
    <3>1. UNCHANGED <<friendRequest, friendship, block, job>>
      BY <1>2, <1>6 DEF Proceed, SendCheckFriends, SendCheckPending, SendCreate, AcceptSweep,
         AcceptUpsert, AcceptCommit, BlockCheckOwn, BlockCreate, BlockSever, BlockSweep,
         BlockCommit, Finish, Goto, tables
    <3>. QED  BY <3>1 DEF Requests, RequestsBetween, Pair, Found, Severed, NewBlock
  <2>2. CASE SendCheckFriends(h) \/ SendCheckPending(h)
    <3>1. \/ /\ pc[h] = "send:areFriends" /\ pc'[h] = "send:findBetween"
             /\ Pair(h) \notin friendship
          \/ /\ pc[h] = "send:findBetween" /\ pc'[h] = "send:create"
             /\ Requests(h) = {}
      BY <1>2, <1>6, <2>2 DEF SendCheckFriends, SendCheckPending, Finish, Goto, Requests
    <3>2. SendFound(h)'
      BY <1>2, <2>1, <3>1 DEF SendFound, Blocked, SendPc
    <3>3. AcceptFound(h)' /\ BlockFound(h)'
      BY <3>1 DEF AcceptFound, BlockFound, AcceptPc, BlockPc
    <3>. QED  BY <1>1, <3>2, <3>3, FoundHere
  <2>3. CASE AcceptSweep(h) \/ AcceptUpsert(h)
    <3>1. \/ /\ pc[h] = "accept:sweep" /\ pc'[h] = "accept:upsert"
             /\ tx'[h] = Writes(Requests(h), {}, {}, {})
          \/ /\ pc[h] = "accept:upsert" /\ pc'[h] = "accept:commit"
             /\ tx'[h] = Writes(tx[h].dropped, {}, {Pair(h)} \ friendship, {})
      BY <1>2, <2>3 DEF AcceptSweep, AcceptUpsert, Goto, Requests
    <3>2. pc[h] = "accept:upsert" => tx[h].dropped = Requests(h)
      BY <1>2 DEF AcceptFound, AcceptPc, Writes
    <3>3. AcceptFound(h)'
      BY <1>2, <2>1, <3>1, <3>2 DEF AcceptFound, AcceptPc
    <3>4. SendFound(h)' /\ BlockFound(h)'
      BY <3>1 DEF SendFound, BlockFound, SendPc, BlockPc
    <3>. QED  BY <1>1, <3>3, <3>4, FoundHere
  <2>4. CASE BlockCheckOwn(h) \/ BlockCreate(h) \/ BlockSever(h) \/ BlockSweep(h)
    <3>1. \/ pc[h] = "block:own" /\ pc'[h] = "block:create" /\ NewBlock(h) \notin block
          \/ /\ pc[h] = "block:create" /\ pc'[h] = "block:sever"
             /\ tx'[h] = Writes({}, {}, {}, {NewBlock(h)})
          \/ /\ pc[h] = "block:sever" /\ pc'[h] = "block:sweep"
             /\ tx'[h] = Writes({}, Severed(h), {}, tx[h].placed)
          \/ /\ pc[h] = "block:sweep" /\ pc'[h] = "block:commit"
             /\ tx'[h] = Writes(Requests(h), tx[h].severed, {}, tx[h].placed)
      BY <1>2, <1>6, <2>4 DEF BlockCheckOwn, BlockCreate, BlockSever, BlockSweep, Finish, Goto,
         NewBlock, Severed, Requests
    <3>2. /\ pc[h] = "block:sever" => tx[h].placed = {NewBlock(h)}
          /\ pc[h] = "block:sweep" => tx[h].placed = {NewBlock(h)} /\ tx[h].severed = Severed(h)
      BY <1>2 DEF BlockFound, BlockPc, Writes
    <3>3. BlockFound(h)'
      BY <1>2, <2>1, <3>1, <3>2 DEF BlockFound, BlockPc
    <3>4. SendFound(h)' /\ AcceptFound(h)'
      BY <3>1 DEF SendFound, AcceptFound, SendPc, AcceptPc
    <3>. QED  BY <1>1, <3>3, <3>4, FoundHere
  <2>5. CASE SendCreate(h) \/ AcceptCommit(h) \/ BlockCommit(h)
    BY <1>2, <1>6, <2>5 DEF SendCreate, AcceptCommit, BlockCommit, Finish
  <2>. QED  BY <1>6, <2>2, <2>3, <2>4, <2>5 DEF Proceed
<1>7. ASSUME NEW u \in User, NEW v \in User, Unfriend(h, u, v) \/ Unblock(h, u, v)
      PROVE  pc'[h] = "idle"
  BY <1>7 DEF Unfriend, Unblock
<1>8. ASSUME NEW u \in User, NEW r \in friendRequest, Remove(h, u, r)
      PROVE  pc'[h] = "idle"
  BY <1>8 DEF Remove
<1>9. CASE Abort(h)
  <2>1. pc'[h] = "idle"
    BY <1>2, <1>9 DEF Abort, Finish
  <2>. QED  BY <1>3, <2>1
<1>. QED  BY <1>3, <1>4, <1>5, <1>6, <1>7, <1>8, <1>9 DEF Handler

LEMMA MCInductive == MCInit /\ [][MCNext]_MCVars => []MCInv
<1>1. MCInit => MCInv
  <2>1. Init => OneRow /\ Sole /\ FoundOK
    BY DEF Init, OneRow, Sole, FoundOK, SendFound, AcceptFound, BlockFound, SendPc, AcceptPc,
           BlockPc
  <2>. QED  BY <2>1, InitIInv DEF MCInit, MCInv, AloneOK
<1>2. MCInv /\ [MCNext]_MCVars => MCInv'
  <2> SUFFICES ASSUME MCInv, [MCNext]_MCVars PROVE MCInv'
    OBVIOUS
  <2>1. IInv' /\ OneRow'
    BY NextIInv, StepOneRow DEF MCInv, MCNext, MCVars, Next
  <2>2. CASE UNCHANGED MCVars
    BY <2>1, <2>2 DEF MCInv, AloneOK, Sole, FoundOK, SendFound, AcceptFound, BlockFound, Blocked,
       Requests, RequestsBetween, Pair, Found, Severed, NewBlock, MCVars, vars
  <2>3. CASE MCNext
    BY <2>1, <2>3, SoleStep, FoundStep DEF MCInv, AloneOK, MCNext
  <2>. QED  BY <2>2, <2>3
<1>. QED  BY <1>1, <1>2, PTL

\* A table that does not change is the same to the rules.
LEMMA TablesStutter == UNCHANGED tables => UNCHANGED Rules!vars
BY DEF tables, Rules!vars

LEMMA HandlerImplements ==
    ASSUME MCInv, alone, NEW h \in Slot, Handler(h)
    PROVE  Rules!Next \/ UNCHANGED Rules!vars
<1> USE DEF MCInv, AloneOK, IInv
<1>1. /\ SendFound(h) /\ AcceptFound(h) /\ BlockFound(h)
      /\ friendRequest \subseteq RequestRow /\ friendship \subseteq FriendshipRow
  BY DEF FoundOK, TypeOK
<1>2. pc[h] # "idle" =>
         \E me, peer \in User : me = job[h].me /\ peer = job[h].peer /\ me # peer
  BY DEF JobOK
<1>2a. ASSUME NEW u \in User, NEW v \in User, u # v
      PROVE  /\ {u, v} \in Friends(friendship) <=> orderedFriendPair(u, v) \in friendship
             /\ Friends(friendship \cup {orderedFriendPair(u, v)})
                   = Friends(friendship) \cup {{u, v}}
             /\ Friends(friendship \ {orderedFriendPair(u, v)})
                   = Friends(friendship) \ {{u, v}}
  <2>1. friendship \subseteq FriendshipRow
    BY <1>1
  <2>. QED  BY ONLY <1>2a, <2>1, FriendsAre
<1>3. UNCHANGED tables => Rules!Next \/ UNCHANGED Rules!vars
  BY TablesStutter
<1>4. ASSUME SendCreate(h)
      PROVE  Rules!Next \/ UNCHANGED Rules!vars
  <2>1. CASE UNCHANGED friendRequest
    BY <1>3, <1>4, <2>1 DEF SendCreate, tables
  <2>2. CASE friendRequest' = friendRequest \cup {NewRow(h)}
    <3>1. pc[h] = "send:create" /\ UNCHANGED <<friendship, block>>
      BY <1>4 DEF SendCreate
    <3>2. PICK me \in User, peer \in User : me = job[h].me /\ peer = job[h].peer /\ me # peer
      BY <1>2, <3>1
    <3>3. /\ ~ Blocked(me, peer) /\ orderedFriendPair(me, peer) \notin friendship
          /\ RequestsBetween(me, peer) = {}
      BY <1>1, <3>1, <3>2 DEF SendFound, SendPc, Pair, Requests
    <3>4. Rules!Both(me, peer) \cap Offers(friendRequest) = {}
      BY <1>1, <3>3, OffersAre DEF RequestsBetween
    <3>5. {me, peer} \notin Friends(friendship)
      BY <1>2a, <3>3, <3>2, Zenon
    <3>6. Offers(friendRequest') = Offers(friendRequest) \cup {<<me, peer>>}
      <4>1. NewRow(h).senderId = me /\ NewRow(h).recipientId = peer
        BY <3>2 DEF NewRow
      <4>. QED  BY <2>2, <4>1 DEF Offers
    <3>7. ~ Rules!Blocked(me, peer)
      BY <3>3 DEF Rules!Blocked, Blocked
    <3>8. Rules!Send(me, peer)
      BY <3>1, <3>2, <3>4, <3>6, <3>7, <3>5 DEF Rules!Send, Offers, Friends
    <3>. QED  BY <3>8 DEF Rules!Next
  <2>. QED  BY <1>4, <2>1, <2>2 DEF SendCreate
<1>5. ASSUME AcceptCommit(h)
      PROVE  Rules!Next \/ UNCHANGED Rules!vars
  <2>1. pc[h] = "accept:commit" /\ ApplyTx(h)
    BY <1>5 DEF AcceptCommit
  <2>2. /\ Found(h) \in friendRequest
        /\ tx[h] = Writes(Requests(h), {}, {Pair(h)} \ friendship, {})
    BY <1>1, <2>1 DEF AcceptFound, AcceptPc
  <2>3. PICK me \in User, peer \in User : me = job[h].me /\ peer = job[h].peer /\ me # peer
    BY <1>2, <2>1
  <2>4. /\ friendRequest' = friendRequest \ RequestsBetween(me, peer)
        /\ friendship' = friendship \cup {orderedFriendPair(me, peer)} /\ block' = block
    BY <2>3, <2>1, <2>2 DEF ApplyTx, Writes, Requests, Pair
  <2>5. <<peer, me>> \in Offers(friendRequest)
    BY <2>3, <2>2 DEF Offers, Found
  <2>6. Offers(friendRequest') = Offers(friendRequest) \ Rules!Both(me, peer)
    BY <1>1, <2>4, OffersAre DEF RequestsBetween
  <2>7. Friends(friendship') = Friends(friendship) \cup {{me, peer}}
    BY <1>2a, <2>3, <2>4, Zenon
  <2>8. Rules!Accept(me, peer)
    BY <2>4, <2>5, <2>6, <2>7 DEF Rules!Accept, Offers, Friends
  <2>. QED  BY <2>8 DEF Rules!Next
<1>6. ASSUME BlockCommit(h)
      PROVE  Rules!Next \/ UNCHANGED Rules!vars
  <2>1. pc[h] = "block:commit" /\ ApplyTx(h)
    BY <1>6 DEF BlockCommit
  <2>2. PICK me \in User, peer \in User : me = job[h].me /\ peer = job[h].peer /\ me # peer
    BY <1>2, <2>1
  <2>3. /\ <<peer, me>> \notin block /\ <<me, peer>> \notin block
        /\ tx[h] = Writes(Requests(h), Severed(h), {}, {<<me, peer>>})
    BY <1>1, <2>2, <2>1 DEF BlockFound, BlockPc, NewBlock
  <2>4. /\ friendRequest' = friendRequest \ RequestsBetween(me, peer)
        /\ friendship' = friendship \ {orderedFriendPair(me, peer)}
        /\ block' = block \cup {<<me, peer>>}
    BY <2>2, <2>1, <2>3 DEF ApplyTx, Writes, Severed, Requests, Pair
  <2>5. Offers(friendRequest') = Offers(friendRequest) \ Rules!Both(me, peer)
    BY <1>1, <2>4, OffersAre DEF RequestsBetween
  <2>6. Friends(friendship') = Friends(friendship) \ {{me, peer}}
    BY <1>2a, <2>2, <2>4, Zenon
  <2>7. Rules!Block(me, peer)
    BY <2>2, <2>3, <2>4, <2>5, <2>6 DEF Rules!Block, Rules!Blocked, Offers, Friends
  <2>. QED  BY <2>7 DEF Rules!Next
<1>7. ASSUME NEW u \in User, NEW r \in friendRequest, Remove(h, u, r)
      PROVE  Rules!Next \/ UNCHANGED Rules!vars
  <2>1. friendRequest' = friendRequest \ {r} /\ UNCHANGED <<friendship, block>>
    BY <1>7 DEF Remove
  <2>2. r.senderId \in User /\ r.recipientId \in User
    BY <1>1 DEF RequestRow
  <2>3. Offers(friendRequest') = Offers(friendRequest) \ {<<r.senderId, r.recipientId>>}
    <3>1. \A s \in friendRequest :
             <<s.senderId, s.recipientId>> = <<r.senderId, r.recipientId>> <=> s = r
      BY DEF OneRow
    <3>. QED  BY <2>1, <3>1 DEF Offers
  <2>4. Rules!Remove(r.senderId, r.recipientId)
    BY <2>1, <2>3 DEF Rules!Remove, Offers
  <2>. QED  BY <2>2, <2>4 DEF Rules!Next
<1>8. ASSUME NEW u \in User, NEW v \in User, Unfriend(h, u, v)
      PROVE  Rules!Next \/ UNCHANGED Rules!vars
  <2>1. /\ orderedFriendPair(u, v) \in friendship /\ UNCHANGED <<friendRequest, block>>
        /\ friendship' = friendship \ {orderedFriendPair(u, v)}
    BY <1>8 DEF Unfriend
  <2>2. u # v
    BY <1>1, <2>1, UserAssumption DEF orderedFriendPair, FriendshipRow
  <2>3. {u, v} \in Friends(friendship) /\ Friends(friendship') = Friends(friendship) \ {{u, v}}
    BY <1>2a, <2>1, <2>2, Zenon
  <2>4. Rules!Unfriend(u, v)
    BY <2>1, <2>3 DEF Rules!Unfriend, Friends
  <2>. QED  BY <2>4 DEF Rules!Next
<1>9. ASSUME NEW u \in User, NEW v \in User, Unblock(h, u, v)
      PROVE  Rules!Next \/ UNCHANGED Rules!vars
  <2>1. Rules!Unblock(u, v)
    BY <1>9 DEF Unblock, Rules!Unblock
  <2>. QED  BY <2>1 DEF Rules!Next
<1>10. ASSUME NEW u \in User, NEW v \in User,
              SendCheckBlock(h, u, v) \/ BlockCheckReverse(h, u, v)
       PROVE  UNCHANGED tables
  BY <1>10 DEF SendCheckBlock, BlockCheckReverse
<1>11. ASSUME \/ SendCheckFriends(h) \/ SendCheckPending(h) \/ AcceptSweep(h) \/ AcceptUpsert(h)
              \/ BlockCheckOwn(h) \/ BlockCreate(h) \/ BlockSever(h) \/ BlockSweep(h)
              \/ Abort(h) \/ \E u \in User, r \in friendRequest : AcceptFind(h, u, r)
       PROVE  UNCHANGED tables
  BY <1>11 DEF SendCheckFriends, SendCheckPending, AcceptSweep, AcceptUpsert, BlockCheckOwn,
     BlockCreate, BlockSever, BlockSweep, Abort, AcceptFind
<1>. QED
  BY <1>3, <1>4, <1>5, <1>6, <1>7, <1>8, <1>9, <1>10, <1>11 DEF Handler, Proceed

\* One handler at a time, the statements of the friends and blocks modules carry out
\* the atomic rules, for any set of Users: a Block severs and sweeps, a second request
\* in either direction is refused, an accept leaves none.
THEOREM GraphImplementsRules == MCInit /\ [][MCNext]_MCVars => ImplementsRules
<1>1. MCInit => Rules!Init
  <2> SUFFICES ASSUME MCInit PROVE Rules!Init
    OBVIOUS
  <2>. QED  BY DEF MCInit, Init, Rules!Init
<1>2. MCInv /\ [MCNext]_MCVars => [alone => Rules!Next]_(Rules!vars)
  <2> SUFFICES ASSUME MCInv, [MCNext]_MCVars, alone
               PROVE  Rules!Next \/ UNCHANGED Rules!vars
    OBVIOUS
  <2>1. CASE UNCHANGED MCVars
    BY <2>1, TablesStutter DEF MCVars, vars, tables
  <2>2. CASE MCNext
    BY <2>2, HandlerImplements DEF MCNext
  <2>. QED  BY <2>1, <2>2
<1>. QED  BY <1>1, <1>2, MCInductive, PTL DEF ImplementsRules

----------------------------------------------------------------------------
(* On the screens.  They are not composed with the handlers above: their   *)
(* module comes in as an instance, with variables of its own.  It calls    *)
(* User what is Person here, the Users other than the one at the screen.   *)
CONSTANTS Person, Call, NotRead, Nobody, MaxChanges
VARIABLES tie, blocks, blockedBy, changes, tab, over, board, busyKey, friend, blocked,
          busyUsername, call, behind

P == INSTANCE PeopleScreens WITH User <- Person

\* What the types are: a tie to another User, the requests a list shows, a call.
TieKind == P!Request \cup {"friend", "none"}
Ties == [kind : TieKind, n : Nat \ {0}]
Lists == SUBSET [user : Person, n : Nat \ {0}, direction : P!Request]
ActionCall == {"send", "accept", "remove", "unfriend", "block", "unblock"}
Calls ==
    [kind : P!List \cup ActionCall \cup {"none"}, user : Person \cup {Nobody}, n : Nat,
     phase : {"none", "loading", "sent", "done", "refused"}, own : BOOLEAN,
     requests : Lists \cup {NotRead}, rows : (SUBSET Person) \cup {NotRead},
     old : BOOLEAN, news : BOOLEAN]

\* What a call is of follows from its kind.
CallOK(r) ==
    /\ r.kind = "none" <=> r.phase = "none"
    /\ r.kind \in P!List => r.phase = "loading"
    /\ r.phase = "loading" => r.kind \in P!BoardCall \cup P!List
    /\ r.kind \in ActionCall \cup {"friend"} => r.user \in Person
    /\ r.kind \in {"accept", "remove"} => r.n # 0
    /\ r.kind \in ActionCall \ {"accept", "remove"} => r.n = 0
    /\ r.kind = "board" => r.own

\* What can be over the tabs.
Screens ==
    {P!NoScreen} \cup [kind : {"friend"}, user : Person]
                  \cup [kind : {"blocked"}, user : {Nobody}]

\* What the proofs need of the types; an unblock drops a row and keeps the rest.
Typed ==
    /\ tie \in [Person -> Ties]
    /\ blocks \subseteq Person
    /\ call \in [Call -> Calls] /\ \A c \in Call : CallOK(call[c])
    /\ board.status = "loaded" => board.requests \in Lists
    /\ "state" \in DOMAIN friend
    /\ blocked.status = "loaded" => blocked = P!Loaded(blocked.requests, blocked.rows)
    /\ over \in Screens

LEMMA ListTyped == Typed => P!listForUser \in Lists
  BY SMTT(20) DEF Typed, Ties, TieKind, P!listForUser, Lists, P!Request

\* Two calls that ask the same, whatever was read and is known of them.
Same(r, s) ==
    /\ r.kind = s.kind /\ r.user = s.user /\ r.n = s.n /\ r.phase = s.phase
    /\ r.own <=> s.own

LEMMA AgedTyped ==
    ASSUME Typed
    PROVE  /\ P!Aged \in [Call -> Calls]
           /\ \A c \in Call :
                 /\ CallOK(P!Aged[c]) /\ Same(P!Aged[c], call[c])
                 /\ P!Aged[c].news <=> call[c].news
                 /\ P!Aged[c].requests = call[c].requests /\ P!Aged[c].rows = call[c].rows
                 /\ ~P!Aged[c].old => /\ ~call[c].old /\ call[c].requests = NotRead
                                      /\ call[c].rows = NotRead
  <1>1. \A c \in Call : call[c] \in Calls /\ CallOK(call[c])
    BY DEF Typed
  <1>2. ASSUME NEW c \in Call
        PROVE  /\ P!Aged[c] \in Calls /\ Same(P!Aged[c], call[c])
               /\ P!Aged[c].news <=> call[c].news
               /\ P!Aged[c].requests = call[c].requests /\ P!Aged[c].rows = call[c].rows
               /\ ~P!Aged[c].old => /\ ~call[c].old /\ call[c].requests = NotRead
                                    /\ call[c].rows = NotRead
    <2> DEFINE old == call[c].old \/ call[c].requests # NotRead \/ call[c].rows # NotRead
    <2>1. PICK r \in Calls : r = call[c]
      BY <1>1, <1>2
    <2>2. old \in BOOLEAN
      BY <2>1 DEF Calls
    <2>3. P!Aged[c] = [r EXCEPT !.old = old]
      BY <1>2, <2>1 DEF P!Aged
    <2> HIDE DEF old
    <2>4. /\ [r EXCEPT !.old = old] \in Calls
          /\ [r EXCEPT !.old = old].old = old
          /\ Same([r EXCEPT !.old = old], r)
          /\ [r EXCEPT !.old = old].news = r.news
          /\ [r EXCEPT !.old = old].requests = r.requests
          /\ [r EXCEPT !.old = old].rows = r.rows
      BY <2>2 DEF Calls, Same
    <2> QED
      BY <2>1, <2>3, <2>4 DEF old
  <1>3. P!Aged \in [Call -> Calls]
    BY <1>2 DEF P!Aged
  <1> QED
    BY <1>1, <1>2, <1>3 DEF CallOK, Same

LEMMA InitTyped == P!Init => Typed
  <1> SUFFICES ASSUME P!Init PROVE Typed
    OBVIOUS
  <1>1. P!NoCall \in Calls /\ CallOK(P!NoCall)
    BY DEF P!NoCall, Calls, CallOK, P!List, P!BoardCall, ActionCall
  <1>2. tie \in [Person -> Ties]
    BY DEF P!Init, P!Tie, Ties, TieKind, P!Request
  <1> QED
    BY <1>1, <1>2 DEF P!Init, Typed, P!Loading, P!NewFriend, Screens

\* A load that starts.
LEMMA Started ==
    ASSUME NEW kind \in P!List, NEW u \in Person \cup {Nobody}, kind = "friend" => u \in Person
    PROVE  P!Load(kind, u) \in Calls /\ CallOK(P!Load(kind, u))
  BY DEF P!Load, P!NoCall, Calls, CallOK, P!List, P!BoardCall, ActionCall

LEMMA GrantedTyped ==
    ASSUME Typed, NEW c \in Call, call[c].phase = "sent", P!Granted(call[c])
    PROVE  P!Became(call[c]) \in Ties /\ call[c].user \in Person /\ call[c].kind \in ActionCall
  <1>1. call[c] \in Calls /\ CallOK(call[c]) /\ tie \in [Person -> Ties]
    BY DEF Typed
  <1>2. call[c].kind \in ActionCall /\ call[c].user \in Person
    BY <1>1 DEF CallOK, Calls, P!List, P!BoardCall, ActionCall
  <1>3. tie[call[c].user] \in Ties /\ tie[call[c].user].n \in Nat \ {0}
    BY <1>1, <1>2 DEF Ties
  <1>4. P!Tie("outgoing", tie[call[c].user].n + 1) \in Ties
        /\ P!Tie("none", tie[call[c].user].n) \in Ties
    BY <1>3 DEF P!Tie, Ties, TieKind, P!Request
  <1>5. call[c].kind = "accept" => P!Tie("friend", call[c].n) \in Ties
    BY <1>1 DEF P!Tie, Ties, TieKind, CallOK, Calls
  <1> QED
    BY <1>2, <1>3, <1>4, <1>5 DEF P!Became, ActionCall

\* What the server does, whichever call it is for.
LEMMA ServedTyped == ASSUME Typed, NEW c \in Call, P!Served(c) PROVE Typed'
  <1>1. /\ call \in [Call -> Calls] /\ CallOK(call[c])
        /\ call[c].phase = "sent" /\ UNCHANGED P!screens
    BY DEF P!Served, Typed
  <1>2. CASE P!Granted(call[c])
    <2>1. /\ tie' = [tie EXCEPT ![call[c].user] = P!Became(call[c])]
          /\ blocks' \in {blocks, blocks \cup {call[c].user}, blocks \ {call[c].user}}
          /\ call' = [P!Aged EXCEPT ![c].phase = "done"]
      BY <1>2 DEF P!Served, P!Store
    <2>2. tie' \in [Person -> Ties] /\ blocks' \subseteq Person
      BY <1>1, <1>2, <2>1, GrantedTyped DEF Typed
    <2>3. call' \in [Call -> Calls] /\ \A d \in Call : CallOK(call'[d])
      <3>1. /\ P!Aged[c] \in Calls /\ CallOK(P!Aged[c])
            /\ P!Aged[c].phase = "sent"
            /\ P!Aged \in [Call -> Calls] /\ \A d \in Call : CallOK(P!Aged[d])
        BY <1>1, AgedTyped DEF Same
      <3>2. /\ [P!Aged[c] EXCEPT !.phase = "done"] \in Calls
            /\ CallOK([P!Aged[c] EXCEPT !.phase = "done"])
        BY <3>1 DEF Calls, CallOK, P!List, P!BoardCall
      <3>3. call' = [P!Aged EXCEPT ![c] = [P!Aged[c] EXCEPT !.phase = "done"]]
        BY <2>1, <3>1
      <3> QED
        BY <3>1, <3>2, <3>3
    <2> QED
      BY <1>1, <2>2, <2>3 DEF Typed, P!screens
  <1>3. CASE ~P!Granted(call[c])
    <2>1. call' = [call EXCEPT ![c] = [call[c] EXCEPT !.phase = "refused"]] /\ UNCHANGED P!server
      BY <1>1, <1>3 DEF P!Served
    <2>2. LET r == [call[c] EXCEPT !.phase = "refused"] IN r \in Calls /\ CallOK(r)
      BY <1>1 DEF Calls, CallOK, P!List, P!BoardCall
    <2> QED
      BY <1>1, <2>1, <2>2 DEF Typed, P!screens, P!server
  <1> QED
    BY <1>2, <1>3

LEMMA ElsewhereTyped == ASSUME Typed, P!Elsewhere PROVE Typed'
  <1>1. PICK u \in Person, t \in Ties : tie' = [tie EXCEPT ![u] = t]
    <2>1. ASSUME NEW u \in Person
          PROVE  /\ tie[u].n \in Nat \ {0} /\ tie[u] \in Ties
                 /\ P!Tie("incoming", tie[u].n + 1) \in Ties
                 /\ P!Tie("friend", tie[u].n) \in Ties /\ P!Tie("none", tie[u].n) \in Ties
      <3>1. tie[u] \in Ties /\ tie[u].n \in Nat \ {0}
        BY DEF Typed, Ties
      <3> QED
        BY <3>1 DEF P!Tie, Ties, TieKind, P!Request
    <2>2. \E u \in Person : \E t \in {P!Tie("incoming", tie[u].n + 1), P!Tie("friend", tie[u].n),
                                    P!Tie("none", tie[u].n), tie[u]} :
              tie' = [tie EXCEPT ![u] = t]
      BY DEF P!Elsewhere, P!Store
    <2> QED
      BY <2>1, <2>2
  <1>2. blocks' \subseteq Person
    BY DEF P!Elsewhere, P!Store, Typed
  <1>3. call' \in [Call -> Calls] /\ \A d \in Call : CallOK(call'[d])
    <2>1. call' = [d \in Call |-> [P!Aged[d] EXCEPT !.news = (call[d] # P!NoCall)]]
      BY DEF P!Elsewhere
    <2>2. ASSUME NEW r \in Calls, CallOK(r), NEW news \in BOOLEAN
          PROVE  [r EXCEPT !.news = news] \in Calls /\ CallOK([r EXCEPT !.news = news])
      BY <2>2 DEF Calls, CallOK
    <2> QED
      BY <2>1, <2>2, AgedTyped
  <1> QED
    BY <1>1, <1>2, <1>3 DEF Typed, P!Elsewhere, P!screens

----------------------------------------------------------------------------
\* A call c that starts a load of what comes up.
Starts(c, toOver, calls) ==
    /\ calls[c] = P!NoCall
    /\ \E kind \in P!List :
          /\ call' = [calls EXCEPT ![c] = P!Load(kind, toOver.user)]
          /\ kind = "board" => toOver = P!NoScreen
          /\ kind = "friend" => toOver.kind = "friend"
          /\ kind = "blocked" => toOver.kind = "blocked"

\* What going somewhere does: at most one load starts, and one does on coming to the
\* Leaderboard.
LEMMA GoIs ==
    ASSUME NEW toTab, NEW toOver \in Screens, NEW calls, P!Go(toTab, toOver, calls)
    PROVE  /\ tab' = toTab /\ over' = toOver
           /\ friend' = P!NewFriend /\ blocked' = P!Loading /\ busyUsername' = Nobody
           /\ board' = board \/ board' = P!Loading
           /\ call' = calls \/ \E c \in Call : Starts(c, toOver, calls)
           /\ toOver = P!NoScreen /\ toTab = "leaderboard" /\ <<toTab, toOver>> # <<tab, over>> =>
                  \E c \in Call :
                      /\ calls[c] = P!NoCall
                      /\ call' = [calls EXCEPT ![c] = P!Load("board", toOver.user)]
  <1>1. CASE toOver = P!NoScreen /\ toTab = "leaderboard" /\ <<toTab, toOver>> # <<tab, over>>
    BY <1>1 DEF P!Go, Starts, P!List
  <1>2. CASE toOver = P!NoScreen /\ ~(toTab = "leaderboard" /\ <<toTab, toOver>> # <<tab, over>>)
    BY <1>2 DEF P!Go, Starts, P!List
  <1>3. CASE toOver # P!NoScreen
    <2>1. toOver.kind \in {"friend", "blocked"} /\ toOver.kind # "none" /\ toOver.kind # "board"
      BY <1>3 DEF Screens
    <2> QED
      BY <1>3, <2>1 DEF P!Go, Starts, P!List
  <1> QED
    BY <1>1, <1>2, <1>3

LEMMA GoTyped ==
    ASSUME Typed, NEW toTab, NEW toOver \in Screens, NEW calls \in [Call -> Calls],
           \A c \in Call : CallOK(calls[c]), P!Go(toTab, toOver, calls), UNCHANGED P!server
    PROVE  Typed'
  <1>1. toOver.user \in Person \cup {Nobody} /\ (toOver.kind = "friend" => toOver.user \in Person)
    BY DEF Screens, P!NoScreen
  <1>2. call' \in [Call -> Calls] /\ \A c \in Call : CallOK(call'[c])
    <2>1. CASE call' = calls
      BY <2>1
    <2>2. CASE \E c \in Call : Starts(c, toOver, calls)
      <3>1. PICK c \in Call, kind \in P!List :
                /\ call' = [calls EXCEPT ![c] = P!Load(kind, toOver.user)]
                /\ kind = "friend" => toOver.user \in Person
        BY <1>1, <2>2 DEF Starts
      <3> QED
        BY <1>1, <3>1, Started
    <2> QED
      BY <2>1, <2>2, GoIs
  <1>3. over' \in Screens
    BY GoIs
  <1>4. (board' = board \/ board' = P!Loading) /\ blocked' = P!Loading
    BY GoIs
  <1>5. (board.status = "loaded" => board.requests \in Lists)'
    BY <1>4 DEF Typed, P!Loading
  <1>6. (blocked.status = "loaded" => blocked = P!Loaded(blocked.requests, blocked.rows))'
    BY <1>4 DEF P!Loading
  <1>7. ("state" \in DOMAIN friend)'
    BY GoIs DEF P!NewFriend
  <1> QED
    BY <1>2, <1>3, <1>5, <1>6, <1>7 DEF Typed, P!server

\* What going back leaves of the calls.
Left(calls) == [c \in Call |-> IF calls[c].kind \in P!BoardCall \cup {"none"}
                               THEN calls[c] ELSE [calls[c] EXCEPT !.own = FALSE]]

LEMMA LeftTyped ==
    ASSUME NEW calls \in [Call -> Calls], \A c \in Call : CallOK(calls[c])
    PROVE  Left(calls) \in [Call -> Calls] /\ \A c \in Call : CallOK(Left(calls)[c])
  <1>1. ASSUME NEW r \in Calls, CallOK(r), r.kind \notin P!BoardCall
        PROVE  [r EXCEPT !.own = FALSE] \in Calls /\ CallOK([r EXCEPT !.own = FALSE])
    BY <1>1 DEF Calls, CallOK, P!BoardCall
  <1> QED
    BY <1>1 DEF Left

LEMMA BackIs ==
    ASSUME NEW calls, P!Back(calls)
    PROVE  \/ over = P!NoScreen /\ \E t \in {tab, "profile"} : P!Go(t, P!NoScreen, calls)
           \/ over # P!NoScreen /\ P!Go(tab, P!NoScreen, Left(calls))
  BY DEF P!Back, Left

LEMMA BackTyped ==
    ASSUME Typed, NEW calls \in [Call -> Calls], \A c \in Call : CallOK(calls[c]),
           P!Back(calls), UNCHANGED P!server
    PROVE  Typed'
  <1>1. P!NoScreen \in Screens
    BY DEF Screens
  <1> QED
    BY <1>1, BackIs, GoTyped, LeftTyped

LEMMA MovesTyped ==
    ASSUME Typed, P!PressTab \/ P!PressBack \/ P!onViewExpenses \/ P!openBlockedAccounts
    PROVE  Typed'
  <1>1. call \in [Call -> Calls] /\ \A c \in Call : CallOK(call[c])
    BY DEF Typed
  <1>2. P!NoScreen \in Screens /\ [kind |-> "blocked", user |-> Nobody] \in Screens
        /\ \A u \in Person : [kind |-> "friend", user |-> u] \in Screens
    BY DEF Screens
  <1>3. CASE P!PressTab
    <2>1. \E t : P!Go(t, P!NoScreen, call) /\ UNCHANGED P!server
      BY <1>3 DEF P!PressTab
    <2> QED
      BY <1>1, <1>2, <2>1, GoTyped
  <1>4. CASE P!PressBack
    BY <1>1, <1>4, BackTyped DEF P!PressBack
  <1>5. CASE P!onViewExpenses
    BY <1>1, <1>2, <1>5, GoTyped DEF P!onViewExpenses
  <1>6. CASE P!openBlockedAccounts
    BY <1>1, <1>2, <1>6, GoTyped DEF P!openBlockedAccounts
  <1> QED
    BY <1>3, <1>4, <1>5, <1>6

LEMMA NoCallTyped == P!NoCall \in Calls /\ CallOK(P!NoCall)
  BY DEF P!NoCall, Calls, CallOK, P!List, P!BoardCall, ActionCall

LEMMA ReadsTyped ==
    ASSUME Typed, NEW c \in Call, P!ReadRequests(c) \/ P!ReadRows(c)
    PROVE  Typed'
  <1>1. call \in [Call -> Calls] /\ \A d \in Call : CallOK(call[d])
    BY DEF Typed
  <1>2. UNCHANGED <<P!server, P!screens>>
    BY DEF P!ReadRequests, P!ReadRows
  <1>3. CASE P!ReadRequests(c)
    <2>1. call' = [call EXCEPT ![c] = [call[c] EXCEPT !.requests = P!listForUser]]
      BY <1>1, <1>3 DEF P!ReadRequests
    <2>2. LET r == [call[c] EXCEPT !.requests = P!listForUser] IN r \in Calls /\ CallOK(r)
      BY <1>1, ListTyped DEF Calls, CallOK
    <2> QED
      BY <1>1, <1>2, <2>1, <2>2 DEF Typed, P!server, P!screens
  <1>4. CASE P!ReadRows(c)
    <2>1. PICK rows \in SUBSET Person :
              call' = [call EXCEPT ![c] = [call[c] EXCEPT !.rows = rows]]
      <3>1. call[c].phase = "loading" /\ call[c] \in Calls /\ CallOK(call[c])
        BY <1>1, <1>4 DEF P!ReadRows
      <3>2. P!ListOf(call[c]) \in P!List
        BY <3>1 DEF P!ListOf, CallOK, P!List
      <3>3. call' = [call EXCEPT ![c] = [call[c] EXCEPT !.rows =
                CASE P!ListOf(call[c]) = "board"   -> P!participants
                  [] P!ListOf(call[c]) = "friend"  -> {u \in {call[c].user} : P!MayRead(u)}
                  [] P!ListOf(call[c]) = "blocked" -> blocks]]
        BY <1>1, <1>4 DEF P!ReadRows
      <3>4. P!ListOf(call[c]) = "friend" => {u \in {call[c].user} : P!MayRead(u)} \subseteq Person
        BY <3>1 DEF P!ListOf, CallOK
      <3>5. P!participants \subseteq Person /\ blocks \subseteq Person
        BY DEF P!participants, Typed
      <3> QED
        BY <3>2, <3>3, <3>4, <3>5 DEF P!List
    <2>2. LET r == [call[c] EXCEPT !.rows = rows] IN r \in Calls /\ CallOK(r)
      BY <1>1 DEF Calls, CallOK
    <2> QED
      BY <1>1, <1>2, <2>1, <2>2 DEF Typed, P!server, P!screens
  <1> QED
    BY <1>3, <1>4

LEMMA RetryTyped == ASSUME Typed, P!Retry PROVE Typed'
  <1>1. PICK c \in Call :
            call' = [call EXCEPT ![c] =
                P!Load(IF over = P!NoScreen THEN "board" ELSE over.kind, over.user)]
    BY DEF P!Retry
  <1>2. over = P!NoScreen \/ over.kind \in {"friend", "blocked"}
    BY DEF Typed, Screens
  <1> DEFINE kind == IF over = P!NoScreen THEN "board" ELSE over.kind
  <1>3. P!Load(kind, over.user) \in Calls /\ CallOK(P!Load(kind, over.user))
    <2>1. over.user \in Person \cup {Nobody} /\ (over.kind = "friend" => over.user \in Person)
      BY DEF Typed, Screens, P!NoScreen
    <2> QED
      <3>1. kind \in P!List /\ (kind = "friend" => over.user \in Person)
        BY <1>2, <2>1 DEF P!List
      <3> HIDE DEF kind
      <3> QED
        BY <2>1, <3>1, Started
  <1>4. (board' = board \/ board' = P!Loading) /\ (blocked' = blocked \/ blocked' = P!Loading)
    BY DEF P!Retry
  <1>5. call' \in [Call -> Calls] /\ \A d \in Call : CallOK(call'[d])
    BY <1>1, <1>3 DEF Typed
  <1> QED
    BY <1>4, <1>5 DEF Typed, P!Retry, P!Loading, P!server

\* What an answer, or none, leaves on screen.
LEMMA ArrivesTyped ==
    ASSUME Typed, NEW c \in Call, P!LoadArrives(c) \/ P!LoadFails(c)
    PROVE  Typed'
  <1>1. call \in [Call -> Calls] /\ \A d \in Call : CallOK(call[d])
    BY DEF Typed
  <1>2. PICK state, calls :
            /\ P!Shows(c, state, calls)
            /\ \/ /\ state = P!Loaded(call[c].requests, call[c].rows) /\ calls = call
                  /\ call[c].rows # NotRead
                  /\ call[c].kind \in P!BoardCall => call[c].requests # NotRead
               \/ /\ state = P!Failed
                  /\ calls \in {call, [d \in Call |->
                          IF call[c].kind \in P!BoardCall /\ call[d].kind = "send"
                          THEN [call[d] EXCEPT !.own = FALSE] ELSE call[d]]}
    BY DEF P!LoadArrives, P!LoadFails
  <1>3. calls \in [Call -> Calls] /\ \A d \in Call : CallOK(calls[d])
    <2>1. ASSUME NEW d \in Call, call[d].kind = "send"
          PROVE  LET r == [call[d] EXCEPT !.own = FALSE] IN r \in Calls /\ CallOK(r)
      BY <1>1, <2>1 DEF Calls, CallOK
    <2> QED
      BY <1>1, <1>2, <2>1
  <1>4. call' \in [Call -> Calls] /\ \A d \in Call : CallOK(call'[d])
    BY <1>2, <1>3, NoCallTyped DEF P!Shows
  <1>5. (board.status = "loaded" => board.requests \in Lists)'
    <2>1. board' = board \/ (board' = state /\ P!ListOf(call[c]) = "board")
      BY <1>2 DEF P!Shows
    <2>2. CASE state = P!Failed
      BY <2>1, <2>2 DEF P!Failed, Typed
    <2>3. CASE state = P!Loaded(call[c].requests, call[c].rows)
               /\ (call[c].kind \in P!BoardCall => call[c].requests # NotRead)
      <3>1. call[c].kind \in P!BoardCall => call[c].requests \in Lists
        BY <1>1, <2>3 DEF Calls
      <3>2. P!ListOf(call[c]) = "board" => call[c].kind \in P!BoardCall
        BY DEF P!ListOf, P!BoardCall
      <3> QED
        BY <2>1, <2>3, <3>1, <3>2 DEF P!Loaded, Typed
    <2> QED
      BY <1>2, <2>2, <2>3
  <1>6. (blocked.status = "loaded" => blocked = P!Loaded(blocked.requests, blocked.rows))'
    <2>1. blocked' = blocked \/ blocked' = state
      BY <1>2 DEF P!Shows
    <2> QED
      BY <1>2, <2>1 DEF P!Loaded, P!Failed, Typed
  <1> QED
    BY <1>2, <1>4, <1>5, <1>6 DEF P!Shows, Typed, P!server

\* Other calls that a call for a row was pressed beside.
Crossed(u, n) ==
    \E d \in Call : P!Acts(call[d]) /\ \/ call[d].news \/ ~call[d].own
                                       \/ <<call[d].user, call[d].n>> # <<u, n>>

\* What a new action leaves of the others, and what it is.
LEMMA AskIs ==
    ASSUME Typed, NEW c \in Call, NEW kind \in ActionCall, NEW u \in Person, NEW n \in Nat,
           kind \in {"accept", "remove"} <=> n # 0,
           NEW list, P!Ask(c, kind, u, n, list)
    PROVE  /\ call' \in [Call -> Calls] /\ \A d \in Call : CallOK(call'[d])
           /\ call[c] = P!NoCall
           /\ call'[c].kind = kind /\ call'[c].user = u /\ call'[c].n = n
           /\ call'[c].phase = "sent" /\ call'[c].own
           /\ call'[c].requests = NotRead /\ call'[c].rows = NotRead
           /\ call'[c].news <=> Crossed(u, n) \/ list \in behind \/ P!Reloading(list)
           /\ \A d \in Call \ {c} :
                 /\ Same(call'[d], call[d])
                 /\ call'[d].requests = call[d].requests /\ call'[d].rows = call[d].rows
                 /\ call'[d].old <=> call[d].old
                 /\ call'[d].news <=> call[d].news \/ (P!Acts(call[d]) /\ Crossed(u, n))
           /\ UNCHANGED <<P!server, tab, over, board, blocked, behind>>
  <1> DEFINE news == Crossed(u, n) \/ list \in behind \/ P!Reloading(list)
             crossed == Crossed(u, n)
             mine == [P!NoCall EXCEPT !.kind = kind, !.user = u, !.n = n,
                                    !.phase = "sent", !.news = news]
             other(d) == [call[d] EXCEPT !.news = call[d].news \/ (P!Acts(call[d]) /\ crossed)]
  <1>1. call' = [[d \in Call |-> other(d)] EXCEPT ![c] = mine]
    BY DEF P!Ask, Crossed
  <1>2. call \in [Call -> Calls] /\ \A d \in Call : CallOK(call[d])
    BY DEF Typed
  <1>3. news \in BOOLEAN /\ crossed \in BOOLEAN
    BY DEF Crossed
  <1> HIDE DEF news, crossed
  <1>4. /\ mine \in Calls /\ CallOK(mine)
        /\ mine.kind = kind /\ mine.user = u /\ mine.n = n
        /\ mine.phase = "sent" /\ mine.own
        /\ mine.requests = NotRead /\ mine.rows = NotRead
        /\ mine.news = news
    BY <1>3 DEF P!NoCall, Calls, CallOK, P!List, P!BoardCall, ActionCall
  <1>5. ASSUME NEW d \in Call
        PROVE  /\ other(d) \in Calls /\ CallOK(other(d)) /\ Same(other(d), call[d])
               /\ other(d).requests = call[d].requests /\ other(d).rows = call[d].rows
               /\ other(d).old = call[d].old
               /\ other(d).news <=> call[d].news \/ (P!Acts(call[d]) /\ crossed)
    <2> DEFINE told == call[d].news \/ (P!Acts(call[d]) /\ crossed)
    <2>1. PICK r \in Calls : r = call[d] /\ CallOK(r)
      BY <1>2, <1>5
    <2>2. told \in BOOLEAN /\ other(d) = [r EXCEPT !.news = told]
      BY <2>1, <1>3 DEF P!Acts, Calls
    <2> HIDE DEF told
    <2>3. LET s == [r EXCEPT !.news = told]
          IN  /\ s \in Calls /\ CallOK(s) /\ Same(s, r)
              /\ s.requests = r.requests /\ s.rows = r.rows /\ s.old = r.old /\ s.news = told
      BY <2>1, <2>2 DEF Calls, CallOK, Same
    <2> HIDE DEF other
    <2> QED
      BY <2>1, <2>2, <2>3 DEF told
  <1> HIDE DEF mine, other
  <1>6. call'[c] = mine /\ call' \in [Call -> Calls] /\ \A d \in Call \ {c} : call'[d] = other(d)
    BY <1>1, <1>4, <1>5
  <1>7. call[c] = P!NoCall /\ UNCHANGED <<P!server, tab, over, board, blocked, behind>>
    BY DEF P!Ask
  <1>8. call'[c].news <=> Crossed(u, n) \/ list \in behind \/ P!Reloading(list)
    BY <1>4, <1>6 DEF news
  <1> QED
    BY <1>4, <1>5, <1>6, <1>7, <1>8 DEF crossed

\* Who is asked about what: an action and the list it is on.
LEMMA AsksAre ==
    ASSUME Typed, NEW c \in Call,
           \/ P!onSend(c) \/ P!runAction(c) \/ P!onUnblock(c)
           \/ P!confirmUnfriend(c) \/ P!confirmBlock(c)
    PROVE  \E kind \in ActionCall, u \in Person, n \in Nat, list \in P!List :
              /\ P!Ask(c, kind, u, n, list)
              /\ kind \in {"accept", "remove"} <=> n # 0
              /\ kind \in {"send", "accept", "remove"} => list = "board" /\ P!BoardUp
              /\ kind \in {"unfriend", "block"} =>
                    list = "friend" /\ over.kind = "friend" /\ over.user = u
              /\ kind = "unblock" =>
                    /\ list = "blocked" /\ over.kind = "blocked" /\ blocked.status = "loaded"
                    /\ u \in blocked.rows /\ u # busyUsername /\ busyUsername' = u
              /\ kind \in {"accept", "remove"} =>
                    /\ <<u, n>> # busyKey /\ busyKey' = <<u, n>>
                    /\ \E request \in board.requests :
                          /\ request.user = u /\ request.n = n
                          /\ kind = "accept" => request.direction = "incoming"
              /\ kind \notin {"accept", "remove"} => busyKey' = busyKey
              /\ kind # "unblock" => busyUsername' = busyUsername
              /\ friend'.state = friend.state /\ DOMAIN friend' = DOMAIN friend
  <1>1. CASE P!onSend(c)
    <2>1. PICK u \in Person : P!Ask(c, "send", u, 0, "board")
      BY <1>1 DEF P!onSend
    <2> QED
      BY <1>1, <2>1 DEF P!onSend, ActionCall, P!List
  <1>2. CASE P!runAction(c)
    <2>1. PICK request \in board.requests, kind \in {"accept", "remove"} :
            /\ P!RequestEnabled(request, kind)
            /\ P!Ask(c, kind, request.user, request.n, "board")
            /\ busyKey' = <<request.user, request.n>>
      BY <1>2 DEF P!runAction
    <2>2. request.user \in Person /\ request.n \in Nat /\ request.n # 0
      BY <1>2, <2>1 DEF P!runAction, P!BoardUp, Typed, Lists
    <2> QED
      BY <1>2, <2>1, <2>2 DEF P!runAction, P!RequestEnabled, ActionCall, P!List
  <1>3. CASE P!confirmUnfriend(c)
    <2>1. over.user \in Person /\ over.kind = "friend"
      BY <1>3 DEF P!confirmUnfriend, P!FriendUp, Typed, Screens, P!NoScreen
    <2> QED
      BY <1>3, <2>1 DEF P!confirmUnfriend, ActionCall, P!List
  <1>4. CASE P!confirmBlock(c)
    <2>1. over.user \in Person /\ over.kind = "friend"
      BY <1>4 DEF P!confirmBlock, P!FriendUp, Typed, Screens, P!NoScreen
    <2> QED
      BY <1>4, <2>1 DEF P!confirmBlock, ActionCall, P!List
  <1>5. CASE P!onUnblock(c)
    <2>1. PICK u \in Person : /\ P!UnblockEnabled(u) /\ P!Ask(c, "unblock", u, 0, "blocked")
                              /\ busyUsername' = u
      BY <1>5 DEF P!onUnblock
    <2> QED
      BY <1>5, <2>1 DEF P!onUnblock, P!BlockedUp, P!UnblockEnabled, ActionCall, P!List
  <1> QED
    BY <1>1, <1>2, <1>3, <1>4, <1>5

LEMMA AsksTyped ==
    ASSUME Typed, NEW c \in Call,
           \/ P!onSend(c) \/ P!runAction(c) \/ P!onUnblock(c)
           \/ P!confirmUnfriend(c) \/ P!confirmBlock(c)
    PROVE  Typed'
  <1>1. PICK kind \in ActionCall, u \in Person, n \in Nat, list \in P!List :
            /\ P!Ask(c, kind, u, n, list) /\ (kind \in {"accept", "remove"} <=> n # 0)
            /\ DOMAIN friend' = DOMAIN friend
    BY AsksAre
  <1>2. /\ call' \in [Call -> Calls] /\ \A d \in Call : CallOK(call'[d])
        /\ UNCHANGED <<P!server, tab, over, board, blocked, behind>>
    BY <1>1, AskIs
  <1> QED
    BY <1>1, <1>2 DEF Typed, P!server

LEMMA DoneTyped ==
    ASSUME Typed, NEW c \in Call,
           P!BoardActionDone(c) \/ P!FriendActionDone(c) \/ P!UnblockDone(c) \/ P!ActionFails(c)
    PROVE  Typed'
  <1>1. call \in [Call -> Calls] /\ \A d \in Call : CallOK(call[d])
    BY DEF Typed
  <1> DEFINE freed == [call EXCEPT ![c] = P!NoCall]
  <1>2. freed \in [Call -> Calls] /\ \A d \in Call : CallOK(freed[d])
    BY <1>1, NoCallTyped
  <1>3. CASE P!BoardActionDone(c)
    <2>1. call' = [call EXCEPT ![c] = [call[c] EXCEPT !.phase = "loading"]]
      BY <1>1, <1>3 DEF P!BoardActionDone
    <2>2. LET r == [call[c] EXCEPT !.phase = "loading"] IN r \in Calls /\ CallOK(r)
      BY <1>1, <1>3 DEF P!BoardActionDone, Calls, CallOK, P!BoardCall, P!List
    <2> QED
      BY <1>1, <1>3, <2>1, <2>2 DEF P!BoardActionDone, Typed, P!server, P!Loading
  <1>4. CASE P!FriendActionDone(c)
    BY <1>2, <1>4, BackTyped DEF P!FriendActionDone
  <1>5. CASE P!UnblockDone(c)
    <2>1. (blocked.status = "loaded" => blocked = P!Loaded(blocked.requests, blocked.rows))'
      BY <1>5 DEF P!UnblockDone, Typed, P!Loaded
    <2> QED
      BY <1>2, <1>5, <2>1 DEF P!UnblockDone, Typed, P!server
  <1>6. CASE P!ActionFails(c)
    BY <1>2, <1>6 DEF P!ActionFails, Typed, P!server
  <1> QED
    BY <1>3, <1>4, <1>5, <1>6

LEMMA StepTyped == Typed /\ [P!Next]_(P!vars) => Typed'
  <1> SUFFICES ASSUME Typed, [P!Next]_(P!vars) PROVE Typed'
    OBVIOUS
  <1>1. CASE P!Next
    BY <1>1, ServedTyped, ElsewhereTyped, MovesTyped, ReadsTyped, RetryTyped, ArrivesTyped,
       AsksTyped, DoneTyped DEF P!Next
  <1>2. CASE UNCHANGED P!vars
    BY <1>2 DEF Typed, P!vars, P!server, P!screens
  <1> QED
    BY <1>1, <1>2

----------------------------------------------------------------------------
(* An answer that no store met holds what the server does.                 *)

\* What the server answers to the second read of a load.
Rows(r) ==
    CASE P!ListOf(r) = "board"   -> P!participants
      [] P!ListOf(r) = "friend"  -> {u \in {r.user} : P!MayRead(u)}
      [] P!ListOf(r) = "blocked" -> blocks
\* What a load has read and no store aged is what the server holds.
LoadsFresh ==
    \A c \in Call : ~call[c].old =>
        /\ call[c].requests # NotRead => call[c].requests = P!listForUser
        /\ call[c].rows # NotRead => call[c].rows = Rows(call[c])

\* Nothing was read for call c, or everything it read is forgotten.
Untouched(c) ==
    /\ call'[c].kind = call[c].kind /\ call'[c].user = call[c].user
    /\ call'[c].requests = call[c].requests /\ call'[c].rows = call[c].rows
    /\ call'[c].old <=> call[c].old
Unread(c) == call'[c].requests = NotRead /\ call'[c].rows = NotRead

LEMMA FreshKept ==
    ASSUME LoadsFresh, UNCHANGED P!server, \A c \in Call : Untouched(c) \/ Unread(c)
    PROVE  LoadsFresh'
  <1>1. /\ P!listForUser' = P!listForUser /\ P!participants' = P!participants
        /\ blocks' = blocks
        /\ \A u : P!MayRead(u)' <=> P!MayRead(u)
    BY DEF P!server, P!listForUser, P!participants, P!MayRead, P!Invisible
  <1>2. ASSUME NEW c \in Call, Untouched(c)
        PROVE  Rows(call[c])' = Rows(call[c])
    <2>1. P!ListOf(call[c])' = P!ListOf(call[c]) /\ call'[c].user = call[c].user
      BY <1>2 DEF Untouched, P!ListOf
    <2> QED
      BY <1>1, <2>1 DEF Rows
  <1>3. ASSUME NEW c \in Call, ~call'[c].old
        PROVE  /\ call'[c].requests # NotRead => call'[c].requests = P!listForUser'
               /\ call'[c].rows # NotRead => call'[c].rows = Rows(call[c])'
    <2>1. CASE Untouched(c)
      BY <1>1, <1>2, <1>3, <2>1 DEF Untouched, LoadsFresh
    <2>2. CASE Unread(c)
      BY <2>2 DEF Unread
    <2> QED
      BY <2>1, <2>2
  <1> QED
    BY <1>3 DEF LoadsFresh

LEMMA StoresFresh ==
    ASSUME Typed, \A c \in Call : ~call'[c].old =>
               call'[c].requests = NotRead /\ call'[c].rows = NotRead
    PROVE  LoadsFresh'
  BY DEF LoadsFresh

\* Going somewhere.
LEMMA GoFresh ==
    ASSUME Typed, LoadsFresh, NEW toTab, NEW toOver \in Screens, NEW calls \in [Call -> Calls],
           \A c \in Call : \/ /\ calls[c].kind = call[c].kind /\ calls[c].user = call[c].user
                              /\ calls[c].requests = call[c].requests
                              /\ calls[c].rows = call[c].rows
                              /\ calls[c].old <=> call[c].old
                           \/ calls[c] = P!NoCall,
           P!Go(toTab, toOver, calls), UNCHANGED P!server
    PROVE  LoadsFresh'
  <1>1. P!NoCall.requests = NotRead /\ P!NoCall.rows = NotRead
        /\ \A kind, u : P!Load(kind, u).requests = NotRead /\ P!Load(kind, u).rows = NotRead
    BY DEF P!NoCall, P!Load
  <1>2. ASSUME NEW c \in Call PROVE Untouched(c) \/ Unread(c)
    <2>1. CASE call' = calls
      BY <1>1, <2>1 DEF Untouched, Unread
    <2>2. CASE \E d \in Call : Starts(d, toOver, calls)
      <3>1. PICK d \in Call, kind \in P!List :
                call' = [calls EXCEPT ![d] = P!Load(kind, toOver.user)]
        BY <2>2 DEF Starts
      <3> QED
        BY <1>1, <3>1 DEF Untouched, Unread
    <2> QED
      BY <2>1, <2>2, GoIs
  <1> QED
    BY <1>2, FreshKept

LEMMA LeftIs ==
    ASSUME NEW calls \in [Call -> Calls], NEW c \in Call
    PROVE  LET r == Left(calls)[c] IN
           /\ r.kind = calls[c].kind /\ r.user = calls[c].user /\ r.n = calls[c].n
           /\ r.phase = calls[c].phase
           /\ r.requests = calls[c].requests /\ r.rows = calls[c].rows
           /\ r.old = calls[c].old /\ r.news = calls[c].news
           /\ r.own => calls[c].own /\ r.kind \in P!BoardCall \cup {"none"}
           /\ calls[c].kind \in P!BoardCall \cup {"none"} => r = calls[c]
  <1>1. PICK r \in Calls : r = calls[c]
    OBVIOUS
  <1>2. LET s == [r EXCEPT !.own = FALSE] IN
           /\ s.kind = r.kind /\ s.user = r.user /\ s.n = r.n
           /\ s.phase = r.phase
           /\ s.requests = r.requests /\ s.rows = r.rows
           /\ s.old = r.old /\ s.news = r.news /\ ~s.own
    BY DEF Calls
  <1> QED
    BY <1>1, <1>2 DEF Left

\* Every way of going somewhere, with the calls it leaves.
Goes(toTab, toOver, calls, after) ==
    /\ P!Go(toTab, toOver, after)
    /\ \/ over = P!NoScreen /\ after = calls
       \/ over # P!NoScreen /\ toOver = P!NoScreen /\ after = Left(calls)

LEMMA BackGoes ==
    ASSUME NEW calls, P!Back(calls)
    PROVE  \E toTab, after : \E toOver \in Screens : Goes(toTab, toOver, calls, after)
  <1>1. P!NoScreen \in Screens
    BY DEF Screens
  <1>2. CASE over = P!NoScreen
    <2>1. PICK t \in {tab, "profile"} : P!Go(t, P!NoScreen, calls)
      BY <1>2, BackIs
    <2>2. Goes(t, P!NoScreen, calls, calls)
      BY <1>2, <2>1 DEF Goes
    <2> QED
      BY <1>1, <2>2
  <1>3. CASE over # P!NoScreen
    <2>1. Goes(tab, P!NoScreen, calls, Left(calls))
      BY <1>3, BackIs DEF Goes
    <2> QED
      BY <1>1, <2>1
  <1> QED
    BY <1>2, <1>3

LEMMA MoveGoes ==
    ASSUME P!PressTab \/ P!PressBack \/ P!onViewExpenses \/ P!openBlockedAccounts
    PROVE  /\ UNCHANGED <<P!server, busyKey, behind>>
           /\ \E toTab, after : \E toOver \in Screens : Goes(toTab, toOver, call, after)
  <1>1. UNCHANGED <<P!server, busyKey, behind>>
    BY DEF P!PressTab, P!PressBack, P!onViewExpenses, P!openBlockedAccounts
  <1>2. CASE P!PressTab
    <2>1. over = P!NoScreen /\ \E t : P!Go(t, P!NoScreen, call)
      BY <1>2 DEF P!PressTab
    <2>2. \E t : Goes(t, P!NoScreen, call, call)
      BY <2>1 DEF Goes
    <2> QED
      BY <1>1, <2>2 DEF Screens
  <1>3. CASE P!PressBack
    BY <1>1, <1>3, BackGoes DEF P!PressBack
  <1>4. CASE P!onViewExpenses
    <2>1. PICK u \in Person : over = P!NoScreen /\ P!Go(tab, [kind |-> "friend", user |-> u], call)
      BY <1>4 DEF P!onViewExpenses, P!BoardUp
    <2>2. [kind |-> "friend", user |-> u] \in Screens
      BY DEF Screens
    <2>3. Goes(tab, [kind |-> "friend", user |-> u], call, call)
      BY <2>1 DEF Goes
    <2> QED
      BY <1>1, <2>2, <2>3
  <1>5. CASE P!openBlockedAccounts
    <2>1. over = P!NoScreen /\ P!Go(tab, [kind |-> "blocked", user |-> Nobody], call)
      BY <1>5 DEF P!openBlockedAccounts
    <2>2. [kind |-> "blocked", user |-> Nobody] \in Screens
      BY DEF Screens
    <2>3. Goes(tab, [kind |-> "blocked", user |-> Nobody], call, call)
      BY <2>1 DEF Goes
    <2> QED
      BY <1>1, <2>2, <2>3
  <1> QED
    BY <1>2, <1>3, <1>4, <1>5

LEMMA StepFresh == Typed /\ LoadsFresh /\ [P!Next]_(P!vars) => LoadsFresh'
  <1> SUFFICES ASSUME Typed, LoadsFresh, [P!Next]_(P!vars) PROVE LoadsFresh'
    OBVIOUS
  <1> USE DEF Untouched, Unread
  <1>1. call \in [Call -> Calls] /\ \A c \in Call : call[c] \in Calls
    BY DEF Typed
  <1>2. P!NoCall.requests = NotRead /\ P!NoCall.rows = NotRead
        /\ \A kind, u : P!Load(kind, u).requests = NotRead /\ P!Load(kind, u).rows = NotRead
    BY DEF P!NoCall, P!Load
  <1>3. ASSUME NEW c \in Call, P!Served(c) PROVE LoadsFresh'
    <2>1. CASE P!Granted(call[c])
      <3>1. call' = [P!Aged EXCEPT ![c] = [P!Aged[c] EXCEPT !.phase = "done"]]
        BY <1>3, <2>1, AgedTyped DEF P!Served
      <3>2. LET r == [P!Aged[c] EXCEPT !.phase = "done"]
            IN  r.old = P!Aged[c].old /\ r.requests = P!Aged[c].requests /\ r.rows = P!Aged[c].rows
        BY AgedTyped DEF Calls
      <3> QED
        BY <3>1, <3>2, AgedTyped, StoresFresh
    <2>2. CASE ~P!Granted(call[c])
      <3>1. call' = [call EXCEPT ![c] = [call[c] EXCEPT !.phase = "refused"]] /\ UNCHANGED P!server
        BY <1>1, <1>3, <2>2 DEF P!Served
      <3>2. LET r == [call[c] EXCEPT !.phase = "refused"]
            IN  /\ r.old = call[c].old /\ r.requests = call[c].requests /\ r.rows = call[c].rows
                /\ r.kind = call[c].kind /\ r.user = call[c].user
        BY <1>1 DEF Calls
      <3> QED
        BY <1>1, <3>1, <3>2, FreshKept
    <2> QED
      BY <2>1, <2>2
  <1>4. ASSUME P!Elsewhere PROVE LoadsFresh'
    <2>1. ASSUME NEW c \in Call
          PROVE  ~call'[c].old => call'[c].requests = NotRead /\ call'[c].rows = NotRead
      <3>1. call'[c] = [P!Aged[c] EXCEPT !.news = (call[c] # P!NoCall)] /\ P!Aged[c] \in Calls
        BY <1>4, <2>1, AgedTyped DEF P!Elsewhere
      <3>2. call'[c].old = P!Aged[c].old /\ call'[c].requests = P!Aged[c].requests
            /\ call'[c].rows = P!Aged[c].rows
        BY <3>1 DEF Calls
      <3> QED
        BY <3>2, AgedTyped
    <2> QED
      BY <2>1, StoresFresh
  <1>5. CASE P!PressTab \/ P!PressBack \/ P!onViewExpenses \/ P!openBlockedAccounts
    <2>1. \E toTab : \E toOver \in Screens, calls \in {call, Left(call)} :
              P!Go(toTab, toOver, calls) /\ UNCHANGED P!server
      BY <1>5, MoveGoes DEF Goes
    <2> QED
      BY <1>1, <2>1, GoFresh, LeftTyped, LeftIs DEF Typed
  <1>6. ASSUME NEW c \in Call, P!ReadRequests(c) PROVE LoadsFresh'
    <2>1. call' = [call EXCEPT ![c] = [call[c] EXCEPT !.requests = P!listForUser]]
          /\ UNCHANGED P!server
      BY <1>1, <1>6 DEF P!ReadRequests
    <2>2. LET r == [call[c] EXCEPT !.requests = P!listForUser]
          IN  /\ r.old = call[c].old /\ r.requests = P!listForUser /\ r.rows = call[c].rows
              /\ r.kind = call[c].kind /\ r.user = call[c].user
      BY <1>1 DEF Calls
    <2>3. /\ P!listForUser' = P!listForUser
          /\ \A d \in Call : Rows(call[d])' = Rows(call[d])
      BY <1>1, <2>1, <2>2
         DEF P!server, P!listForUser, Rows, P!ListOf, P!participants, P!MayRead, P!Invisible
    <2> QED
      BY <1>1, <2>1, <2>2, <2>3 DEF LoadsFresh
  <1>7. ASSUME NEW c \in Call, P!ReadRows(c) PROVE LoadsFresh'
    <2>1. call' = [call EXCEPT ![c] = [call[c] EXCEPT !.rows = Rows(call[c])]] /\ UNCHANGED P!server
      BY <1>1, <1>7 DEF P!ReadRows, Rows
    <2>2. LET r == [call[c] EXCEPT !.rows = Rows(call[c])]
          IN  /\ r.old = call[c].old /\ r.requests = call[c].requests /\ r.rows = Rows(call[c])
              /\ r.kind = call[c].kind /\ r.user = call[c].user
      BY <1>1 DEF Calls
    <2>3. /\ P!listForUser' = P!listForUser
          /\ \A d \in Call : Rows(call[d])' = Rows(call[d])
      BY <1>1, <2>1, <2>2
         DEF P!server, P!listForUser, Rows, P!ListOf, P!participants, P!MayRead, P!Invisible
    <2> QED
      BY <1>1, <2>1, <2>2, <2>3 DEF LoadsFresh
  <1>8. CASE P!Retry
    BY <1>1, <1>2, <1>8, FreshKept DEF P!Retry
  <1>9. ASSUME NEW c \in Call, P!LoadArrives(c) \/ P!LoadFails(c) PROVE LoadsFresh'
    <2>1. PICK calls : /\ call' = [calls EXCEPT ![c] = P!NoCall] /\ UNCHANGED P!server
                       /\ calls \in {call, [d \in Call |->
                          IF call[c].kind \in P!BoardCall /\ call[d].kind = "send"
                          THEN [call[d] EXCEPT !.own = FALSE] ELSE call[d]]}
      BY <1>9 DEF P!LoadArrives, P!LoadFails, P!Shows
    <2>2. ASSUME NEW d \in Call
          PROVE  LET r == [call[d] EXCEPT !.own = FALSE]
                 IN  /\ r.old = call[d].old /\ r.requests = call[d].requests
                     /\ r.rows = call[d].rows /\ r.kind = call[d].kind /\ r.user = call[d].user
      BY <1>1 DEF Calls
    <2>3. ASSUME NEW d \in Call PROVE Untouched(d) \/ Unread(d)
      BY <1>1, <1>2, <2>1, <2>2
    <2> QED
      BY <2>1, <2>3, FreshKept
  <1>10. ASSUME NEW c \in Call,
                \/ P!onSend(c) \/ P!runAction(c) \/ P!onUnblock(c)
                \/ P!confirmUnfriend(c) \/ P!confirmBlock(c)
         PROVE  LoadsFresh'
    <2>1. PICK kind \in ActionCall, u \in Person, n \in Nat, list \in P!List :
            P!Ask(c, kind, u, n, list) /\ (kind \in {"accept", "remove"} <=> n # 0)
      BY <1>10, AsksAre
    <2>2. UNCHANGED P!server /\ \A d \in Call : Untouched(d) \/ Unread(d)
      BY <2>1, AskIs DEF Same
    <2> QED
      BY <2>2, FreshKept
  <1>11. ASSUME NEW c \in Call, P!BoardActionDone(c) PROVE LoadsFresh'
    <2>1. call' = [call EXCEPT ![c] = [call[c] EXCEPT !.phase = "loading"]] /\ UNCHANGED P!server
      BY <1>1, <1>11 DEF P!BoardActionDone
    <2>2. LET r == [call[c] EXCEPT !.phase = "loading"]
          IN  /\ r.old = call[c].old /\ r.requests = call[c].requests /\ r.rows = call[c].rows
              /\ r.kind = call[c].kind /\ r.user = call[c].user
      BY <1>1 DEF Calls
    <2> QED
      BY <1>1, <2>1, <2>2, FreshKept
  <1>12. ASSUME NEW c \in Call, P!FriendActionDone(c) PROVE LoadsFresh'
    <2> DEFINE freed == [call EXCEPT ![c] = P!NoCall]
    <2>1. freed \in [Call -> Calls] /\ \A d \in Call : CallOK(freed[d])
      BY <1>1, NoCallTyped DEF Typed
    <2>2. \E toTab : \E toOver \in Screens, calls \in {freed, Left(freed)} :
              P!Go(toTab, toOver, calls) /\ UNCHANGED P!server
      <3>1. P!Back(freed) /\ UNCHANGED P!server
        BY <1>12 DEF P!FriendActionDone
      <3> HIDE DEF freed
      <3> QED
        BY <3>1, BackGoes DEF Goes
    <2>3. \A d \in Call : freed[d] = call[d] \/ freed[d] = P!NoCall
      BY <1>1
    <2>4. \A d \in Call : \/ /\ Left(freed)[d].kind = call[d].kind
                             /\ Left(freed)[d].user = call[d].user
                             /\ Left(freed)[d].requests = call[d].requests
                             /\ Left(freed)[d].rows = call[d].rows
                             /\ Left(freed)[d].old <=> call[d].old
                          \/ Left(freed)[d] = P!NoCall
      <3>1. P!NoCall.kind = "none"
        BY DEF P!NoCall
      <3> HIDE DEF freed
      <3> QED
        BY <2>1, <2>3, <3>1, LeftIs
    <2> HIDE DEF freed
    <2> QED
      BY <2>1, <2>2, <2>3, <2>4, GoFresh, LeftTyped
  <1>13. ASSUME NEW c \in Call, P!UnblockDone(c) \/ P!ActionFails(c) PROVE LoadsFresh'
    BY <1>1, <1>2, <1>13, FreshKept DEF P!UnblockDone, P!ActionFails
  <1>14. CASE UNCHANGED P!vars
    BY <1>14, FreshKept DEF P!vars
  <1> QED
    BY <1>3, <1>4, <1>5, <1>6, <1>7, <1>8, <1>9, <1>10, <1>11, <1>12, <1>13, <1>14 DEF P!Next

----------------------------------------------------------------------------
(* What each step does to the calls.                                       *)

\* Call c asks what it asked; no news came to it.
Stays(c) ==
    /\ call'[c].kind = call[c].kind /\ call'[c].user = call[c].user /\ call'[c].n = call[c].n
    /\ call'[c].own <=> call[c].own
Told(c) == call'[c].news <=> call[c].news

LEMMA ServedIs ==
    ASSUME Typed, NEW c \in Call, P!Served(c)
    PROVE  /\ call[c].phase = "sent" /\ UNCHANGED P!screens
           /\ \A d \in Call : Stays(d) /\ Told(d) /\ (d # c => call'[d].phase = call[d].phase)
           /\ P!Granted(call[c]) => /\ call'[c].phase = "done"
                                    /\ behind' = IF call[c].own THEN behind ELSE P!List
           /\ ~P!Granted(call[c]) => call'[c].phase = "refused" /\ UNCHANGED <<P!server, behind>>
  <1>1. /\ call \in [Call -> Calls] /\ call[c] \in Calls
        /\ P!Aged \in [Call -> Calls] /\ P!Aged[c] \in Calls
    BY AgedTyped DEF Typed
  <1>2. call[c].phase = "sent" /\ UNCHANGED P!screens
    BY DEF P!Served
  <1>3. ASSUME NEW r \in Calls, NEW phase \in {"done", "refused"}
        PROVE  LET s == [r EXCEPT !.phase = phase]
               IN  /\ s.kind = r.kind /\ s.user = r.user /\ s.n = r.n /\ s.own = r.own
                   /\ s.news = r.news /\ s.phase = phase
    BY DEF Calls
  <1>4. CASE P!Granted(call[c])
    <2>1. call' = [P!Aged EXCEPT ![c] = [P!Aged[c] EXCEPT !.phase = "done"]]
          /\ behind' = IF call[c].own THEN behind ELSE P!List
      BY <1>1, <1>4 DEF P!Served
    <2> QED
      BY <1>1, <1>2, <1>3, <1>4, <2>1, AgedTyped DEF Stays, Told, Same
  <1>5. CASE ~P!Granted(call[c])
    <2>1. call' = [call EXCEPT ![c] = [call[c] EXCEPT !.phase = "refused"]]
          /\ UNCHANGED <<P!server, behind>>
      BY <1>1, <1>5 DEF P!Served
    <2> QED
      BY <1>1, <1>2, <1>3, <1>5, <2>1 DEF Stays, Told
  <1> QED
    BY <1>4, <1>5

LEMMA ElsewhereIs ==
    ASSUME Typed, P!Elsewhere
    PROVE  /\ UNCHANGED P!screens /\ behind' = P!List
           /\ \A c \in Call : /\ Stays(c) /\ call'[c].phase = call[c].phase
                              /\ call[c].kind # "none" => call'[c].news
  <1>1. UNCHANGED P!screens /\ behind' = P!List
    BY DEF P!Elsewhere
  <1>2. ASSUME NEW c \in Call
        PROVE  /\ Stays(c) /\ call'[c].phase = call[c].phase
               /\ call[c].kind # "none" => call'[c].news
    <2>1. call'[c] = [P!Aged[c] EXCEPT !.news = (call[c] # P!NoCall)] /\ P!Aged[c] \in Calls
      BY <1>2, AgedTyped DEF P!Elsewhere
    <2>2. /\ call'[c].kind = P!Aged[c].kind /\ call'[c].user = P!Aged[c].user
          /\ call'[c].n = P!Aged[c].n /\ call'[c].phase = P!Aged[c].phase
          /\ call'[c].own = P!Aged[c].own /\ call'[c].news = (call[c] # P!NoCall)
      BY <2>1 DEF Calls
    <2>3. P!NoCall.kind = "none"
      BY DEF P!NoCall
    <2> QED
      BY <2>2, <2>3, AgedTyped DEF Same, Stays
  <1> QED
    BY <1>1, <1>2

LEMMA ReadsIs ==
    ASSUME Typed, NEW c \in Call, P!ReadRequests(c) \/ P!ReadRows(c)
    PROVE  /\ UNCHANGED <<P!server, P!screens, behind>>
           /\ \A d \in Call : Stays(d) /\ Told(d) /\ call'[d].phase = call[d].phase
  <1>1. call \in [Call -> Calls] /\ call[c] \in Calls
    BY DEF Typed
  <1>2. UNCHANGED <<P!server, P!screens, behind>>
    BY DEF P!ReadRequests, P!ReadRows
  <1>3. (\E x : call' = [call EXCEPT ![c] = [call[c] EXCEPT !.requests = x]])
        \/ (\E x : call' = [call EXCEPT ![c] = [call[c] EXCEPT !.rows = x]])
    BY <1>1 DEF P!ReadRequests, P!ReadRows
  <1>4. PICK s : /\ call' = [call EXCEPT ![c] = s]
                 /\ \E x : s \in {[call[c] EXCEPT !.requests = x], [call[c] EXCEPT !.rows = x]}
    BY <1>3
  <1>5. /\ s.kind = call[c].kind /\ s.user = call[c].user /\ s.n = call[c].n
        /\ s.own = call[c].own /\ s.news = call[c].news /\ s.phase = call[c].phase
    BY <1>1, <1>4 DEF Calls
  <1> QED
    BY <1>1, <1>2, <1>4, <1>5 DEF Stays, Told

LEMMA RetryIs ==
    ASSUME Typed, P!Retry
    PROVE  \E c \in Call, kind \in P!List :
              /\ call[c] = P!NoCall /\ call' = [call EXCEPT ![c] = P!Load(kind, over.user)]
              /\ kind = IF over = P!NoScreen THEN "board" ELSE over.kind
              /\ kind = "board" => board' = P!Loading
              /\ kind = "friend" => friend'.state = P!Loading
              /\ kind = "blocked" => blocked = P!Failed /\ blocked' = P!Loading
              /\ kind # "board" => board' = board
              /\ kind # "friend" => friend' = friend
              /\ kind # "blocked" => blocked' = blocked
              /\ UNCHANGED <<P!server, tab, over, busyKey, busyUsername, behind>>
  <1>1. over = P!NoScreen \/ over.kind \in {"friend", "blocked"}
    BY DEF Typed, Screens
  <1> DEFINE kind == IF over = P!NoScreen THEN "board" ELSE over.kind
  <1>2. PICK c \in Call :
            call[c] = P!NoCall /\ call' = [call EXCEPT ![c] = P!Load(kind, over.user)]
    BY DEF P!Retry
  <1>3. kind \in P!List /\ (kind = "friend" <=> over.kind = "friend")
        /\ (kind = "board" <=> over = P!NoScreen) /\ (kind = "blocked" <=> over.kind = "blocked")
    BY <1>1 DEF P!List, P!NoScreen
  <1>4. /\ kind = "board" => board' = P!Loading
        /\ kind = "friend" => friend'.state = P!Loading
        /\ kind = "blocked" => blocked = P!Failed /\ blocked' = P!Loading
        /\ kind # "board" => board' = board
        /\ kind # "friend" => friend' = friend
        /\ kind # "blocked" => blocked' = blocked
        /\ UNCHANGED <<P!server, tab, over, busyKey, busyUsername, behind>>
    BY <1>3 DEF P!Retry, P!RetryUp, P!NoScreen
  <1> HIDE DEF kind
  <1>5. kind \in P!List
    BY <1>3
  <1> QED
    BY <1>2, <1>4, <1>5 DEF kind

\* The list an answer is for.
Listing(c) == IF call[c].own \/ call[c].kind \in P!BoardCall THEN P!ListOf(call[c]) ELSE "none"

\* What an answer, or none, does: it leaves the list in this state.
ArrivedAs(c, state) ==
    /\ call[c].phase = "loading"
    /\ \/ state = P!Failed
       \/ /\ state = P!Loaded(call[c].requests, call[c].rows) /\ call[c].rows # NotRead
          /\ call[c].kind \in P!BoardCall => call[c].requests # NotRead
          /\ call[c].kind = "friend" => call[c].rows # {}
    /\ board' = IF Listing(c) = "board" THEN state ELSE board
    /\ Listing(c) = "friend" => friend'.state = state
    /\ Listing(c) # "friend" => friend' = friend
    /\ blocked' = IF Listing(c) = "blocked" THEN state ELSE blocked
    /\ behind' = IF Listing(c) = "none" \/ state = P!Failed THEN behind
                 ELSE IF call[c].old THEN behind \cup {Listing(c)}
                 ELSE behind \ {Listing(c)}
    /\ busyKey' = IF call[c].kind \in {"accept", "remove"} THEN P!NoKey ELSE busyKey
    /\ call'[c] = P!NoCall
    /\ \A d \in Call \ {c} :
          /\ call'[d].kind = call[d].kind /\ call'[d].user = call[d].user
          /\ call'[d].n = call[d].n /\ call'[d].phase = call[d].phase /\ Told(d)
          /\ call'[d].own \/ call[d].kind = "send" <=> call[d].own \/ call[d].kind = "send"
    /\ UNCHANGED <<P!server, tab, over, busyUsername>>

LEMMA ArrivesIs ==
    ASSUME Typed, NEW c \in Call, P!LoadArrives(c) \/ P!LoadFails(c)
    PROVE  \E state : ArrivedAs(c, state)
  <1>1. call \in [Call -> Calls]
    BY DEF Typed
  <1>2. PICK state, calls :
            /\ P!Shows(c, state, calls)
            /\ \/ state = P!Failed
               \/ /\ state = P!Loaded(call[c].requests, call[c].rows) /\ call[c].rows # NotRead
                  /\ call[c].kind \in P!BoardCall => call[c].requests # NotRead
                  /\ call[c].kind = "friend" => call[c].rows # {}
            /\ calls \in {call, [d \in Call |->
                          IF call[c].kind \in P!BoardCall /\ call[d].kind = "send"
                          THEN [call[d] EXCEPT !.own = FALSE] ELSE call[d]]}
    BY DEF P!LoadArrives, P!LoadFails
  <1>3. call[c].phase = "loading"
    BY DEF P!LoadArrives, P!LoadFails
  <1>4. ASSUME NEW d \in Call
        PROVE  LET r == [call[d] EXCEPT !.own = FALSE]
               IN  /\ r.kind = call[d].kind /\ r.user = call[d].user
                   /\ r.n = call[d].n /\ r.phase = call[d].phase /\ r.news = call[d].news
    BY <1>1 DEF Calls
  <1>5. call' = [calls EXCEPT ![c] = P!NoCall] /\ DOMAIN calls = Call
    BY <1>1, <1>2 DEF P!Shows
  <1>6. \A d \in Call \ {c} :
                    /\ call'[d].kind = call[d].kind /\ call'[d].user = call[d].user
                    /\ call'[d].n = call[d].n /\ call'[d].phase = call[d].phase /\ Told(d)
                    /\ call'[d].own \/ call[d].kind = "send" <=> call[d].own \/ call[d].kind = "send"
    <2>1. ASSUME NEW d \in Call
          PROVE  \/ calls[d] = call[d]
                 \/ calls[d] = [call[d] EXCEPT !.own = FALSE] /\ call[d].kind = "send"
      BY <1>2
    <2>2. \A d \in Call \ {c} : call'[d] = calls[d]
      BY <1>5
    <2> SUFFICES ASSUME NEW d \in Call, d # c
                 PROVE  /\ call'[d].kind = call[d].kind /\ call'[d].user = call[d].user
                        /\ call'[d].n = call[d].n /\ call'[d].phase = call[d].phase /\ Told(d)
                        /\ call'[d].own \/ call[d].kind = "send"
                              <=> call[d].own \/ call[d].kind = "send"
      OBVIOUS
    <2>3. CASE calls[d] = call[d]
      BY <2>2, <2>3 DEF Told
    <2>4. CASE calls[d] = [call[d] EXCEPT !.own = FALSE] /\ call[d].kind = "send"
      BY <1>4, <2>2, <2>4 DEF Told
    <2> QED
      BY <2>1, <2>3, <2>4
  <1>7. /\ board' = IF Listing(c) = "board" THEN state ELSE board
        /\ Listing(c) # "friend" => friend' = friend
        /\ blocked' = IF Listing(c) = "blocked" THEN state ELSE blocked
        /\ behind' = IF Listing(c) = "none" \/ state = P!Failed THEN behind
                     ELSE IF call[c].old THEN behind \cup {Listing(c)}
                     ELSE behind \ {Listing(c)}
        /\ busyKey' = IF call[c].kind \in {"accept", "remove"} THEN P!NoKey ELSE busyKey
        /\ UNCHANGED <<P!server, tab, over, busyUsername>>
    BY <1>2 DEF P!Shows, Listing
  <1>8. Listing(c) = "friend" => friend'.state = state
    BY <1>2 DEF Typed, P!Shows, Listing
  <1>9. call'[c] = P!NoCall
    BY <1>5
  <1> HIDE DEF Listing
  <1>10. \/ state = P!Failed
         \/ /\ state = P!Loaded(call[c].requests, call[c].rows) /\ call[c].rows # NotRead
            /\ call[c].kind \in P!BoardCall => call[c].requests # NotRead
            /\ call[c].kind = "friend" => call[c].rows # {}
    BY <1>2
  <1>11. ArrivedAs(c, state)
    BY <1>3, <1>6, <1>7, <1>8, <1>9, <1>10 DEF ArrivedAs
  <1> QED
    BY <1>11

LEMMA BoardDoneIs ==
    ASSUME Typed, NEW c \in Call, P!BoardActionDone(c)
    PROVE  /\ call[c].kind \in P!BoardCall /\ call[c].phase = "done" /\ call'[c].phase = "loading"
           /\ \A d \in Call : Stays(d) /\ Told(d) /\ (d # c => call'[d].phase = call[d].phase)
           /\ board' = (IF board.status = "loaded" THEN board ELSE P!Loading)
           /\ UNCHANGED <<P!server, tab, over, busyKey, friend, blocked, busyUsername, behind>>
  <1>1. call \in [Call -> Calls] /\ call[c] \in Calls
    BY DEF Typed
  <1>2. call' = [call EXCEPT ![c] = [call[c] EXCEPT !.phase = "loading"]]
    BY <1>1 DEF P!BoardActionDone
  <1>3. LET r == [call[c] EXCEPT !.phase = "loading"]
        IN  /\ r.kind = call[c].kind /\ r.user = call[c].user /\ r.n = call[c].n
            /\ r.own = call[c].own /\ r.news = call[c].news /\ r.phase = "loading"
    BY <1>1 DEF Calls
  <1> QED
    BY <1>1, <1>2, <1>3 DEF P!BoardActionDone, Stays, Told

\* What a call is after the screen over the tabs went, or another came up: over, or
\* the same without its screen; or the load that the new screen begins.
Kept(c) ==
    \/ call'[c].kind = "none" /\ call[c].kind \in {"none", "unfriend", "block"}
    \/ /\ call'[c].kind = call[c].kind /\ call'[c].user = call[c].user
       /\ call'[c].n = call[c].n /\ call'[c].phase = call[c].phase
       /\ Told(c)
       /\ call'[c].own => call[c].own /\ call[c].kind \in P!BoardCall \cup {"none"}
       /\ call[c].kind \in P!BoardCall => (call'[c].own <=> call[c].own)
Begins(c) ==
    /\ call[c].kind \in {"none", "unfriend", "block"}
    /\ call'[c] = P!Load(call'[c].kind, over'.user)
    /\ call'[c].kind \in {"board", over'.kind}

\* The own calls of a screen need it to be up.
OwnOK(r) ==
    r.own =>
        /\ r.kind \in {"friend", "unfriend", "block"} => over.kind = "friend" /\ over.user = r.user
        /\ r.kind \in {"blocked", "unblock"} => over.kind = "blocked"
        /\ r.kind = "blocked" => blocked.status = "loading"
        /\ r.kind = "unblock" => blocked.status = "loaded"
\* Of the loads for the Blocked list, one at most can still show its answer.
OwnLoad(c) == call[c].kind = "blocked" /\ call[c].own
Owned ==
    /\ \A c \in Call : OwnOK(call[c])
    /\ \A c, d \in Call : OwnLoad(c) /\ OwnLoad(d) => c = d

LEMMA MovesAre ==
    ASSUME Typed, Owned,
           \/ P!PressTab \/ P!PressBack \/ P!onViewExpenses \/ P!openBlockedAccounts
           \/ \E c \in Call : P!FriendActionDone(c)
    PROVE  /\ UNCHANGED <<P!server, busyKey, behind>>
           /\ friend' = P!NewFriend /\ blocked' = P!Loading /\ busyUsername' = Nobody
           /\ board' = board \/ board' = P!Loading
           /\ \/ \A c \in Call : Kept(c)
              \/ \E c \in Call : Begins(c) /\ \A d \in Call \ {c} : Kept(d)
           /\ \/ tab' = tab /\ over' = over
              \/ over' # P!NoScreen
              \/ tab' # "leaderboard"
              \/ \E c \in Call : call'[c].kind = "board" /\ call'[c].phase = "loading"
  <1>1. call \in [Call -> Calls] /\ P!NoCall \in Calls
    BY NoCallTyped DEF Typed
  <1>2. /\ UNCHANGED <<P!server, busyKey, behind>>
        /\ \E calls \in [Call -> Calls] : \E toTab, after : \E toOver \in Screens :
              /\ Goes(toTab, toOver, calls, after)
              /\ \A c \in Call : \/ calls[c] = call[c]
                                 \/ calls[c] = P!NoCall /\ call[c].kind \in {"unfriend", "block"}
    <2>1. CASE P!PressTab \/ P!PressBack \/ P!onViewExpenses \/ P!openBlockedAccounts
      BY <1>1, <2>1, MoveGoes
    <2>2. ASSUME NEW c \in Call, P!FriendActionDone(c)
          PROVE  /\ UNCHANGED <<P!server, busyKey, behind>>
                 /\ \E toTab, after : \E toOver \in Screens :
                        Goes(toTab, toOver, [call EXCEPT ![c] = P!NoCall], after)
                 /\ call[c].kind \in {"unfriend", "block"}
      BY <2>2, BackGoes DEF P!FriendActionDone
    <2>3. ASSUME NEW c \in Call
          PROVE  LET freed == [call EXCEPT ![c] = P!NoCall]
                 IN  freed \in [Call -> Calls] /\ \A d \in Call :
                        IF d = c THEN freed[d] = P!NoCall ELSE freed[d] = call[d]
      BY <1>1
    <2>4. ASSUME NEW c \in Call, P!FriendActionDone(c)
          PROVE  LET freed == [call EXCEPT ![c] = P!NoCall]
                 IN  \A d \in Call : \/ freed[d] = call[d]
                                     \/ freed[d] = P!NoCall /\ call[d].kind \in {"unfriend", "block"}
      BY <2>2, <2>3, <2>4
    <2> QED
      BY <2>1, <2>2, <2>3, <2>4
  <1> PICK calls \in [Call -> Calls] : \E toTab, after : \E toOver \in Screens :
              /\ Goes(toTab, toOver, calls, after)
              /\ \A c \in Call : \/ calls[c] = call[c]
                                 \/ calls[c] = P!NoCall /\ call[c].kind \in {"unfriend", "block"}
    BY <1>2
  <1> PICK toTab, after : \E toOver \in Screens :
              /\ Goes(toTab, toOver, calls, after)
              /\ \A c \in Call : \/ calls[c] = call[c]
                                 \/ calls[c] = P!NoCall /\ call[c].kind \in {"unfriend", "block"}
    OBVIOUS
  <1>3. PICK toOver \in Screens :
              /\ Goes(toTab, toOver, calls, after)
              /\ \A c \in Call : \/ calls[c] = call[c]
                                 \/ calls[c] = P!NoCall /\ call[c].kind \in {"unfriend", "block"}
    OBVIOUS
  <1>4. P!Go(toTab, toOver, after)
    BY <1>3 DEF Goes
  <1>5. P!NoCall.kind = "none" /\ P!Load("board", toOver.user).kind = "board"
        /\ P!Load("board", toOver.user).phase = "loading"
        /\ \A kind \in P!List : P!Load(kind, toOver.user).kind = kind
    BY DEF P!NoCall, P!Load
  <1>6. /\ after \in [Call -> Calls]
        /\ \A c \in Call :
              /\ after[c].kind = calls[c].kind /\ after[c].user = calls[c].user
              /\ after[c].n = calls[c].n /\ after[c].phase = calls[c].phase
              /\ after[c].news <=> calls[c].news
              /\ after[c].own => /\ calls[c].own
                                 /\ over = P!NoScreen \/ after[c].kind \in P!BoardCall \cup {"none"}
              /\ calls[c].kind \in P!BoardCall => (after[c].own <=> calls[c].own)
    <2>1. CASE over = P!NoScreen /\ after = calls
      BY <2>1
    <2>2. CASE after = Left(calls)
      <3>1. Left(calls) \in [Call -> Calls]
        <4>1. ASSUME NEW r \in Calls PROVE [r EXCEPT !.own = FALSE] \in Calls
          BY DEF Calls
        <4> QED
          BY <4>1 DEF Left
      <3> QED
        BY <2>2, <3>1, LeftIs
    <2> QED
      BY <1>3, <2>1, <2>2 DEF Goes
  <1>7. \A c \in Call : /\ after[c].own => after[c].kind \in P!BoardCall \cup {"none"}
                        /\ after[c].kind \in P!List \cup ActionCall \cup {"none"}
    <2>1. ASSUME NEW c \in Call, after[c].own, over = P!NoScreen
          PROVE  after[c].kind \in P!BoardCall \cup {"none"}
      <3>1. calls[c].kind \in P!List \cup ActionCall \cup {"none"}
        BY DEF Calls
      <3>2. over.kind = "none"
        BY <2>1 DEF P!NoScreen
      <3>3. calls[c] = call[c] => OwnOK(calls[c])
        BY DEF Owned
      <3> QED
        BY <1>3, <1>5, <1>6, <2>1, <3>1, <3>2, <3>3 DEF OwnOK, P!List, ActionCall, P!BoardCall
    <2>2. \A c \in Call : after[c].kind \in P!List \cup ActionCall \cup {"none"}
      BY <1>6 DEF Calls
    <2> QED
      BY <1>6, <2>1, <2>2
  <1>8. ASSUME NEW c \in Call, call'[c] = after[c] PROVE Kept(c)
    <2>1. CASE calls[c] = call[c]
      BY <1>6, <1>7, <1>8, <2>1 DEF Kept, Told
    <2>2. CASE calls[c] = P!NoCall /\ call[c].kind \in {"unfriend", "block"}
      BY <1>5, <1>6, <1>8, <2>2 DEF Kept
    <2> QED
      BY <1>3, <2>1, <2>2
  <1>9. /\ \/ \A c \in Call : Kept(c)
           \/ \E c \in Call : Begins(c) /\ \A d \in Call \ {c} : Kept(d)
    <2>1. CASE call' = after
      BY <1>8, <2>1
    <2>2. CASE \E c \in Call : Starts(c, toOver, after)
      <3>1. PICK c \in Call, kind \in P!List :
              /\ after[c] = P!NoCall /\ call' = [after EXCEPT ![c] = P!Load(kind, toOver.user)]
              /\ kind = "board" => toOver = P!NoScreen
              /\ kind = "friend" => toOver.kind = "friend"
              /\ kind = "blocked" => toOver.kind = "blocked"
        BY <2>2 DEF Starts
      <3>2. call'[c] = P!Load(kind, toOver.user) /\ call'[c].kind = kind
        BY <1>5, <1>6, <3>1
      <3>3. call[c].kind \in {"none", "unfriend", "block"}
        BY <1>3, <1>5, <1>6, <3>1
      <3>4. over' = toOver
        BY <1>4, GoIs
      <3>5. Begins(c)
        BY <3>1, <3>2, <3>3, <3>4 DEF Begins, P!List
      <3>6. \A d \in Call \ {c} : call'[d] = after[d]
        BY <1>6, <3>1
      <3> QED
        BY <1>8, <3>5, <3>6
    <2> QED
      BY <1>4, <2>1, <2>2, GoIs
  <1>10. /\ friend' = P!NewFriend /\ blocked' = P!Loading /\ busyUsername' = Nobody
         /\ board' = board \/ board' = P!Loading
    BY <1>4, GoIs
  <1>11. \/ tab' = tab /\ over' = over
         \/ over' # P!NoScreen
         \/ tab' # "leaderboard"
         \/ \E c \in Call : call'[c].kind = "board" /\ call'[c].phase = "loading"
    <2>1. tab' = toTab /\ over' = toOver
      BY <1>4, GoIs
    <2>2. CASE toOver = P!NoScreen /\ toTab = "leaderboard" /\ <<toTab, toOver>> # <<tab, over>>
      BY <1>4, <1>5, <1>6, <2>2, GoIs
    <2> QED
      BY <2>1, <2>2
  <1> QED
    BY <1>2, <1>9, <1>10, <1>11

\* The Blocked accounts keep their row count, one less at most.
LEMMA UnblockDoneIs ==
    ASSUME Typed, NEW c \in Call, P!UnblockDone(c)
    PROVE  /\ call[c].kind = "unblock" /\ call[c].phase = "done"
           /\ blocked'.status = blocked.status
           /\ call[c].own /\ blocked.status = "loaded" =>
                 blocked'.rows = blocked.rows \ {call[c].user}
           /\ ~call[c].own => blocked' = blocked
           /\ busyUsername' = IF call[c].own THEN Nobody ELSE busyUsername
           /\ call'[c] = P!NoCall /\ \A d \in Call \ {c} : call'[d] = call[d]
           /\ UNCHANGED <<P!server, tab, over, board, busyKey, friend, behind>>
  <1>1. call' = [call EXCEPT ![c] = P!NoCall] /\ call \in [Call -> Calls]
    BY DEF P!UnblockDone, Typed
  <1>2. blocked.status = "loaded" => blocked = P!Loaded(blocked.requests, blocked.rows)
    BY DEF Typed
  <1>3. ASSUME NEW b, NEW q, NEW s, NEW t, b = P!Loaded(q, s)
        PROVE  [b EXCEPT !.rows = t].status = "loaded" /\ [b EXCEPT !.rows = t].rows = t
    BY <1>3 DEF P!Loaded
  <1>4. CASE call[c].own /\ blocked.status = "loaded"
    <2>1. blocked' = [blocked EXCEPT !.rows = blocked.rows \ {call[c].user}]
      BY <1>4 DEF P!UnblockDone
    <2>2. blocked'.status = "loaded" /\ blocked'.rows = blocked.rows \ {call[c].user}
      BY <1>2, <1>3, <1>4, <2>1
    <2> QED
      BY <1>1, <1>4, <2>2 DEF P!UnblockDone
  <1>5. CASE ~(call[c].own /\ blocked.status = "loaded")
    BY <1>1, <1>5 DEF P!UnblockDone
  <1> QED
    BY <1>4, <1>5

\* Call c is over, or has its screen only if it had.
Less(c) ==
    \/ call'[c].kind = "none"
    \/ /\ call'[c].kind = call[c].kind /\ call'[c].user = call[c].user
       /\ call'[c].own => call[c].own \/ call[c].kind = "send"

LEMMA OwnedKept ==
    ASSUME Owned, over' = over, blocked'.status = blocked.status, \A c \in Call : Less(c)
    PROVE  Owned'
  <1>1. \A c \in Call : OwnOK(call[c])'
    BY DEF Owned, OwnOK, Less
  <1>2. \A c \in Call : OwnLoad(c)' => OwnLoad(c)
    BY DEF Less, OwnLoad
  <1> QED
    BY <1>1, <1>2 DEF Owned

LEMMA StepOwned == Typed /\ Owned /\ [P!Next]_(P!vars) => Owned'
  <1> SUFFICES ASSUME Typed, Owned, [P!Next]_(P!vars) PROVE Owned'
    OBVIOUS
  <1>1. P!NoCall.kind = "none" /\ \A kind, u : LET r == P!Load(kind, u) IN
            r.kind = kind /\ r.user = u /\ r.own /\ r.phase = "loading"
    BY DEF P!NoCall, P!Load
  <1>2. call \in [Call -> Calls]
    BY DEF Typed
  <1>3. ASSUME NEW c \in Call, P!Served(c) PROVE Owned'
    BY <1>3, ServedIs, OwnedKept DEF Stays, Less, P!screens
  <1>4. CASE P!Elsewhere
    BY <1>4, ElsewhereIs, OwnedKept DEF Stays, Less, P!screens
  <1>5. ASSUME NEW c \in Call, P!ReadRequests(c) \/ P!ReadRows(c) PROVE Owned'
    BY <1>5, ReadsIs, OwnedKept DEF Stays, Less, P!screens
  <1>6. ASSUME NEW c \in Call, P!BoardActionDone(c) PROVE Owned'
    BY <1>6, BoardDoneIs, OwnedKept DEF Stays, Less
  <1>7. ASSUME NEW c \in Call, P!UnblockDone(c) PROVE Owned'
    <2>1. \A d \in Call : Less(d)
      BY <1>1, <1>7, UnblockDoneIs DEF Less
    <2> QED
      BY <1>7, <2>1, UnblockDoneIs, OwnedKept
  <1>8. ASSUME NEW c \in Call, P!ActionFails(c) PROVE Owned'
    <2>1. call' = [call EXCEPT ![c] = P!NoCall] /\ UNCHANGED <<over, blocked>>
      BY <1>8 DEF P!ActionFails
    <2>2. \A d \in Call : Less(d)
      BY <1>1, <1>2, <2>1 DEF Less
    <2> QED
      BY <2>1, <2>2, OwnedKept
  <1>9. CASE P!Retry
    <2>1. PICK c \in Call, kind \in P!List :
              /\ call[c] = P!NoCall /\ call' = [call EXCEPT ![c] = P!Load(kind, over.user)]
              /\ kind = IF over = P!NoScreen THEN "board" ELSE over.kind
              /\ kind = "blocked" => blocked = P!Failed /\ blocked' = P!Loading
              /\ kind # "blocked" => blocked' = blocked
              /\ UNCHANGED over
      BY <1>9, RetryIs
    <2>2. call'[c].kind = kind /\ call'[c].user = over.user
          /\ \A d \in Call \ {c} : call'[d] = call[d]
      BY <1>1, <1>2, <2>1
    <2>3. CASE kind = "blocked"
      <3>1. blocked.status = "error" /\ blocked'.status = "loading"
        BY <2>1, <2>3 DEF P!Failed, P!Loading
      <3>2. over # P!NoScreen /\ over.kind = "blocked"
        BY <2>1, <2>3
      <3>3. \A d \in Call : call[d].own => call[d].kind \notin {"blocked", "unblock"}
        BY <3>1 DEF Owned, OwnOK
      <3>4. OwnOK(call[c])'
        BY <2>1, <2>2, <2>3, <3>1, <3>2 DEF OwnOK
      <3>5. ASSUME NEW d \in Call \ {c} PROVE OwnOK(call[d])'
        BY <2>1, <2>2, <3>3 DEF OwnOK, Owned
      <3> QED
        BY <2>2, <3>3, <3>4, <3>5 DEF Owned, OwnLoad
    <2>4. CASE kind # "blocked"
      <3>1. kind = "friend" => over.kind = "friend"
        BY <2>1 DEF P!NoScreen
      <3>2. OwnOK(call[c])'
        BY <2>1, <2>2, <2>4, <3>1 DEF OwnOK, P!List
      <3>3. ASSUME NEW d \in Call \ {c} PROVE OwnOK(call[d])'
        BY <2>1, <2>2, <2>4 DEF OwnOK, Owned
      <3> QED
        BY <2>2, <2>4, <3>2, <3>3 DEF Owned, OwnLoad
    <2> QED
      BY <2>3, <2>4
  <1>10. ASSUME NEW c \in Call, P!LoadArrives(c) \/ P!LoadFails(c) PROVE Owned'
    <2>1. PICK state : ArrivedAs(c, state)
      BY <1>10, ArrivesIs
    <2>2. over' = over /\ \A d \in Call : Less(d)
      BY <1>1, <2>1 DEF ArrivedAs, Less
    <2>3. CASE Listing(c) = "blocked"
      <3>1. call[c].kind = "blocked" /\ call[c].own
        BY <2>3 DEF Listing, P!ListOf, P!BoardCall
      <3>2. \A d \in Call \ {c} : call[d].own => call[d].kind \notin {"blocked", "unblock"}
        <4>1. blocked.status = "loading"
          BY <3>1 DEF Owned, OwnOK
        <4> QED
          BY <3>1, <4>1 DEF Owned, OwnOK, OwnLoad
      <3>3. \A d \in Call : call'[d].own => call'[d].kind \notin {"blocked", "unblock"}
        BY <1>1, <2>1, <2>2, <3>2 DEF Less, ArrivedAs
      <3>4. ASSUME NEW d \in Call PROVE OwnOK(call[d])'
        BY <2>2, <3>3 DEF OwnOK, Owned, Less
      <3> QED
        BY <3>3, <3>4 DEF Owned, OwnLoad
    <2>4. CASE Listing(c) # "blocked"
      BY <2>1, <2>2, <2>4, OwnedKept DEF ArrivedAs
    <2> QED
      BY <2>3, <2>4
  <1>11. ASSUME NEW c \in Call,
                \/ P!onSend(c) \/ P!runAction(c) \/ P!onUnblock(c)
                \/ P!confirmUnfriend(c) \/ P!confirmBlock(c)
         PROVE  Owned'
    <2>1. PICK kind \in ActionCall, u \in Person, n \in Nat, list \in P!List :
              /\ P!Ask(c, kind, u, n, list)
              /\ kind \in {"accept", "remove"} <=> n # 0
              /\ kind \in {"unfriend", "block"} => over.kind = "friend" /\ over.user = u
              /\ kind = "unblock" => over.kind = "blocked" /\ blocked.status = "loaded"
      BY <1>11, AsksAre
    <2>2. /\ call'[c].kind = kind /\ call'[c].user = u
          /\ \A d \in Call \ {c} : Same(call'[d], call[d])
          /\ UNCHANGED <<over, blocked>>
      BY <2>1, AskIs
    <2>3. OwnOK(call[c])'
      BY <2>1, <2>2 DEF OwnOK, ActionCall
    <2>4. ASSUME NEW d \in Call \ {c} PROVE OwnOK(call[d])'
      BY <2>2 DEF OwnOK, Owned, Same
    <2> QED
      BY <2>1, <2>2, <2>3, <2>4 DEF Owned, OwnLoad, Same, ActionCall
  <1>12. CASE \/ P!PressTab \/ P!PressBack \/ P!onViewExpenses \/ P!openBlockedAccounts
              \/ \E c \in Call : P!FriendActionDone(c)
    <2>1. ASSUME NEW c \in Call, Kept(c)
          PROVE  call'[c].own => call'[c].kind \in P!BoardCall \cup {"none"}
      BY <2>1 DEF Kept
    <2>2. ASSUME NEW c \in Call, Begins(c) PROVE OwnOK(call[c])'
      <3>1. over' \in Screens /\ blocked' = P!Loading
        BY <1>12, StepTyped, MovesAre DEF Typed
      <3>2. call'[c].user = over'.user
        BY <1>1, <2>2 DEF Begins
      <3>3. call'[c].kind = "board" \/ call'[c].kind = over'.kind
        BY <2>2 DEF Begins
      <3>4. blocked'.status = "loading" /\ over'.kind \in {"none", "friend", "blocked"}
        BY <3>1 DEF P!Loading, Screens, P!NoScreen
      <3> QED
        BY <3>2, <3>3, <3>4 DEF OwnOK
    <2>3. ASSUME NEW c \in Call, Kept(c) PROVE OwnOK(call[c])'
      BY <2>1, <2>3 DEF OwnOK, P!BoardCall
    <2>4. CASE \A c \in Call : Kept(c)
      BY <2>1, <2>3, <2>4 DEF Owned, OwnLoad, P!BoardCall
    <2>5. CASE \E c \in Call : Begins(c) /\ \A d \in Call \ {c} : Kept(d)
      <3>1. PICK c \in Call : Begins(c) /\ \A d \in Call \ {c} : Kept(d)
        BY <2>5
      <3>2. \A d \in Call : OwnOK(call[d])'
        BY <2>2, <2>3, <3>1
      <3>3. \A d \in Call \ {c} : ~(call'[d].kind = "blocked" /\ call'[d].own)
        BY <2>1, <3>1 DEF P!BoardCall
      <3> QED
        BY <3>2, <3>3 DEF Owned, OwnLoad
    <2> QED
      BY <1>12, <2>4, <2>5, MovesAre
  <1>13. CASE UNCHANGED P!vars
    BY <1>13 DEF Owned, OwnLoad, OwnOK, P!vars, P!screens
  <1> QED
    BY <1>3, <1>4, <1>5, <1>6, <1>7, <1>8, <1>9, <1>10, <1>11, <1>12, <1>13 DEF P!Next

----------------------------------------------------------------------------
(* What a list on screen lacks, a call that was carried out accounts for.  *)

\* An action whose reload is due or under way, an Unfriend or Block that will leave
\* the screen, an unblock that will drop its row.
Pending(c) == call[c].kind \in P!BoardCall /\ call[c].phase \in {"done", "loading"}
Leaving(c) ==
    call[c].kind \in {"unfriend", "block"} /\ call[c].own /\ call[c].phase = "done"
Unblocks(c) == call[c].kind = "unblock" /\ call[c].own /\ call[c].phase = "done"

\* A list that is not voided is the server's, but for what such a call accounts for.
BoardFollows ==
    over = P!NoScreen /\ tab = "leaderboard" /\ board.status = "loaded" /\ "board" \notin behind =>
        board = P!Loaded(P!listForUser, P!participants) \/ \E c \in Call : Pending(c)
FriendFollows ==
    over.kind = "friend" /\ friend.state.status = "loaded" /\ "friend" \notin behind =>
        P!MayRead(over.user) \/ \E c \in Call : Leaving(c)
BlockedFollow ==
    over.kind = "blocked" /\ blocked.status = "loaded" /\ "blocked" \notin behind =>
        /\ \A u : u \in blocked.rows <=>
                      u \in blocks \/ \E c \in Call : Unblocks(c) /\ call[c].user = u
        /\ \A c \in Call : Unblocks(c) => call[c].user \notin blocks
        /\ \A c, d \in Call : Unblocks(c) /\ Unblocks(d) /\ c # d => call[c].user # call[d].user
Follows == BoardFollows /\ FriendFollows /\ BlockedFollow

LEMMA ServerSame ==
    ASSUME UNCHANGED P!server
    PROVE  /\ P!listForUser' = P!listForUser /\ P!participants' = P!participants
           /\ blocks' = blocks
           /\ \A u : P!MayRead(u)' <=> P!MayRead(u)
  BY DEF P!server, P!listForUser, P!participants, P!MayRead, P!Invisible

\* A step that carries nothing out and shows nothing.
LEMMA FollowsKept ==
    ASSUME Follows, UNCHANGED P!server, UNCHANGED <<tab, over, board, blocked>>,
           friend'.state = friend.state, behind \subseteq behind',
           \A c \in Call : /\ Pending(c) => Pending(c)'
                           /\ Leaving(c) => Leaving(c)'
                           /\ Unblocks(c) <=> Unblocks(c)'
                           /\ Unblocks(c) => call'[c].user = call[c].user
    PROVE  Follows'
  <1>1. BoardFollows'
    BY ServerSame DEF Follows, BoardFollows, P!Loaded
  <1>2. FriendFollows'
    BY ServerSame DEF Follows, FriendFollows
  <1>3. BlockedFollow'
    BY ServerSame DEF Follows, BlockedFollow
  <1> QED
    BY <1>1, <1>2, <1>3 DEF Follows

LEMMA ServedFollows ==
    ASSUME Typed, Owned, Follows, NEW c \in Call, P!Served(c)
    PROVE  Follows'
  <1>1. /\ call[c].phase = "sent" /\ UNCHANGED P!screens
        /\ \A d \in Call : Stays(d) /\ (d # c => call'[d].phase = call[d].phase)
    BY ServedIs
  <1>2. call[c] \in Calls /\ CallOK(call[c]) /\ tie \in [Person -> Ties]
    BY DEF Typed
  <1>3. call[c].kind \in ActionCall /\ call[c].user \in Person
    BY <1>1, <1>2 DEF CallOK, Calls, P!List, ActionCall
  <1>4. CASE ~P!Granted(call[c])
    <2>1. call'[c].phase = "refused" /\ UNCHANGED <<P!server, behind>>
      BY <1>4, ServedIs
    <2>2. ASSUME NEW d \in Call
          PROVE  /\ Pending(d) => Pending(d)'
                 /\ Leaving(d) => Leaving(d)'
                 /\ Unblocks(d) <=> Unblocks(d)'
                 /\ Unblocks(d) => call'[d].user = call[d].user
      BY <1>1, <2>1 DEF Stays, Pending, Leaving, Unblocks
    <2> QED
      BY <1>1, <2>1, <2>2, FollowsKept DEF P!screens
  <1>5. CASE P!Granted(call[c]) /\ ~call[c].own
    BY <1>5, ServedIs DEF P!List, Follows, BoardFollows, FriendFollows, BlockedFollow
  <1>6. CASE P!Granted(call[c]) /\ call[c].own
    <2>1. call'[c].phase = "done" /\ behind' = behind
      BY <1>6, ServedIs
    <2>2. /\ tie' = [tie EXCEPT ![call[c].user] = P!Became(call[c])]
          /\ blocks' = IF call[c].kind = "block" THEN blocks \cup {call[c].user}
                       ELSE IF call[c].kind = "unblock" THEN blocks \ {call[c].user} ELSE blocks
          /\ blockedBy' = blockedBy
      BY <1>6 DEF P!Served, P!Store
    <2>3. ASSUME NEW d \in Call
          PROVE  /\ Pending(d) => Pending(d)'
                 /\ Leaving(d) => Leaving(d)'
                 /\ Unblocks(d)' <=> Unblocks(d) \/ (d = c /\ call[c].kind = "unblock")
                 /\ call'[d].user = call[d].user
      BY <1>1, <1>6, <2>1 DEF Stays, Pending, Leaving, Unblocks
    <2>4. OwnOK(call[c])
      BY DEF Owned
    <2>5. BoardFollows'
      <3>1. CASE over = P!NoScreen
        <4>1. over.kind = "none"
          BY <3>1 DEF P!NoScreen
        <4>2. call[c].kind \in P!BoardCall
          BY <1>3, <1>6, <2>4, <4>1 DEF OwnOK, ActionCall, P!BoardCall
        <4>3. Pending(c)'
          BY <1>1, <2>1, <4>2 DEF Pending, Stays
        <4> QED
          BY <4>3 DEF BoardFollows
      <3>2. CASE over # P!NoScreen
        BY <1>1, <3>2 DEF BoardFollows, P!screens
      <3> QED
        BY <3>1, <3>2
    <2>6. FriendFollows'
      <3>1. CASE call[c].kind \in {"unfriend", "block"}
        BY <1>1, <1>6, <2>1, <3>1 DEF FriendFollows, Leaving, Stays
      <3>2. CASE call[c].kind = "unblock"
        BY <1>1, <1>6, <2>4, <3>2 DEF FriendFollows, OwnOK, P!screens
      <3>3. CASE call[c].kind \in {"send", "accept", "remove"}
        <4>1. blocks' = blocks
          BY <2>2, <3>3
        <4>2. tie[call[c].user].kind # "friend"
          <5>1. CASE call[c].kind = "send"
            BY <1>6, <5>1 DEF P!Granted
          <5>2. CASE call[c].kind = "accept"
            <6>1. tie[call[c].user] = P!Tie("incoming", call[c].n)
              BY <1>6, <5>2 DEF P!Granted
            <6> QED
              BY <6>1 DEF P!Tie
          <5>3. CASE call[c].kind = "remove"
            BY <1>6, <5>3 DEF P!Granted, P!Request
          <5> QED
            BY <3>3, <5>1, <5>2, <5>3
        <4>3. over.kind = "friend" => over.user \in Person
          BY DEF Typed, Screens, P!NoScreen
        <4>4. ASSUME over.user \in Person, P!MayRead(over.user) PROVE P!MayRead(over.user)'
          <5>1. over' = over /\ over.user # call[c].user
            BY <1>1, <4>2, <4>4 DEF P!MayRead, P!screens
          <5>2. tie'[over.user] = tie[over.user]
            BY <1>2, <2>2, <4>4, <5>1
          <5> QED
            BY <2>2, <4>1, <4>4, <5>1, <5>2 DEF P!MayRead, P!Invisible
        <4> QED
          BY <1>1, <2>1, <2>3, <4>3, <4>4 DEF Follows, FriendFollows, P!screens
      <3> QED
        BY <1>3, <3>1, <3>2, <3>3 DEF ActionCall
    <2>7. BlockedFollow'
      <3>1. CASE call[c].kind \in {"unfriend", "block"}
        BY <1>1, <1>6, <2>4, <3>1 DEF BlockedFollow, OwnOK, P!screens
      <3>2. CASE call[c].kind \in {"send", "accept", "remove"}
        <4>1. blocks' = blocks /\ \A d \in Call : Unblocks(d)' <=> Unblocks(d)
          BY <2>2, <2>3, <3>2
        <4> QED
          BY <1>1, <2>1, <2>3, <4>1 DEF Follows, BlockedFollow, P!screens
      <3>3. CASE call[c].kind = "unblock"
        <4>1. call[c].user \in blocks /\ blocks' = blocks \ {call[c].user}
          BY <1>6, <2>2, <3>3 DEF P!Granted
        <4>2. ~Unblocks(c) /\ \A d \in Call : Unblocks(d)' <=> Unblocks(d) \/ d = c
          BY <1>1, <2>3, <3>3 DEF Unblocks
        <4>3. SUFFICES ASSUME over.kind = "blocked" /\ blocked.status = "loaded"
                              /\ "blocked" \notin behind
                       PROVE  BlockedFollow'
          BY <1>1, <2>1 DEF BlockedFollow, P!screens
        <4>4. /\ \A u : u \in blocked.rows <=>
                      u \in blocks \/ \E d \in Call : Unblocks(d) /\ call[d].user = u
              /\ \A d \in Call : Unblocks(d) => call[d].user \notin blocks
              /\ \A d, e \in Call : Unblocks(d) /\ Unblocks(e) /\ d # e
                                        => call[d].user # call[e].user
          BY <4>3 DEF Follows, BlockedFollow
        <4>5. ASSUME NEW u
              PROVE  u \in blocked.rows <=>
                        u \in blocks' \/ \E d \in Call : Unblocks(d)' /\ call'[d].user = u
          <5>1. ASSUME u \in blocked.rows, u \notin blocks'
                PROVE  \E d \in Call : Unblocks(d)' /\ call'[d].user = u
            <6>1. CASE u \in blocks
              BY <2>3, <4>1, <4>2, <5>1, <6>1
            <6>2. CASE u \notin blocks
              <7>1. PICK d \in Call : Unblocks(d) /\ call[d].user = u
                BY <4>4, <5>1, <6>2
              <7> QED
                BY <2>3, <7>1
            <6> QED
              BY <6>1, <6>2
          <5>2. ASSUME u \in blocks' PROVE u \in blocked.rows
            BY <4>1, <4>4, <5>2
          <5>3. ASSUME NEW d \in Call, Unblocks(d)', call'[d].user = u
                PROVE  u \in blocked.rows
            BY <2>3, <4>1, <4>2, <4>4, <5>3
          <5> QED
            BY <5>1, <5>2, <5>3
        <4>6. /\ \A d \in Call : Unblocks(d)' => call'[d].user \notin blocks'
              /\ \A d, e \in Call : Unblocks(d)' /\ Unblocks(e)' /\ d # e
                                        => call'[d].user # call'[e].user
          BY <2>3, <4>1, <4>2, <4>4
        <4> QED
          BY <1>1, <4>5, <4>6 DEF BlockedFollow, P!screens
      <3> QED
        BY <1>3, <3>1, <3>2, <3>3 DEF ActionCall
    <2> QED
      BY <2>5, <2>6, <2>7 DEF Follows
  <1> QED
    BY <1>4, <1>5, <1>6

LEMMA ArrivesFollows ==
    ASSUME Typed, LoadsFresh, Owned, Follows, NEW c \in Call, P!LoadArrives(c) \/ P!LoadFails(c)
    PROVE  Follows'
  <1>1. PICK state : ArrivedAs(c, state)
    BY ArrivesIs
  <1>2. /\ call[c].phase = "loading" /\ call'[c] = P!NoCall /\ UNCHANGED P!server
        /\ tab' = tab /\ over' = over
        /\ \A d \in Call \ {c} :
              /\ call'[d].kind = call[d].kind /\ call'[d].user = call[d].user
              /\ call'[d].phase = call[d].phase
              /\ call[d].kind # "send" => (call'[d].own <=> call[d].own)
    BY <1>1 DEF ArrivedAs
  <1>3. call[c] \in Calls /\ CallOK(call[c])
    BY DEF Typed
  <1>4. P!NoCall.kind = "none" /\ P!NoCall.phase = "none" /\ P!Failed.status = "error"
        /\ \A q, s : LET l == P!Loaded(q, s) IN l.rows = s /\ l.requests = q /\ l.status = "loaded"
    BY DEF P!NoCall, P!Failed, P!Loaded
  <1>5. ASSUME NEW d \in Call
        PROVE  /\ d # c => (Pending(d)' <=> Pending(d))
               /\ Leaving(d)' <=> Leaving(d)
               /\ Unblocks(d)' <=> Unblocks(d)
               /\ Unblocks(d) => call'[d].user = call[d].user
    BY <1>2, <1>4 DEF Pending, Leaving, Unblocks
  <1>6. CASE state # P!Failed /\ Listing(c) # "none" /\ ~call[c].old
    <2>1. /\ state = P!Loaded(call[c].requests, call[c].rows) /\ call[c].rows # NotRead
          /\ call[c].kind \in P!BoardCall => call[c].requests # NotRead
          /\ call[c].kind = "friend" => call[c].rows # {}
          /\ behind' = behind \ {Listing(c)}
      BY <1>1, <1>6 DEF ArrivedAs
    <2>2. call[c].rows = Rows(call[c])
          /\ (call[c].kind \in P!BoardCall => call[c].requests = P!listForUser)
      BY <1>6, <2>1 DEF LoadsFresh
    <2>3. Listing(c) = P!ListOf(call[c])
      BY <1>6 DEF Listing
    <2>4. CASE Listing(c) = "board"
      <3>1. call[c].kind \in P!BoardCall
        BY <2>3, <2>4 DEF P!ListOf, P!BoardCall
      <3>2. board' = P!Loaded(P!listForUser, P!participants)
        BY <1>1, <2>1, <2>2, <2>3, <2>4, <3>1 DEF ArrivedAs, Rows
      <3>3. friend' = friend /\ blocked' = blocked
        BY <1>1, <2>4 DEF ArrivedAs
      <3>4. BoardFollows'
        BY <1>2, <3>2, ServerSame DEF BoardFollows, P!Loaded
      <3>5. FriendFollows'
        BY <1>2, <1>5, <2>1, <2>4, <3>3, ServerSame DEF Follows, FriendFollows
      <3>6. BlockedFollow'
        BY <1>2, <1>5, <2>1, <2>4, <3>3, ServerSame DEF Follows, BlockedFollow
      <3> QED
        BY <3>4, <3>5, <3>6 DEF Follows
    <2>5. CASE Listing(c) = "friend"
      <3>1. call[c].kind = "friend" /\ call[c].own
        BY <2>3, <2>5 DEF P!ListOf, P!BoardCall, Listing
      <3>2. over.kind = "friend" /\ over.user = call[c].user
        BY <3>1 DEF Owned, OwnOK
      <3>3. P!MayRead(over.user)
        BY <2>1, <2>2, <2>3, <2>5, <3>1, <3>2 DEF Rows
      <3>4. board' = board /\ blocked' = blocked
        BY <1>1, <2>5 DEF ArrivedAs
      <3>5. BoardFollows'
        <4>1. over # P!NoScreen
          BY <3>2 DEF P!NoScreen
        <4> QED
          BY <1>2, <4>1 DEF BoardFollows
      <3>6. FriendFollows'
        BY <1>2, <3>3, ServerSame DEF FriendFollows
      <3>7. BlockedFollow'
        BY <1>2, <3>2 DEF BlockedFollow
      <3> QED
        BY <3>5, <3>6, <3>7 DEF Follows
    <2>6. CASE Listing(c) = "blocked"
      <3>1. call[c].kind = "blocked" /\ call[c].own
        BY <2>3, <2>6 DEF P!ListOf, P!BoardCall, Listing
      <3>2. over.kind = "blocked" /\ blocked.status = "loading"
        BY <3>1 DEF Owned, OwnOK
      <3>3. \A d \in Call : ~Unblocks(d)
        BY <3>2 DEF Owned, OwnOK, Unblocks
      <3>4. blocked'.rows = blocks
        BY <1>1, <1>4, <2>1, <2>2, <2>3, <2>6 DEF ArrivedAs, Rows
      <3>5. BlockedFollow'
        BY <1>2, <1>5, <3>3, <3>4, ServerSame DEF BlockedFollow
      <3>6. BoardFollows'
        <4>1. over # P!NoScreen
          BY <3>2 DEF P!NoScreen
        <4> QED
          BY <1>2, <4>1 DEF BoardFollows
      <3>7. FriendFollows'
        BY <1>2, <3>2 DEF FriendFollows
      <3> QED
        BY <3>5, <3>6, <3>7 DEF Follows
    <2> QED
      BY <1>2, <1>3, <1>6, <2>3, <2>4, <2>5, <2>6 DEF P!ListOf, CallOK, P!List
  <1>7. CASE state = P!Failed \/ Listing(c) = "none" \/ call[c].old
    <2>1. CASE Listing(c) = "none"
      <3>1. ~Pending(c)
        BY <1>3, <2>1 DEF Listing, P!ListOf, Pending
      <3>2. UNCHANGED <<board, friend, blocked, behind>>
        BY <1>1, <2>1 DEF ArrivedAs
      <3> QED
        BY <1>2, <1>5, <3>1, <3>2, FollowsKept
    <2>2. CASE Listing(c) # "none"
      <3>1. /\ board' = IF Listing(c) = "board" THEN state ELSE board
            /\ Listing(c) = "friend" => friend'.state = state
            /\ Listing(c) # "friend" => friend' = friend
            /\ blocked' = IF Listing(c) = "blocked" THEN state ELSE blocked
            /\ (state = P!Failed /\ behind' = behind) \/ Listing(c) \in behind'
            /\ behind \subseteq behind'
        BY <1>1, <1>7, <2>2 DEF ArrivedAs
      <3>2. Listing(c) = "board" \/ ~Pending(c)
        BY <2>2 DEF Listing, P!ListOf, Pending
      <3>3. BoardFollows'
        <4>1. CASE Listing(c) = "board"
          BY <1>4, <3>1, <4>1 DEF BoardFollows
        <4>2. CASE Listing(c) # "board"
          BY <1>2, <1>5, <3>1, <3>2, <4>2, ServerSame DEF Follows, BoardFollows, P!Loaded
        <4> QED
          BY <4>1, <4>2
      <3>4. FriendFollows'
        <4>1. CASE Listing(c) = "friend"
          BY <1>4, <3>1, <4>1 DEF FriendFollows
        <4>2. CASE Listing(c) # "friend"
          BY <1>2, <1>5, <3>1, <4>2, ServerSame DEF Follows, FriendFollows
        <4> QED
          BY <4>1, <4>2
      <3>5. BlockedFollow'
        <4>1. CASE Listing(c) = "blocked"
          BY <1>4, <3>1, <4>1 DEF BlockedFollow
        <4>2. CASE Listing(c) # "blocked"
          BY <1>2, <1>5, <3>1, <4>2, ServerSame DEF Follows, BlockedFollow
        <4> QED
          BY <4>1, <4>2
      <3> QED
        BY <3>3, <3>4, <3>5 DEF Follows
    <2> QED
      BY <2>1, <2>2
  <1> QED
    BY <1>6, <1>7

LEMMA UnblockFollows ==
    ASSUME Typed, Owned, Follows, NEW c \in Call, P!UnblockDone(c)
    PROVE  Follows'
  <1>1. /\ call[c].kind = "unblock" /\ call[c].phase = "done"
        /\ blocked'.status = blocked.status
        /\ call[c].own /\ blocked.status = "loaded" =>
              blocked'.rows = blocked.rows \ {call[c].user}
        /\ ~call[c].own => blocked' = blocked
        /\ call'[c] = P!NoCall /\ \A d \in Call \ {c} : call'[d] = call[d]
        /\ UNCHANGED <<P!server, tab, over, board, busyKey, friend, behind>>
    BY UnblockDoneIs
  <1>2. P!NoCall.kind = "none"
    BY DEF P!NoCall
  <1>3. ASSUME NEW d \in Call
        PROVE  /\ Pending(d)' <=> Pending(d)
               /\ Leaving(d)' <=> Leaving(d)
               /\ Unblocks(d)' <=> Unblocks(d) /\ d # c
               /\ d # c => call'[d].user = call[d].user
    BY <1>1, <1>2 DEF Pending, Leaving, Unblocks, P!BoardCall
  <1>4. CASE ~call[c].own
    <2>1. ~Unblocks(c)
      BY <1>4 DEF Unblocks
    <2> QED
      BY <1>1, <1>3, <1>4, <2>1, FollowsKept
  <1>5. CASE call[c].own
    <2>1. over.kind = "blocked" /\ blocked.status = "loaded" /\ Unblocks(c)
      BY <1>1, <1>5 DEF Owned, OwnOK, Unblocks
    <2>2. over # P!NoScreen
      BY <2>1 DEF P!NoScreen
    <2>3. BoardFollows' /\ FriendFollows'
      BY <1>1, <2>1, <2>2 DEF BoardFollows, FriendFollows
    <2>4. BlockedFollow'
      <3>1. SUFFICES ASSUME "blocked" \notin behind
                     PROVE  BlockedFollow'
        BY <1>1 DEF BlockedFollow
      <3>2. /\ \A u : u \in blocked.rows <=>
                    u \in blocks \/ \E d \in Call : Unblocks(d) /\ call[d].user = u
            /\ \A d \in Call : Unblocks(d) => call[d].user \notin blocks
            /\ \A d, e \in Call : Unblocks(d) /\ Unblocks(e) /\ d # e
                                      => call[d].user # call[e].user
        BY <2>1, <3>1 DEF Follows, BlockedFollow
      <3>3. blocked'.rows = blocked.rows \ {call[c].user} /\ blocks' = blocks
        BY <1>1, <1>5, <2>1 DEF P!server
      <3>4. ASSUME NEW u
            PROVE  u \in blocked'.rows <=>
                      u \in blocks' \/ \E d \in Call : Unblocks(d)' /\ call'[d].user = u
        <4>1. ASSUME u \in blocked'.rows, u \notin blocks'
              PROVE  \E d \in Call : Unblocks(d)' /\ call'[d].user = u
          <5>1. PICK d \in Call : Unblocks(d) /\ call[d].user = u
            BY <3>2, <3>3, <4>1
          <5>2. d # c
            BY <3>3, <4>1, <5>1
          <5> QED
            BY <1>3, <5>1, <5>2
        <4>2. ASSUME u \in blocks' PROVE u \in blocked'.rows
          BY <2>1, <3>2, <3>3, <4>2
        <4>3. ASSUME NEW d \in Call, Unblocks(d)', call'[d].user = u
              PROVE  u \in blocked'.rows
          BY <1>3, <2>1, <3>2, <3>3, <4>3
        <4> QED
          BY <4>1, <4>2, <4>3
      <3>5. /\ \A d \in Call : Unblocks(d)' => call'[d].user \notin blocks'
            /\ \A d, e \in Call : Unblocks(d)' /\ Unblocks(e)' /\ d # e
                                      => call'[d].user # call'[e].user
        BY <1>3, <3>2, <3>3
      <3> QED
        BY <3>4, <3>5 DEF BlockedFollow
    <2> QED
      BY <2>3, <2>4 DEF Follows
  <1> QED
    BY <1>4, <1>5

LEMMA MovesFollow ==
    ASSUME Typed, Owned, Follows,
           \/ P!PressTab \/ P!PressBack \/ P!onViewExpenses \/ P!openBlockedAccounts
           \/ \E c \in Call : P!FriendActionDone(c)
    PROVE  Follows'
  <1>1. /\ UNCHANGED <<P!server, behind>>
        /\ friend' = P!NewFriend /\ blocked' = P!Loading
        /\ board' = board \/ board' = P!Loading
        /\ \/ \A c \in Call : Kept(c)
           \/ \E c \in Call : Begins(c) /\ \A d \in Call \ {c} : Kept(d)
        /\ \/ tab' = tab /\ over' = over
           \/ over' # P!NoScreen
           \/ tab' # "leaderboard"
           \/ \E c \in Call : call'[c].kind = "board" /\ call'[c].phase = "loading"
    BY MovesAre
  <1>2. /\ friend'.state.status = "loading" /\ blocked'.status = "loading"
        /\ P!Loading.status = "loading"
    BY <1>1 DEF P!NewFriend, P!Loading
  <1>3. FriendFollows' /\ BlockedFollow'
    BY <1>2 DEF FriendFollows, BlockedFollow
  <1>4. ASSUME NEW c \in Call, Pending(c) PROVE Pending(c)'
    <2>1. call[c].kind \notin {"none", "unfriend", "block"}
      BY <1>4 DEF Pending, P!BoardCall
    <2>2. Kept(c)
      BY <1>1, <2>1 DEF Begins
    <2> QED
      BY <1>4, <2>1, <2>2 DEF Kept, Pending
  <1>5. BoardFollows'
    <2>1. SUFFICES ASSUME over' = P!NoScreen /\ tab' = "leaderboard" /\ board'.status = "loaded"
                          /\ "board" \notin behind'
                   PROVE  \/ board' = P!Loaded(P!listForUser, P!participants)'
                          \/ \E c \in Call : Pending(c)'
      BY DEF BoardFollows
    <2>2. CASE \E c \in Call : call'[c].kind = "board" /\ call'[c].phase = "loading"
      BY <2>2 DEF Pending, P!BoardCall
    <2>3. CASE tab' = tab /\ over' = over
      <3>1. board' = board
        BY <1>1, <1>2, <2>1
      <3> QED
        BY <1>1, <1>4, <2>1, <2>3, <3>1, ServerSame DEF Follows, BoardFollows, P!Loaded
    <2> QED
      BY <1>1, <2>1, <2>2, <2>3
  <1> QED
    BY <1>3, <1>5 DEF Follows

LEMMA StepFollows == Typed /\ LoadsFresh /\ Owned /\ Follows /\ [P!Next]_(P!vars) => Follows'
  <1> SUFFICES ASSUME Typed, LoadsFresh, Owned, Follows, [P!Next]_(P!vars) PROVE Follows'
    OBVIOUS
  <1>1. /\ P!NoCall.kind = "none" /\ P!NoCall.phase = "none"
        /\ P!Loading.status = "loading"
    BY DEF P!NoCall, P!Loading
  <1>2. call \in [Call -> Calls]
    BY DEF Typed
  <1>3. CASE P!Elsewhere
    BY <1>3, ElsewhereIs DEF P!List, Follows, BoardFollows, FriendFollows, BlockedFollow
  <1>4. ASSUME NEW c \in Call, P!ReadRequests(c) \/ P!ReadRows(c) PROVE Follows'
    <2>1. /\ UNCHANGED <<P!server, P!screens, behind>>
          /\ \A d \in Call : Stays(d) /\ call'[d].phase = call[d].phase
      BY <1>4, ReadsIs
    <2>2. ASSUME NEW d \in Call
          PROVE  /\ Pending(d)' <=> Pending(d)
                 /\ Leaving(d)' <=> Leaving(d)
                 /\ Unblocks(d)' <=> Unblocks(d)
                 /\ call'[d].user = call[d].user
      BY <2>1 DEF Stays, Pending, Leaving, Unblocks
    <2> QED
      BY <2>1, <2>2, FollowsKept DEF P!screens
  <1>5. ASSUME NEW c \in Call, P!BoardActionDone(c) PROVE Follows'
    <2>1. /\ call[c].kind \in P!BoardCall /\ call[c].phase = "done" /\ call'[c].phase = "loading"
          /\ \A d \in Call : Stays(d) /\ (d # c => call'[d].phase = call[d].phase)
          /\ board' = (IF board.status = "loaded" THEN board ELSE P!Loading)
          /\ UNCHANGED <<P!server, tab, over, busyKey, friend, blocked, busyUsername, behind>>
      BY <1>5, BoardDoneIs
    <2>2. ASSUME NEW d \in Call
          PROVE  /\ Pending(d)' <=> Pending(d)
                 /\ Leaving(d)' <=> Leaving(d)
                 /\ Unblocks(d)' <=> Unblocks(d)
                 /\ call'[d].user = call[d].user
      BY <2>1 DEF Stays, Pending, Leaving, Unblocks, P!BoardCall
    <2>3. CASE board' = board
      BY <2>1, <2>2, <2>3, FollowsKept
    <2>4. CASE board' = P!Loading
      <3>1. BoardFollows'
        BY <1>1, <2>4 DEF BoardFollows
      <3>2. FriendFollows' /\ BlockedFollow'
        BY <2>1, <2>2, ServerSame DEF Follows, FriendFollows, BlockedFollow
      <3> QED
        BY <3>1, <3>2 DEF Follows
    <2> QED
      BY <2>1, <2>3, <2>4
  <1>6. ASSUME NEW c \in Call, P!ActionFails(c) PROVE Follows'
    <2>1. CASE call[c].phase = "done"
      BY <1>6, <2>1 DEF P!ActionFails, P!List, Follows, BoardFollows, FriendFollows, BlockedFollow
    <2>2. CASE call[c].phase # "done"
      <3>1. /\ call' = [call EXCEPT ![c] = P!NoCall] /\ call[c].phase \in {"sent", "refused"}
            /\ UNCHANGED <<P!server, tab, over, board, blocked, behind>>
        BY <1>6, <2>2 DEF P!ActionFails
      <3>2. friend'.state = friend.state
        BY <1>6 DEF P!ActionFails, Typed
      <3>3. ASSUME NEW d \in Call
            PROVE  /\ Pending(d)' <=> Pending(d)
                   /\ Leaving(d)' <=> Leaving(d)
                   /\ Unblocks(d)' <=> Unblocks(d)
                   /\ Unblocks(d) => call'[d].user = call[d].user
        BY <1>1, <1>2, <3>1 DEF Pending, Leaving, Unblocks
      <3> QED
        BY <3>1, <3>2, <3>3, FollowsKept
    <2> QED
      BY <2>1, <2>2
  <1>7. CASE P!Retry
    <2>1. PICK c \in Call, kind \in P!List :
              /\ call[c] = P!NoCall /\ call' = [call EXCEPT ![c] = P!Load(kind, over.user)]
              /\ kind = IF over = P!NoScreen THEN "board" ELSE over.kind
              /\ kind = "board" => board' = P!Loading
              /\ kind = "friend" => friend'.state = P!Loading
              /\ kind = "blocked" => blocked' = P!Loading
              /\ kind # "board" => board' = board
              /\ kind # "friend" => friend' = friend
              /\ kind # "blocked" => blocked' = blocked
              /\ UNCHANGED <<P!server, tab, over, behind>>
      BY <1>7, RetryIs
    <2>2. BoardFollows'
      <3>1. over = P!NoScreen => kind = "board"
        BY <2>1
      <3> QED
        BY <1>1, <2>1, <3>1 DEF BoardFollows
    <2>3. FriendFollows'
      <3>1. over.kind = "friend" => kind = "friend"
        BY <2>1 DEF P!NoScreen
      <3> QED
        BY <1>1, <2>1, <3>1 DEF FriendFollows
    <2>4. BlockedFollow'
      <3>1. over.kind = "blocked" => kind = "blocked"
        BY <2>1 DEF P!NoScreen
      <3> QED
        BY <1>1, <2>1, <3>1 DEF BlockedFollow
    <2> QED
      BY <2>2, <2>3, <2>4 DEF Follows
  <1>8. ASSUME NEW c \in Call,
               \/ P!onSend(c) \/ P!runAction(c) \/ P!onUnblock(c)
               \/ P!confirmUnfriend(c) \/ P!confirmBlock(c)
        PROVE  Follows'
    <2>1. PICK kind \in ActionCall, u \in Person, n \in Nat, list \in P!List :
              /\ P!Ask(c, kind, u, n, list)
              /\ kind \in {"accept", "remove"} <=> n # 0
              /\ friend'.state = friend.state
      BY <1>8, AsksAre
    <2>2. /\ call[c] = P!NoCall /\ call'[c].phase = "sent"
          /\ \A d \in Call \ {c} : Same(call'[d], call[d])
          /\ UNCHANGED <<P!server, tab, over, board, blocked, behind>>
      BY <2>1, AskIs
    <2>3. ASSUME NEW d \in Call
          PROVE  /\ Pending(d)' <=> Pending(d)
                 /\ Leaving(d)' <=> Leaving(d)
                 /\ Unblocks(d)' <=> Unblocks(d)
                 /\ Unblocks(d) => call'[d].user = call[d].user
      BY <1>1, <2>2 DEF Pending, Leaving, Unblocks, Same
    <2> QED
      BY <2>1, <2>2, <2>3, FollowsKept
  <1>9. CASE UNCHANGED P!vars
    <2>1. \A c \in Call : /\ Pending(c)' <=> Pending(c)
                          /\ Leaving(c)' <=> Leaving(c)
                          /\ Unblocks(c)' <=> Unblocks(c)
      BY <1>9 DEF P!vars, Pending, Leaving, Unblocks
    <2> QED
      BY <1>9, <2>1, FollowsKept DEF P!vars, P!screens
  <1> QED
    BY <1>3, <1>4, <1>5, <1>6, <1>7, <1>8, <1>9,
       ServedFollows, ArrivesFollows, UnblockFollows, MovesFollow DEF P!Next

LEMMA InitAll == P!Init => Typed /\ LoadsFresh /\ Owned /\ Follows
  <1> SUFFICES ASSUME P!Init PROVE Typed /\ LoadsFresh /\ Owned /\ Follows
    OBVIOUS
  <1>1. \A c \in Call : call[c] = P!NoCall
    BY DEF P!Init
  <1>2. /\ P!NoCall.kind = "none" /\ P!NoCall.requests = NotRead /\ P!NoCall.rows = NotRead
        /\ P!Loading.status = "loading"
    BY DEF P!NoCall, P!Loading
  <1>3. LoadsFresh /\ Owned
    BY <1>1, <1>2 DEF LoadsFresh, Owned, OwnOK, OwnLoad
  <1>4. Follows
    BY <1>2 DEF P!Init, P!NewFriend, Follows, BoardFollows, FriendFollows, BlockedFollow
  <1> QED
    BY <1>3, <1>4, InitTyped

\* With no call under way, the Leaderboard's requests and rows, the open Friend and the
\* Blocked list are what the server holds, wherever the User went and in whatever order
\* calls were served and answered: "so it drops this Friend's row" ([username].tsx:162),
\* "exactly one row shorter" (blocked-accounts.tsx:121).  By the Follows of each list.
THEOREM ListsKeepUpHolds == P!Spec => []P!ListsKeepUp
  <1>1. Typed /\ Follows => P!ListsKeepUp
    <2> SUFFICES ASSUME Typed, Follows, P!Idle PROVE P!ListsKeepUp
      BY DEF P!ListsKeepUp
    <2>1. \A c \in Call : ~Pending(c) /\ ~Leaving(c) /\ ~Unblocks(c)
      BY DEF P!Idle, P!NoCall, Pending, Leaving, Unblocks
    <2>2. /\ over = P!NoScreen /\ tab = "leaderboard" /\ board.status = "loaded" /\ "board" \notin behind
                => board = P!Loaded(P!listForUser, P!participants)
          /\ over.kind = "friend" /\ friend.state.status = "loaded" /\ "friend" \notin behind
                => P!MayRead(over.user)
      BY <2>1 DEF Follows, BoardFollows, FriendFollows
    <2>3. over.kind = "blocked" /\ blocked.status = "loaded" /\ "blocked" \notin behind
                => blocked.rows = blocks
      <3>1. ASSUME over.kind = "blocked" /\ blocked.status = "loaded" /\ "blocked" \notin behind
            PROVE  \A u : u \in blocked.rows <=> u \in blocks
        BY <2>1, <3>1 DEF Follows, BlockedFollow
      <3> QED
        BY <3>1 DEF Typed
    <2> QED
      BY <2>2, <2>3 DEF P!ListsKeepUp
  <1>2. Typed /\ LoadsFresh /\ Owned /\ Follows /\ [P!Next]_(P!vars)
            => (Typed /\ LoadsFresh /\ Owned /\ Follows)'
    BY StepTyped, StepFresh, StepOwned, StepFollows
  <1> QED
    BY <1>1, <1>2, InitAll, PTL DEF P!Spec

----------------------------------------------------------------------------
(* A call that nothing was news to is the only one that can be in its way. *)

\* An answer to a request: its row is the disabled one, no other action is under way,
\* and the server will carry it out.
Alone(c) ==
    /\ busyKey = <<call[c].user, call[c].n>>
    /\ \A d \in Call \ {c} : call[d].kind \notin ActionCall
    /\ call[c].phase = "sent" => P!Granted(call[c])
    /\ call[c].phase # "refused"
\* An unblock: the same, on the Blocked list.
AloneUnblock(c) ==
    /\ call[c].own => busyUsername = call[c].user
    /\ \A d \in Call \ {c} : call[d].kind # "unblock"
    /\ call[c].phase = "sent" => call[c].user \in blocks
    /\ call[c].phase # "refused"
Unaware ==
    \A c \in Call : ~call[c].news =>
        /\ call[c].kind \in {"accept", "remove"} => Alone(c)
        /\ call[c].kind = "unblock" => AloneUnblock(c)

LEMMA ActsAre == Typed => \A c \in Call : P!Acts(call[c]) <=> call[c].kind \in ActionCall
  <1> SUFFICES ASSUME Typed, NEW c \in Call
               PROVE  P!Acts(call[c]) <=> call[c].kind \in ActionCall
    OBVIOUS
  <1>1. call[c] \in Calls /\ CallOK(call[c])
    BY DEF Typed
  <1> QED
    BY <1>1 DEF P!Acts, Calls, CallOK, P!List, ActionCall

\* A call that goes on without being sent, or ends.
Calm(c) ==
    \/ call'[c].kind \in P!List \cup {"none"}
    \/ /\ call'[c].kind = call[c].kind /\ call'[c].user = call[c].user
       /\ call'[c].n = call[c].n /\ Told(c)
       /\ call[c].kind = "unblock" /\ call'[c].own => call[c].own
       /\ call'[c].phase = call[c].phase \/ call'[c].phase \in {"loading", "done"}

LEMMA UnawareKept ==
    ASSUME Unaware, UNCHANGED P!server, \A c \in Call : Calm(c),
           \A c \in Call :
              /\ call'[c].kind \in {"accept", "remove"} =>
                    busyKey' = busyKey \/ \E d \in Call \ {c} : call[d].kind \in ActionCall
              /\ call'[c].kind = "unblock" =>
                    \/ busyUsername' = busyUsername \/ ~call'[c].own
                    \/ \E d \in Call \ {c} : call[d].kind = "unblock"
    PROVE  Unaware'
  <1>1. \A c \in Call : call'[c].kind \in ActionCall => call'[c].kind = call[c].kind
    BY DEF Calm, P!List, ActionCall
  <1>2. ASSUME NEW c \in Call, call'[c].kind \in {"accept", "remove"}, ~call'[c].news
        PROVE  Alone(c)'
    <2>1. /\ call'[c].kind = call[c].kind /\ call'[c].user = call[c].user
          /\ call'[c].n = call[c].n /\ Told(c)
          /\ call'[c].phase = call[c].phase \/ call'[c].phase \in {"loading", "done"}
      BY <1>2 DEF Calm, P!List
    <2>2. Alone(c)
      BY <1>2, <2>1 DEF Unaware, Told
    <2>3. busyKey' = busyKey
      BY <1>2, <2>2 DEF Alone
    <2>4. P!Granted(call[c]) => P!Granted(call[c])'
      <3>1. tie' = tie /\ blocks' = blocks /\ P!Invisible' = P!Invisible
        BY DEF P!server, P!Invisible
      <3> QED
        BY <1>2, <2>1, <3>1 DEF P!Granted
    <2> QED
      BY <1>1, <2>1, <2>2, <2>3, <2>4 DEF Alone
  <1>3. ASSUME NEW c \in Call, call'[c].kind = "unblock", ~call'[c].news
        PROVE  AloneUnblock(c)'
    <2>1. /\ call'[c].kind = call[c].kind /\ call'[c].user = call[c].user
          /\ Told(c)
          /\ call'[c].own => call[c].own
      BY <1>3 DEF Calm, P!List
    <2>2. call'[c].phase = call[c].phase \/ call'[c].phase \in {"loading", "done"}
      BY <1>3 DEF Calm, P!List
    <2>3. AloneUnblock(c)
      BY <1>3, <2>1 DEF Unaware, Told
    <2>4. call'[c].own => busyUsername' = call'[c].user
      BY <1>3, <2>1, <2>3 DEF AloneUnblock
    <2>5. \A d \in Call \ {c} : call'[d].kind # "unblock"
      BY <1>1, <2>3 DEF AloneUnblock, ActionCall
    <2>6. blocks' = blocks
      BY DEF P!server
    <2> QED
      BY <2>1, <2>2, <2>3, <2>4, <2>5, <2>6 DEF AloneUnblock
  <1> QED
    BY <1>2, <1>3 DEF Unaware

LEMMA ServedUnaware ==
    ASSUME Typed, Unaware, NEW c \in Call, P!Served(c)
    PROVE  Unaware'
  <1>1. /\ call[c].phase = "sent" /\ UNCHANGED P!screens
        /\ \A d \in Call : Stays(d) /\ Told(d) /\ (d # c => call'[d].phase = call[d].phase)
        /\ P!Granted(call[c]) => call'[c].phase = "done"
    BY ServedIs
  <1>2. call[c].kind \in ActionCall
    <2>1. call[c] \in Calls /\ CallOK(call[c])
      BY DEF Typed
    <2> QED
      BY <1>1, <2>1 DEF CallOK, Calls, P!List, ActionCall
  <1>3. ASSUME NEW d \in Call, call'[d].kind \in {"accept", "remove"}, ~call'[d].news
        PROVE  Alone(d)'
    <2>1. call[d].kind \in {"accept", "remove"} /\ ~call[d].news
      BY <1>1, <1>3 DEF Stays, Told
    <2>2. Alone(d)
      BY <2>1 DEF Unaware
    <2>3. d = c
      BY <1>2, <2>2 DEF Alone
    <2>4. call'[d].phase = "done"
      BY <1>1, <2>2, <2>3 DEF Alone
    <2> QED
      BY <1>1, <2>2, <2>4 DEF Alone, Stays, P!screens
  <1>4. ASSUME NEW d \in Call, call'[d].kind = "unblock", ~call'[d].news
        PROVE  AloneUnblock(d)'
    <2>1. call[d].kind = "unblock" /\ ~call[d].news
      BY <1>1, <1>4 DEF Stays, Told
    <2>2. AloneUnblock(d)
      BY <2>1 DEF Unaware
    <2>3. CASE d = c
      <3>1. P!Granted(call[d])
        BY <1>1, <2>1, <2>2, <2>3 DEF AloneUnblock, P!Granted
      <3>2. call'[d].phase = "done"
        BY <1>1, <2>3, <3>1
      <3> QED
        BY <1>1, <2>2, <3>2 DEF AloneUnblock, Stays, P!screens
    <2>4. CASE d # c
      <3>1. call[c].kind # "unblock"
        BY <2>2, <2>4 DEF AloneUnblock
      <3>2. blocks \subseteq blocks'
        <4>1. CASE P!Granted(call[c])
          BY <3>1, <4>1 DEF P!Served, P!Store
        <4>2. CASE ~P!Granted(call[c])
          BY <4>2 DEF P!Served, P!server
        <4> QED
          BY <4>1, <4>2
      <3> QED
        BY <1>1, <2>2, <2>4, <3>2 DEF AloneUnblock, Stays, P!screens
    <2> QED
      BY <2>3, <2>4
  <1> QED
    BY <1>3, <1>4 DEF Unaware

LEMMA AsksUnaware ==
    ASSUME Typed, Follows, Unaware, NEW c \in Call,
           \/ P!onSend(c) \/ P!runAction(c) \/ P!onUnblock(c)
           \/ P!confirmUnfriend(c) \/ P!confirmBlock(c)
    PROVE  Unaware'
  <1>1. PICK kind \in ActionCall, u \in Person, n \in Nat, list \in P!List :
              /\ P!Ask(c, kind, u, n, list)
              /\ kind \in {"accept", "remove"} <=> n # 0
              /\ kind \in {"send", "accept", "remove"} => list = "board" /\ P!BoardUp
              /\ kind = "unblock" =>
                    /\ list = "blocked" /\ over.kind = "blocked" /\ blocked.status = "loaded"
                    /\ u \in blocked.rows /\ u # busyUsername /\ busyUsername' = u
              /\ kind \in {"accept", "remove"} =>
                    /\ <<u, n>> # busyKey /\ busyKey' = <<u, n>>
                    /\ \E request \in board.requests :
                          /\ request.user = u /\ request.n = n
                          /\ kind = "accept" => request.direction = "incoming"
              /\ kind \notin {"accept", "remove"} => busyKey' = busyKey
              /\ kind # "unblock" => busyUsername' = busyUsername
    BY AsksAre
  <1>2. /\ call[c] = P!NoCall
        /\ call'[c].kind = kind /\ call'[c].user = u /\ call'[c].n = n
        /\ call'[c].phase = "sent" /\ call'[c].own
        /\ call'[c].news <=> Crossed(u, n) \/ list \in behind \/ P!Reloading(list)
        /\ \A d \in Call \ {c} :
              /\ Same(call'[d], call[d])
              /\ call'[d].news <=> call[d].news \/ (P!Acts(call[d]) /\ Crossed(u, n))
        /\ UNCHANGED <<P!server, tab, over, board, blocked, behind>>
    BY <1>1, AskIs
  <1>3. \A d \in Call : /\ P!Acts(call[d]) <=> call[d].kind \in ActionCall
                        /\ call[d] \in Calls /\ CallOK(call[d])
    BY ActsAre DEF Typed
  <1>4. ASSUME ~Crossed(u, n), NEW d \in Call, call[d].kind \in ActionCall
        PROVE  /\ ~call[d].news /\ call[d].own /\ call[d].user = u /\ call[d].n = n
               /\ call[d].kind \in {"accept", "remove"} <=> n # 0
               /\ call[d].kind \in {"accept", "remove"} => Alone(d)
               /\ call[d].kind = "unblock" => AloneUnblock(d)
    <2>1. ~call[d].news /\ call[d].own /\ call[d].user = u /\ call[d].n = n
      BY <1>3, <1>4 DEF Crossed
    <2> QED
      BY <1>3, <1>4, <2>1 DEF Unaware, CallOK
  <1>5. ASSUME ~Crossed(u, n), kind \in {"accept", "remove"}, NEW d \in Call
        PROVE  call[d].kind \notin ActionCall
    BY <1>1, <1>4, <1>5 DEF Alone
  <1>6. ASSUME ~Crossed(u, n), kind = "unblock", NEW d \in Call
        PROVE  call[d].kind # "unblock"
    BY <1>1, <1>4, <1>6 DEF AloneUnblock, ActionCall
  <1>7. \A d \in Call \ {c} : call'[d].kind = call[d].kind
    BY <1>2 DEF Same
  <1>8. P!NoCall.kind = "none"
    BY DEF P!NoCall
  <1>9. ASSUME ~call'[c].news, kind \in {"accept", "remove"} PROVE Alone(c)'
    <2>1. ~Crossed(u, n) /\ "board" \notin behind /\ ~P!Reloading("board") /\ P!BoardUp
      BY <1>1, <1>2, <1>9
    <2>2. \A d \in Call : call[d].kind \notin ActionCall
      BY <1>5, <1>9, <2>1
    <2>3. \A d \in Call : ~Pending(d)
      <3>1. ASSUME NEW d \in Call, Pending(d) PROVE FALSE
        <4>1. call[d].kind = "board"
          BY <2>2, <3>1 DEF Pending, P!BoardCall, ActionCall
        <4>2. call[d].own
          BY <1>3, <4>1 DEF CallOK
        <4> QED
          BY <2>1, <4>1, <4>2 DEF P!Reloading
      <3> QED
        BY <3>1
    <2>4. board.requests = P!listForUser
      BY <2>1, <2>3 DEF Follows, BoardFollows, P!BoardUp, P!Loaded
    <2>5. tie[u].kind \in P!Request /\ tie[u].n = n /\ (kind = "accept" => tie[u].kind = "incoming")
      BY <1>1, <1>9, <2>4 DEF P!listForUser
    <2>6. P!Granted(call'[c])
      <3>1. CASE kind = "accept"
        <4>1. tie[u] \in Ties
          BY DEF Typed
        <4>2. tie[u] = P!Tie("incoming", n)
          BY <2>5, <3>1, <4>1 DEF Ties, P!Tie
        <4> QED
          BY <1>2, <3>1, <4>2 DEF P!Granted
      <3>2. CASE kind = "remove"
        BY <1>2, <2>5, <3>2 DEF P!Granted
      <3> QED
        BY <1>9, <3>1, <3>2
    <2>7. P!Granted(call[c])'
      <3>1. tie' = tie /\ blocks' = blocks /\ P!Invisible' = P!Invisible
        BY <1>2 DEF P!server, P!Invisible
      <3> QED
        BY <1>2, <1>9, <2>6, <3>1 DEF P!Granted
    <2> QED
      BY <1>1, <1>2, <1>7, <1>9, <2>2, <2>7 DEF Alone
  <1>10. ASSUME ~call'[c].news, kind = "unblock" PROVE AloneUnblock(c)'
    <2>1. ~Crossed(u, n) /\ "blocked" \notin behind
      BY <1>1, <1>2, <1>10
    <2>2. \A d \in Call : call[d].kind # "unblock"
      BY <1>6, <1>10, <2>1
    <2>3. u \in blocks
      BY <1>1, <1>10, <2>1, <2>2 DEF Follows, BlockedFollow, Unblocks
    <2>4. blocks' = blocks
      BY <1>2 DEF P!server
    <2> QED
      BY <1>1, <1>2, <1>7, <1>10, <2>2, <2>3, <2>4 DEF AloneUnblock
  <1>11. ASSUME NEW d \in Call \ {c}, ~call'[d].news, call'[d].kind \in {"accept", "remove"}
         PROVE  FALSE
    <2>1. call[d].kind \in {"accept", "remove"} /\ call[d].kind \in ActionCall
      BY <1>7, <1>11 DEF ActionCall
    <2>2. ~Crossed(u, n)
      BY <1>2, <1>3, <1>11, <2>1
    <2>3. n # 0 /\ call[d].user = u /\ call[d].n = n /\ Alone(d)
      BY <1>4, <2>1, <2>2
    <2> QED
      BY <1>1, <2>3 DEF Alone
  <1>12. ASSUME NEW d \in Call \ {c}, ~call'[d].news, call'[d].kind = "unblock"
         PROVE  AloneUnblock(d)'
    <2>1. call[d].kind = "unblock" /\ call[d].kind \in ActionCall
      BY <1>7, <1>12 DEF ActionCall
    <2>2. ~Crossed(u, n)
      BY <1>2, <1>3, <1>12, <2>1
    <2>3. call[d].user = u /\ call[d].own /\ AloneUnblock(d)
      BY <1>4, <2>1, <2>2
    <2>4. kind # "unblock"
      BY <1>1, <2>3 DEF AloneUnblock
    <2>5. busyUsername' = busyUsername /\ blocks' = blocks
      BY <1>1, <1>2, <2>4 DEF P!server
    <2> QED
      BY <1>2, <1>7, <2>3, <2>4, <2>5 DEF AloneUnblock, Same
  <1> QED
    BY <1>2, <1>9, <1>10, <1>11, <1>12 DEF Unaware

LEMMA StepUnaware == Typed /\ Owned /\ Follows /\ Unaware /\ [P!Next]_(P!vars) => Unaware'
  <1> SUFFICES ASSUME Typed, Owned, Follows, Unaware, [P!Next]_(P!vars) PROVE Unaware'
    OBVIOUS
  <1>1. P!NoCall.kind = "none" /\ \A kind, u : P!Load(kind, u).kind = kind
    BY DEF P!NoCall, P!Load
  <1>2. call \in [Call -> Calls] /\ \A c \in Call : CallOK(call[c])
    BY DEF Typed
  <1>3. CASE P!Elsewhere
    <2>1. \A c \in Call : call'[c].kind = call[c].kind /\ (call[c].kind # "none" => call'[c].news)
      BY <1>3, ElsewhereIs DEF Stays
    <2> QED
      BY <2>1 DEF Unaware
  <1>4. ASSUME NEW c \in Call, P!ReadRequests(c) \/ P!ReadRows(c) PROVE Unaware'
    <2>1. \A d \in Call : Calm(d)
      BY <1>4, ReadsIs DEF Stays, Calm
    <2> QED
      BY <1>4, <2>1, ReadsIs, UnawareKept DEF P!screens
  <1>5. ASSUME NEW c \in Call, P!BoardActionDone(c) PROVE Unaware'
    <2>1. \A d \in Call : Calm(d)
      BY <1>5, BoardDoneIs DEF Stays, Calm
    <2> QED
      BY <1>5, <2>1, BoardDoneIs, UnawareKept
  <1>6. CASE P!Retry
    <2>1. PICK c \in Call, kind \in P!List :
              /\ call[c] = P!NoCall /\ call' = [call EXCEPT ![c] = P!Load(kind, over.user)]
              /\ UNCHANGED <<P!server, busyKey, busyUsername>>
      BY <1>6, RetryIs
    <2>2. \A d \in Call : Calm(d)
      BY <1>1, <1>2, <2>1 DEF Calm, Told
    <2> QED
      BY <2>1, <2>2, UnawareKept
  <1>7. ASSUME NEW c \in Call, P!LoadArrives(c) \/ P!LoadFails(c) PROVE Unaware'
    <2>1. PICK state : ArrivedAs(c, state)
      BY <1>7, ArrivesIs
    <2>2. /\ call'[c].kind = "none" /\ UNCHANGED <<P!server, busyUsername>>
          /\ call[c].kind \in {"accept", "remove"} \/ busyKey' = busyKey
      BY <1>1, <2>1 DEF ArrivedAs
    <2>3. \A d \in Call : Calm(d)
      BY <2>1, <2>2 DEF Calm, ArrivedAs
    <2>4. ASSUME NEW d \in Call, call'[d].kind \in {"accept", "remove"}
          PROVE  busyKey' = busyKey \/ \E e \in Call \ {d} : call[e].kind \in ActionCall
      BY <2>2, <2>4 DEF ActionCall
    <2> QED
      BY <2>2, <2>3, <2>4, UnawareKept
  <1>8. ASSUME NEW c \in Call, P!UnblockDone(c) PROVE Unaware'
    <2>1. /\ call[c].kind = "unblock" /\ call'[c].kind = "none"
          /\ \A d \in Call \ {c} : call'[d] = call[d]
          /\ UNCHANGED <<P!server, busyKey>>
      BY <1>1, <1>8, UnblockDoneIs
    <2>2. \A d \in Call : Calm(d)
      BY <2>1 DEF Calm, Told
    <2>3. ASSUME NEW d \in Call, call'[d].kind = "unblock"
          PROVE  \E e \in Call \ {d} : call[e].kind = "unblock"
      BY <2>1, <2>3
    <2> QED
      BY <2>1, <2>2, <2>3, UnawareKept
  <1>9. ASSUME NEW c \in Call, P!ActionFails(c) PROVE Unaware'
    <2>1. /\ call'[c].kind = "none" /\ \A d \in Call \ {c} : call'[d] = call[d]
          /\ UNCHANGED P!server
          /\ call[c].kind \in {"accept", "remove"} \/ busyKey' = busyKey
          /\ call[c].kind = "unblock" \/ busyUsername' = busyUsername
      BY <1>1, <1>2, <1>9 DEF P!ActionFails
    <2>2. \A d \in Call : Calm(d)
      BY <2>1 DEF Calm, Told
    <2>3. ASSUME NEW d \in Call, call'[d].kind \in ActionCall
          PROVE  /\ busyKey' = busyKey \/ \E e \in Call \ {d} : call[e].kind \in ActionCall
                 /\ busyUsername' = busyUsername \/ \E e \in Call \ {d} : call[e].kind = "unblock"
      BY <2>1, <2>3 DEF ActionCall
    <2> QED
      BY <2>1, <2>2, <2>3, UnawareKept DEF ActionCall
  <1>10. CASE \/ P!PressTab \/ P!PressBack \/ P!onViewExpenses \/ P!openBlockedAccounts
              \/ \E c \in Call : P!FriendActionDone(c)
    <2>1. Typed'
      BY StepTyped
    <2>2. ASSUME NEW c \in Call, Kept(c) PROVE Calm(c)
      BY <2>2 DEF Kept, Calm
    <2>3. ASSUME NEW c \in Call, Kept(c) PROVE call'[c].kind = "unblock" => ~call'[c].own
      BY <2>3 DEF Kept, P!BoardCall
    <2>4. ASSUME NEW c \in Call, Begins(c)
          PROVE  Calm(c) /\ call'[c].kind # "unblock"
      <3>1. over'.kind \in {"none", "friend", "blocked"}
        BY <2>1 DEF Typed, Screens, P!NoScreen
      <3> QED
        BY <2>4, <3>1 DEF Begins, Calm, P!List
    <2>5. \A c \in Call : Kept(c) \/ Begins(c)
      BY <1>10, MovesAre
    <2>6. UNCHANGED <<P!server, busyKey>>
      BY <1>10, MovesAre
    <2> QED
      BY <2>2, <2>3, <2>4, <2>5, <2>6, UnawareKept
  <1>11. CASE UNCHANGED P!vars
    <2>1. \A c \in Call : Calm(c)
      BY <1>11 DEF P!vars, Calm, Told
    <2> QED
      BY <1>11, <2>1, UnawareKept DEF P!vars, P!screens
  <1> QED
    BY <1>3, <1>4, <1>5, <1>6, <1>7, <1>8, <1>9, <1>10, <1>11,
       ServedUnaware, AsksUnaware DEF P!Next

\* Pressed one at a time on lists that keep up, no Accept, Decline, Cancel or Unblock is
\* refused: the disabled row "guards against a second tap racing the first"
\* (leaderboard.tsx:94).  Such a call has been alone and granted since it was sent.
THEOREM RefusalsAreNewsHolds == P!Spec => []P!RefusalsAreNews
  <1>1. P!Init => Unaware
    <2> SUFFICES ASSUME P!Init PROVE Unaware
      OBVIOUS
    <2>1. \A c \in Call : call[c].kind = "none"
      BY DEF P!Init, P!NoCall
    <2> QED
      BY <2>1 DEF Unaware
  <1>2. Unaware => P!RefusalsAreNews
    BY DEF Unaware, Alone, AloneUnblock, P!RefusalsAreNews
  <1>3. Typed /\ LoadsFresh /\ Owned /\ Follows /\ Unaware /\ [P!Next]_(P!vars)
            => (Typed /\ LoadsFresh /\ Owned /\ Follows /\ Unaware)'
    BY StepTyped, StepFresh, StepOwned, StepFollows, StepUnaware
  <1> QED
    BY <1>1, <1>2, <1>3, InitAll, PTL DEF P!Spec

=============================================================================
