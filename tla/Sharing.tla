------------------------------ MODULE Sharing ------------------------------
(***************************************************************************)
(* Who sees and Likes which Expense: the Visibility gate of the Like       *)
(* routes, a Friend's Expenses, the Leaderboard and the Feed, against      *)
(* Expenses that are logged, edited and deleted and a social graph that    *)
(* changes.  The graph keeps the promise of FriendshipRules, one step per  *)
(* operation.  A handler reads the graph and the Expenses in statements of *)
(* their own, without a transaction: one action each, and handlers         *)
(* interleave, with each other and with what changes the tables.           *)
(*                                                                         *)
(* Amounts, Periods, pages and Like counts are left out: the answer of a   *)
(* reading route is the set of Expenses it lists or sums up.               *)
(***************************************************************************)
EXTENDS Integers, FiniteSets

CONSTANTS User, Expense, Slot,
          Owner,        \* the User each Expense belongs to
          None          \* no User, no Expense

ASSUME NoneAssumption == None \notin User \cup Expense
ASSUME OwnerAssumption == Owner \in [Expense -> User]

VARIABLES
    offers, friends, blocks,    \* the social graph, as in FriendshipRules
    visibility,     \* of each Expense; "unlogged" before, "deleted" after
    likes,          \* <<user, expense>> rows
    pc, job,        \* each handler's next statement and local variables
    answer,         \* what the handler's response shows
    ever,           \* history: what held for its caller at some moment of it
    alone           \* history: no table has changed since it began

graph == <<offers, friends, blocks>>
vars == <<graph, visibility, likes, pc, job, answer, ever, alone>>

Graph == INSTANCE FriendshipRules

Visibility == {"private", "friend_only", "public"}
SHAREABLE_VISIBILITIES == {"friend_only", "public"}

Exists(e) == visibility[e] \in Visibility

\* An operator named ...Slip is the one after it with a mistake in it: no
\* specification uses it; it shows that a property notices the mistake.
ShareableSlip(e) == Exists(e)
Shareable(e) == visibility[e] \in SHAREABLE_VISIBILITIES
FriendsOf(u) == {v \in User : {u, v} \in friends}
InvisibleSlip(u) == {v \in User : <<u, v>> \in blocks}
Invisible(u) == {v \in User : <<u, v>> \in blocks \/ <<v, u>> \in blocks}

\* The rule the routes are to implement.
CanSee(u, e) ==
    /\ Exists(e)
    /\ \/ Owner[e] = u
       \/ /\ ~Graph!Blocked(u, Owner[e])
          /\ \/ visibility[e] = "public"
             \/ visibility[e] = "friend_only" /\ Owner[e] \in FriendsOf(u)

\* A handler's caller and route, the Expense or the User it is about, the
\* visibility it read, and the Users it read.
Locals(me, route, e, owner, saw, owners, ids) ==
    [me |-> me, route |-> route, e |-> e, owner |-> owner, saw |-> saw,
     owners |-> owners, ids |-> ids]
NoJob == Locals(None, None, None, None, None, {}, {})

Init ==
    /\ Graph!Init
    /\ visibility = [e \in Expense |-> "unlogged"]
    /\ likes = {}
    /\ pc = [h \in Slot |-> "idle"]
    /\ job = [h \in Slot |-> NoJob]
    /\ answer = [h \in Slot |-> {}]
    /\ ever = [h \in Slot |-> {}]
    /\ alone = [h \in Slot |-> TRUE]

Goto(h, where, locals) ==
    /\ pc' = [pc EXCEPT ![h] = where]
    /\ job' = [job EXCEPT ![h] = locals]
    /\ UNCHANGED answer

\* The handler answers with what `shows`, or with an error.
AnswerWith(h, shows) ==
    /\ pc' = [pc EXCEPT ![h] = "answered"]
    /\ answer' = [answer EXCEPT ![h] = shows]
    /\ UNCHANGED job

Done(h) ==
    /\ pc' = [pc EXCEPT ![h] = "idle"]
    /\ job' = [job EXCEPT ![h] = NoJob]
    /\ answer' = [answer EXCEPT ![h] = {}]

tables == <<graph, visibility, likes>>

\* What speaks for showing a caller an Expense.
Grounds(u) ==
    {<<"shareable", e>> : e \in {f \in Expense : Exists(f) /\ visibility[f] # "private"}}
        \cup {<<"public", e>> : e \in {f \in Expense : visibility[f] = "public"}}
        \cup {<<"friend", o>> : o \in FriendsOf(u)}
        \cup {<<"unblocked", o>> : o \in {v \in User : ~Graph!Blocked(u, v)}}

\* Every action ends with this.
Remember ==
    /\ ever' = [h \in Slot |->
                  IF pc'[h] = "idle" THEN {} ELSE ever[h] \cup Grounds(job[h].me)']
    /\ alone' = [h \in Slot |-> pc'[h] = "idle" \/ (alone[h] /\ tables' = tables)]

\* A statement that reads.
Reads == UNCHANGED tables /\ Remember

----------------------------------------------------------------------------
(* PUT, DELETE and GET /expenses/:id/likes: the gate, then the statement.  *)

GateFind(h, u, route, e) ==
    /\ pc[h] = "idle"
    /\ Exists(e)
    /\ Goto(h, IF Owner[e] = u THEN route ELSE "gate:block",
            Locals(u, route, e, None, visibility[e], {}, {}))
    /\ Reads

GateCheckBlockSlip(h) ==        \* a stranger is let through
    /\ pc[h] = "gate:block"
    /\ IF Owner[job[h].e] \notin Invisible(job[h].me) /\ job[h].saw # "private"
       THEN Goto(h, job[h].route, job[h])
       ELSE Done(h)
    /\ Reads

GateCheckBlock(h) ==
    /\ pc[h] = "gate:block"
    /\ IF Owner[job[h].e] \notin Invisible(job[h].me) /\ job[h].saw # "private"
       THEN Goto(h, IF job[h].saw = "public" THEN job[h].route ELSE "gate:friends",
                 job[h])
       ELSE Done(h)
    /\ Reads

GateCheckFriends(h) ==
    /\ pc[h] = "gate:friends"
    /\ IF Owner[job[h].e] \in FriendsOf(job[h].me)
       THEN Goto(h, job[h].route, job[h])
       ELSE Done(h)
    /\ Reads

\* On an Expense that is gone the foreign key refuses the row: a 500.
Like(h) ==
    /\ pc[h] = "like"
    /\ likes' = IF Exists(job[h].e)
                THEN likes \cup {<<job[h].me, job[h].e>>} ELSE likes
    /\ Done(h)
    /\ UNCHANGED <<graph, visibility>>
    /\ Remember

Unlike(h) ==
    /\ pc[h] = "unlike"
    /\ likes' = likes \ {<<job[h].me, job[h].e>>}
    /\ Done(h)
    /\ UNCHANGED <<graph, visibility>>
    /\ Remember

LikersReadBlocks(h) ==
    /\ pc[h] = "likers"
    /\ Goto(h, "likers:find",
            Locals(job[h].me, "likers", job[h].e, None, None, {}, Invisible(job[h].me)))
    /\ Reads

LikersFind(h) ==
    /\ pc[h] = "likers:find"
    /\ AnswerWith(h, {u \in User \ job[h].ids : <<u, job[h].e>> \in likes})
    /\ Reads

----------------------------------------------------------------------------
(* GET /users/:username/expenses                                           *)

FriendExpensesCheckBlock(h, u, o) ==
    /\ pc[h] = "idle"
    /\ u # o
    /\ o \notin Invisible(u)
    /\ Goto(h, "friend:friends", Locals(u, "friend", None, o, None, {}, {}))
    /\ Reads

FriendExpensesCheckFriends(h) ==
    /\ pc[h] = "friend:friends"
    /\ IF job[h].owner \in FriendsOf(job[h].me)
       THEN Goto(h, "friend:find", job[h])
       ELSE Done(h)
    /\ Reads

FriendExpensesFind(h) ==
    /\ pc[h] = "friend:find"
    /\ AnswerWith(h, {e \in Expense : Owner[e] = job[h].owner /\ Shareable(e)})
    /\ Reads

(* GET /leaderboard: two reads side by side, then the sums.                *)

BoardStart(h, u) ==
    /\ pc[h] = "idle"
    /\ Goto(h, "board:both", Locals(u, "board", None, None, None, {}, {}))
    /\ Reads

BoardReadFriends(h) ==
    /\ pc[h] \in {"board:both", "board:friends"}
    /\ Goto(h, IF pc[h] = "board:both" THEN "board:blocks" ELSE "board:sum",
            Locals(job[h].me, "board", None, None, None, FriendsOf(job[h].me), job[h].ids))
    /\ Reads

BoardReadBlocks(h) ==
    /\ pc[h] \in {"board:both", "board:blocks"}
    /\ Goto(h, IF pc[h] = "board:both" THEN "board:friends" ELSE "board:sum",
            Locals(job[h].me, "board", None, None, None, job[h].owners, Invisible(job[h].me)))
    /\ Reads

BoardSum(h) ==
    LET participants == {job[h].me} \cup (job[h].owners \ job[h].ids) IN
    /\ pc[h] = "board:sum"
    /\ AnswerWith(h, {e \in Expense : Owner[e] \in participants /\ Shareable(e)})
    /\ Reads

(* GET /feed                                                               *)

FeedReadBlocks(h, u) ==
    /\ pc[h] = "idle"
    /\ Goto(h, "feed:find", Locals(u, "feed", None, None, None, {}, Invisible(u)))
    /\ Reads

FeedFind(h) ==
    /\ pc[h] = "feed:find"
    /\ AnswerWith(h, {e \in Expense : visibility[e] = "public" /\ Owner[e] \notin job[h].ids})
    /\ Reads

----------------------------------------------------------------------------
(* Handlers that take a single step: they need an idle slot.               *)

Change == \E h \in Slot : pc[h] = "idle"

Log(e, v) ==
    /\ Change
    /\ visibility[e] = "unlogged"
    /\ visibility' = [visibility EXCEPT ![e] = v]
    /\ UNCHANGED <<graph, likes, pc, job, answer>>
    /\ Remember

Edit(e, v) ==
    /\ Change
    /\ Exists(e) /\ v # visibility[e]
    /\ visibility' = [visibility EXCEPT ![e] = v]
    /\ UNCHANGED <<graph, likes, pc, job, answer>>
    /\ Remember

DeleteSlip(e) ==                \* the Likes stay behind
    /\ Change
    /\ Exists(e)
    /\ visibility' = [visibility EXCEPT ![e] = "deleted"]
    /\ UNCHANGED <<graph, likes, pc, job, answer>>
    /\ Remember

\* The Likes go with it (onDelete: Cascade).
Delete(e) ==
    /\ Change
    /\ Exists(e)
    /\ visibility' = [visibility EXCEPT ![e] = "deleted"]
    /\ likes' = {l \in likes : l[2] # e}
    /\ UNCHANGED <<graph, pc, job, answer>>
    /\ Remember

ChangeGraph ==
    /\ Change
    /\ Graph!Next
    /\ UNCHANGED <<visibility, likes, pc, job, answer>>
    /\ Remember

Return(h) ==
    /\ pc[h] = "answered"
    /\ Done(h)
    /\ Reads

Handler(h) ==
    \/ \E u \in User, e \in Expense, route \in {"like", "unlike", "likers"} :
          GateFind(h, u, route, e)
    \/ GateCheckBlock(h) \/ GateCheckFriends(h)
    \/ Like(h) \/ Unlike(h) \/ LikersReadBlocks(h) \/ LikersFind(h)
    \/ \E u, o \in User : FriendExpensesCheckBlock(h, u, o)
    \/ FriendExpensesCheckFriends(h) \/ FriendExpensesFind(h)
    \/ \E u \in User : BoardStart(h, u) \/ FeedReadBlocks(h, u)
    \/ BoardReadFriends(h) \/ BoardReadBlocks(h) \/ BoardSum(h)
    \/ FeedFind(h)
    \/ Return(h)

Next ==
    \/ \E h \in Slot : Handler(h)
    \/ \E e \in Expense : Delete(e) \/ \E v \in Visibility : Log(e, v) \/ Edit(e, v)
    \/ ChangeGraph

Spec == Init /\ [][Next]_vars

----------------------------------------------------------------------------
Pc == {"idle", "answered", "gate:block", "gate:friends", "like", "unlike", "likers",
       "likers:find", "friend:friends", "friend:find", "board:both", "board:friends",
       "board:blocks", "board:sum", "feed:find"}
JobType == [me : User \cup {None},
            route : {"like", "unlike", "likers", "friend", "board", "feed", None},
            e : Expense \cup {None}, owner : User \cup {None},
            saw : Visibility \cup {None}, owners : SUBSET User, ids : SUBSET User]

\* Every Like is on an Expense that exists; the handlers are between awaits.
TypeOK ==
    /\ Graph!TypeOK
    /\ visibility \in [Expense -> Visibility \cup {"unlogged", "deleted"}]
    /\ likes \subseteq User \X {e \in Expense : Exists(e)}
    /\ pc \in [Slot -> Pc]
    /\ job \in [Slot -> JobType]
    /\ answer \in [Slot -> SUBSET (Expense \cup User)]
    /\ alone \in [Slot -> BOOLEAN]

Lists(h) == pc[h] = "answered" /\ job[h].route # "likers"

(* However the handlers interleave.                                        *)

\* Each condition for showing e held at some moment of the handler: it was
\* shareable, nobody had blocked, and it was public or its owner a Friend.
Vouched(h, e) ==
    \/ Owner[e] = job[h].me
    \/ /\ <<"shareable", e>> \in ever[h]
       /\ <<"unblocked", Owner[e]>> \in ever[h]
       /\ <<"public", e>> \in ever[h] \/ <<"friend", Owner[e]>> \in ever[h]

\* No route shows or sums up an Expense that was private, or whose owner was
\* across a Block or a stranger, during the whole of the request.
ShownIsVouched == \A h \in Slot : Lists(h) => \A e \in answer[h] : Vouched(h, e)

\* Nor does it let such an Expense be Liked.
LikedIsVouched ==
    [][\A h \in Slot : pc[h] = "like" /\ likes' # likes /\ pc'[h] # "like" =>
          Vouched(h, job[h].e)]_vars

(* A handler alone, while no other changed a table; Spec breaks this for a *)
(* handler that was not.                                                   *)

\* The reading routes show, and sum up, exactly what they are for: all that the
\* caller can see of a Friend, of all Friends and himself, of everybody; and of
\* an Expense he can see all the likers there are but those across a Block.
ShownExactly ==
    \A h \in Slot : pc[h] = "answered" /\ alone[h] =>
        LET me == job[h].me
            sees == {e \in Expense : CanSee(me, e)}
        IN  /\ job[h].route = "likers" => job[h].e \in sees
            /\ answer[h] =
                CASE job[h].route = "friend" -> {e \in sees : Owner[e] = job[h].owner}
                  [] job[h].route = "board" -> {e \in sees : visibility[e] # "private" /\
                                                   Owner[e] \in {me} \cup FriendsOf(me)}
                  [] job[h].route = "feed" -> {e \in sees : visibility[e] = "public"}
                  [] job[h].route = "likers" ->
                        {u \in User : <<u, job[h].e>> \in likes /\ ~Graph!Blocked(me, u)}
=============================================================================
