----------------------------- MODULE FeedScreen -----------------------------
(***************************************************************************)
(* The Feed tab of the app over GET /feed: pages fetched behind a keyset   *)
(* cursor, pull-to-refresh, infinite scroll, the optimistic Like pill and  *)
(* the Block menu, while Expenses come and go and Users block each other.  *)
(*                                                                         *)
(* An Expense is its place in the order (Logged At, id): the Feed lists    *)
(* from Newest down.  The server answers a page in two statements, Blocks  *)
(* first; the screen's requests, its Likes and its Block are all in flight *)
(* at once, and any of them may fail.  Spinners, amounts and Like counts   *)
(* are left out.                                                           *)
(***************************************************************************)
EXTENDS Naturals, FiniteSets, SequencesExt

CONSTANTS Newest,       \* Expenses are 1 .. Newest
          Limit,        \* the page size
          Owner,        \* the User each Expense belongs to
          Me,           \* the viewer
          Tapped,       \* bound: the Expenses whose pill is tapped
          Rival         \* bound: the Users in whose Blocks the viewer is

Expense == 1 .. Newest
Request == {"load", "more"}

ASSUME SizeAssumption == Newest \in Nat /\ Limit \in Nat \ {0}
ASSUME OwnerAssumption == DOMAIN Owner = Expense /\ Tapped \subseteq Expense
ASSUME RivalAssumption == Rival \subseteq {Owner[e] : e \in Expense} \ {Me}

VARIABLES
    public, blocked, liked,     \* the server: Public Expenses, Users mutually
                                \* invisible with the viewer, the viewer's Likes
    status, items, cursor,      \* the screen's state; cursor 0 is null
    request,        \* the first-page and the next-page request
    like,           \* of each Expense, the Like call in flight
    block,          \* the Block call in flight and the User it names
    steady, fresh,  \* history: Expenses in sight ever since the list's first
                    \* page, or the one in flight, was requested
    crossed,        \* history: a refresh landed while a next page was in flight
    doubted,        \* history: Expenses whose Like met a page in flight, or
                    \* whose Like failed with its outcome unknown
    met,            \* history: of those, what the first page in flight has met
    banned          \* history: Users blocked here, no older page under way

server == <<public, blocked, liked>>
screen == <<status, items, cursor>>
calls == <<request, like, block>>
history == <<steady, fresh, crossed, doubted, met, banned>>
vars == <<server, screen, calls, history>>

Sight == {e \in public : Owner[e] \notin blocked}

Ask(phase, from, invisible, page, next) ==
    [phase |-> phase, from |-> from, invisible |-> invisible, page |-> page, next |-> next]
NoRequest == Ask("none", 0, {}, <<>>, 0)
Flying(r) == request[r].phase # "none"
Pending == {e \in Expense : like[e] # "none"}

Init ==
    /\ public \in SUBSET Expense /\ blocked = {} /\ liked = {}
    /\ status = "unfocused" /\ items = <<>> /\ cursor = 0
    /\ request = [r \in Request |-> NoRequest]
    /\ like = [e \in Expense |-> "none"]
    /\ block = [phase |-> "none", user |-> Me]
    /\ steady = {} /\ fresh = {} /\ crossed = FALSE
    /\ doubted = {} /\ met = {} /\ banned = {}

----------------------------------------------------------------------------
(* What the history remembers of each step.                                *)

Keep == /\ steady' = steady \cap Sight'
        /\ fresh' = fresh \cap Sight'
        /\ UNCHANGED <<crossed, doubted, met, banned>>

----------------------------------------------------------------------------
(* The server: FeedService.getFeed, a statement at a time.                 *)

\* The keyset: what comes after the cursor, newest first.
Rows(from, invisible) ==
    {e \in public : Owner[e] \notin invisible /\ (from = 0 \/ e < from)}
\* The members of a set, greatest first.
Descending(S) ==
    [n \in 1 .. Cardinality(S) |->
        CHOOSE e \in S : Cardinality({f \in S : f > e}) = n - 1]
PageOf(rows) == Descending({e \in rows : Cardinality({f \in rows : f > e}) < Limit})
\* The last item of a page when the row past it exists.
NextCursorSlip(rows, page) ==       \* the row past it
    IF Cardinality(rows) > Limit
    THEN CHOOSE e \in rows : Cardinality({f \in rows : f > e}) = Limit ELSE 0
NextCursor(rows, page) == IF Cardinality(rows) > Limit THEN Last(page) ELSE 0

ReadBlocks(r) ==
    /\ request[r].phase = "sent"
    /\ request' = [request EXCEPT ![r] = Ask("read", @.from, blocked, <<>>, 0)]
    /\ UNCHANGED <<server, screen, like, block>> /\ Keep

FindPage(r) ==
    LET rows == Rows(request[r].from, request[r].invisible)
        page == PageOf(rows)
        shown == [n \in DOMAIN page |-> [id |-> page[n], liked |-> page[n] \in liked]]
    IN  /\ request[r].phase = "read"
        /\ request' = [request EXCEPT ![r] =
                Ask("answered", @.from, @.invisible, shown, NextCursor(rows, page))]
        /\ UNCHANGED <<server, screen, like, block>> /\ Keep

----------------------------------------------------------------------------
(* feed.tsx and lib/feed.ts: the first page and the next ones.             *)

Send(r, from) ==
    /\ request' = [request EXCEPT ![r] = Ask("sent", from, {}, <<>>, 0)]

StartLoad ==
    /\ Send("load", 0)
    /\ fresh' = Sight /\ met' = Pending
    /\ UNCHANGED <<server, items, cursor, like, block, steady, crossed, doubted, banned>>

\* The first focus, and no later one.
Focus == status = "unfocused" /\ status' = "loading" /\ StartLoad
Retry == status = "error" /\ status' = "loading" /\ StartLoad
\* The list stays up; a pull while one is under way does nothing.
Refresh ==
    /\ status = "loaded" /\ ~Flying("load")
    /\ UNCHANGED status
    /\ StartLoad

EndReached ==
    /\ status = "loaded" /\ cursor # 0 /\ ~Flying("more")
    /\ Send("more", cursor)
    /\ doubted' = doubted \cup Pending
    /\ UNCHANGED <<server, screen, like, block, steady, fresh, crossed, met, banned>>

Ids(list) == {list[n].id : n \in DOMAIN list}
\* filter: the items at some places of a list, in their order.
Picked(list, places) ==
    LET last == Descending(places)
    IN  [n \in DOMAIN last |-> list[last[Len(last) + 1 - n]]]
\* Keeps the earlier of two items with one id.
dedupeFeedItems(list) ==
    Picked(list, {n \in DOMAIN list : \A m \in 1 .. (n - 1) : list[m].id # list[n].id})

Answer(r) == request' = [request EXCEPT ![r] = NoRequest]

LoadArrives ==
    /\ request["load"].phase = "answered"
    /\ status' = "loaded"
    /\ items' = dedupeFeedItems(request["load"].page)
    /\ cursor' = request["load"].next
    /\ Answer("load")
    /\ steady' = fresh /\ fresh' = {} /\ met' = {}
    /\ crossed' = Flying("more")
    /\ doubted' = IF Flying("more") THEN doubted \cup met ELSE met
    /\ UNCHANGED <<server, like, block, banned>>

MoreArrivesSlip ==      \* whatever the screen shows by now
    /\ request["more"].phase = "answered"
    /\ Answer("more")
    /\ items' = dedupeFeedItems(items \o request["more"].page)
    /\ cursor' = request["more"].next
    /\ UNCHANGED <<server, status, like, block, history>>

\* A list that has gone since is left alone.
MoreArrives ==
    /\ request["more"].phase = "answered"
    /\ Answer("more")
    /\ IF status = "loaded"
       THEN /\ items' = dedupeFeedItems(items \o request["more"].page)
            /\ cursor' = request["more"].next
       ELSE UNCHANGED <<items, cursor>>
    /\ UNCHANGED <<server, status, like, block, history>>

\* A first page that fails replaces the list, a next page that fails does not.
LoadFails ==
    /\ Flying("load")
    /\ status' = "error" /\ items' = <<>> /\ cursor' = 0
    /\ Answer("load")
    /\ steady' = {} /\ fresh' = {} /\ met' = {}
    /\ UNCHANGED <<server, like, block, crossed, doubted, banned>>

MoreFails ==
    /\ Flying("more")
    /\ Answer("more")
    /\ UNCHANGED <<server, screen, like, block, history>>

----------------------------------------------------------------------------
(* use-like-toggle.ts and lib/likes.ts: the pill.                          *)

toggleLike(list, e) ==
    [n \in DOMAIN list |-> IF list[n].id = e THEN [list[n] EXCEPT !.liked = ~@] ELSE list[n]]
applyToggle(e) == items' = toggleLike(items, e) /\ UNCHANGED <<status, cursor>>

\* A tap while one is in flight is dropped.
TapLike(e) ==
    /\ e \in Tapped /\ like[e] = "none"
    /\ \E n \in DOMAIN items :
         /\ items[n].id = e
         /\ like' = [like EXCEPT ![e] = IF items[n].liked THEN "delete" ELSE "put"]
    /\ applyToggle(e)
    /\ met' = IF Flying("load") THEN met \cup {e} ELSE met
    /\ doubted' = IF Flying("more") THEN doubted \cup {e} ELSE doubted
    /\ UNCHANGED <<server, request, block, steady, fresh, crossed, banned>>

\* One no longer Public is answered as its new Visibility says: either way.
LikeDone(e) ==
    /\ like[e] \in {"put", "delete"}
    /\ Owner[e] = Me \/ Owner[e] \notin blocked
    /\ liked' = IF like[e] = "put" THEN liked \cup {e} ELSE liked \ {e}
    /\ like' = [like EXCEPT ![e] = "done"]
    /\ UNCHANGED <<public, blocked, screen, request, block>> /\ Keep

LikeAnswered(e) ==
    /\ like[e] = "done"
    /\ like' = [like EXCEPT ![e] = "none"]
    /\ UNCHANGED <<server, screen, request, block>> /\ Keep

LikeRefusedSlip(e) ==       \* the pill stays flipped
    /\ like[e] \in {"put", "delete"}
    /\ e \notin Sight
    /\ like' = [like EXCEPT ![e] = "none"]
    /\ UNCHANGED <<server, screen, request, block>> /\ Keep
LikeRefused(e) ==
    /\ like[e] \in {"put", "delete"}
    /\ e \notin Sight
    /\ applyToggle(e)
    /\ like' = [like EXCEPT ![e] = "none"]
    /\ UNCHANGED <<server, request, block>> /\ Keep

\* No answer: the screen takes it for a failure.
LikeLost(e) ==
    /\ like[e] # "none"
    /\ applyToggle(e)
    /\ like' = [like EXCEPT ![e] = "none"]
    /\ doubted' = IF like[e] = "done" THEN doubted \cup {e} ELSE doubted
    /\ UNCHANGED <<server, request, block, steady, fresh, crossed, met, banned>>

----------------------------------------------------------------------------
(* feed.tsx: Block from a card's menu.                                     *)

ConfirmBlock(u) ==
    /\ block.phase = "none"
    /\ \E n \in DOMAIN items : Owner[items[n].id] = u
    /\ block' = [phase |-> "sent", user |-> u]
    /\ UNCHANGED <<server, screen, request, like>> /\ Keep

BlockDone ==
    /\ block.phase = "sent" /\ block.user \notin blocked
    /\ blocked' = blocked \cup {block.user}
    /\ block' = [block EXCEPT !.phase = "done"]
    /\ UNCHANGED <<public, liked, screen, request, like>> /\ Keep

\* A request under way that read the Blocks before this one.
Unaware(u) == \E r \in Request :
    request[r].phase \in {"read", "answered"} /\ u \notin request[r].invisible

BlockAnsweredSlip ==        \* only the card it was called from leaves
    LET u == block.user
        n == CHOOSE m \in DOMAIN items : Owner[items[m].id] = u
    IN  /\ block.phase = "done"
        /\ items' = IF u \in {Owner[e] : e \in Ids(items)} THEN RemoveAt(items, n) ELSE items
        /\ block' = [phase |-> "none", user |-> Me]
        /\ steady' = {e \in steady : Owner[e] # u}
        /\ banned' = IF Unaware(u) \/ u \notin blocked THEN banned ELSE banned \cup {u}
        /\ UNCHANGED <<server, status, cursor, request, like, fresh, crossed, doubted, met>>

BlockAnswered ==
    LET u == block.user
    IN  /\ block.phase = "done"
        /\ items' = Picked(items, {n \in DOMAIN items : Owner[items[n].id] # u})
        /\ block' = [phase |-> "none", user |-> Me]
        /\ steady' = {e \in steady : Owner[e] # u}
        /\ banned' = IF Unaware(u) \/ u \notin blocked THEN banned ELSE banned \cup {u}
        /\ UNCHANGED <<server, status, cursor, request, like, fresh, crossed, doubted, met>>

\* Already blocked, either way round, or no answer: the list stays.
BlockFails ==
    /\ block.phase = "sent" => block.user \in blocked
    /\ block.phase # "none"
    /\ block' = [phase |-> "none", user |-> Me]
    /\ UNCHANGED <<server, screen, request, like>> /\ Keep

----------------------------------------------------------------------------
(* Everyone else, and the viewer's other screens.                          *)

Publish(e) ==
    /\ e \notin public /\ public' = public \cup {e}
    /\ UNCHANGED <<blocked, liked, screen, calls>> /\ Keep

Hide(e) ==
    /\ e \in public /\ public' = public \ {e}
    /\ UNCHANGED <<blocked, liked, screen, calls>> /\ Keep

BlockElsewhere(u) ==
    /\ u \notin blocked /\ blocked' = blocked \cup {u}
    /\ UNCHANGED <<public, liked, screen, calls>> /\ Keep

Unblock(u) ==
    /\ u \in blocked /\ blocked' = blocked \ {u}
    /\ banned' = banned \ {u}
    /\ UNCHANGED <<public, liked, screen, calls, steady, fresh, crossed, doubted, met>>

Next ==
    \/ Focus \/ Refresh \/ Retry \/ EndReached
    \/ \E r \in Request : ReadBlocks(r) \/ FindPage(r)
    \/ LoadArrives \/ LoadFails \/ MoreArrives \/ MoreFails
    \/ \E e \in Expense : \/ TapLike(e) \/ LikeDone(e) \/ LikeAnswered(e)
                          \/ LikeRefused(e) \/ LikeLost(e)
                          \/ Publish(e) \/ Hide(e)
    \/ \E u \in Rival : ConfirmBlock(u) \/ BlockElsewhere(u) \/ Unblock(u)
    \/ BlockDone \/ BlockAnswered \/ BlockFails

Spec == Init /\ [][Next]_vars

----------------------------------------------------------------------------
Item == [id : Expense, liked : BOOLEAN]

(* The type of every variable; there is a list only when one is loaded, and *)
(* no next page is asked for without a cursor.                              *)
TypeOK ==
    /\ public \subseteq Expense /\ blocked \subseteq Rival /\ liked \subseteq Expense
    /\ status \in {"unfocused", "loading", "loaded", "error"}
    /\ items \in Seq(Item) /\ cursor \in 0 .. Newest
    /\ status # "loaded" => items = <<>> /\ cursor = 0
    /\ \A r \in Request :
         /\ request[r].phase \in {"none", "sent", "read", "answered"}
         /\ request[r].page \in Seq(Item) /\ Len(request[r].page) <= Limit
    /\ Flying("more") => request["more"].from # 0
    /\ like \in [Expense -> {"none", "put", "delete", "done"}]
    /\ block.phase \in {"none", "sent", "done"} /\ block.user \in Rival \cup {Me}
    /\ steady \cup fresh \cup doubted \subseteq Expense /\ banned \subseteq blocked

(* However pages, refreshes and the Expenses behind them cross, the list has  *)
(* no id twice (lib/feed.ts:8-11), and a page boundary never shifts           *)
(* (feed.service.ts:29-32): an Expense in sight ever since the list's first   *)
(* page was asked for is on it as soon as the scroll has passed its place.  A *)
(* refresh that lands while a next page is in flight voids the second part:   *)
(* that page's cursor then belongs to the old list.                           *)
EachOnce ==
    /\ \A m, n \in DOMAIN items : items[m].id = items[n].id => m = n
    /\ status = "loaded" /\ ~crossed =>
           {e \in steady : cursor = 0 \/ e >= cursor} \subseteq Ids(items)

(* A User blocked from the Feed leaves it and does not come back by scroll   *)
(* or refresh while the Block stands (feed.tsx:196-213), unless a page under *)
(* way had read the Blocks before this one.                                   *)
BlockedStayGone == \A n \in DOMAIN items : Owner[items[n].id] \notin banned

(* At rest the pill says what the server holds: an optimistic flip ends in   *)
(* the Like it announced, or is undone.  Voided where the Like met a page in *)
(* flight or its answer was lost.                                             *)
PillsAgree ==
    \A n \in DOMAIN items : LET e == items[n].id IN
        like[e] = "none" /\ e \notin doubted => items[n].liked = (e \in liked)
=============================================================================
