--------------------------- MODULE PeopleScreens ---------------------------
(***************************************************************************)
(* The screens on which one User deals with the others: the Leaderboard    *)
(* tab with the Friend Requests above its rows, the screen of one Friend   *)
(* that a row opens, and the Blocked accounts behind the Profile tab.      *)
(*                                                                         *)
(* The tab loads again after each of its actions and whenever it gains the *)
(* focus, from two requests answered together; the Friend's screen goes    *)
(* back when it has done something; the Blocked accounts drop the row      *)
(* themselves.  Nothing aborts a request or tells an old answer from a new *)
(* one.  Each handler of the server is one step here: SocialGraph takes    *)
(* them apart.  Periods and Likes are in Leaderboard and FeedScreen.       *)
(***************************************************************************)
EXTENDS Naturals

CONSTANTS User,         \* the other Users
          Call,         \* the requests that can be under way
          NotRead, Nobody,
          MaxChanges    \* bound on what the server stores

VARIABLES
    tie,            \* server: what is between the User and each other one
    blocks,         \* server: whom the User blocked
    blockedBy,      \* server: who blocked the User
    changes,
    tab, over,      \* the tab that is up, and the screen pushed over it
    board, busyKey, \* Leaderboard tab: its LoadState, the request acted on
    friend,         \* Friend's screen: its LoadState and its busy flags
    blocked, busyUsername,      \* Blocked accounts: the same as the tab
    call,           \* the requests under way
    behind          \* history: the lists that something changed without

server == <<tie, blocks, blockedBy, changes>>
screens == <<tab, over, board, busyKey, friend, blocked, busyUsername>>
vars == <<server, screens, call, behind>>

\* A Friend Request is told by its number from an earlier one of the same User.
Tie(kind, n) == [kind |-> kind, n |-> n]
Request == {"incoming", "outgoing"}

NoScreen == [kind |-> "none", user |-> Nobody]
Loading == [status |-> "loading"]
Failed == [status |-> "error"]
Loaded(requests, rows) == [status |-> "loaded", requests |-> requests, rows |-> rows]
NewFriend == [state |-> Loading, unfriendBusy |-> FALSE, blockBusy |-> FALSE]
NoKey == <<Nobody, 0>>

\* `own`: the screen that asked is still there.
NoCall == [kind |-> "none", user |-> Nobody, n |-> 0, phase |-> "none", own |-> TRUE,
           requests |-> NotRead, rows |-> NotRead, old |-> FALSE, news |-> FALSE]
Load(kind, u) == [NoCall EXCEPT !.kind = kind, !.user = u, !.phase = "loading"]

\* The calls of the tab, each of which ends in a load of it.
BoardCall == {"board", "send", "accept", "remove"}
ListOf(r) == IF r.kind \in BoardCall THEN "board" ELSE r.kind
List == {"board", "friend", "blocked"}

Init ==
    /\ tie \in [User -> {Tie(k, 1) : k \in Request \cup {"friend", "none"}}]
    /\ blocks \in SUBSET {u \in User : tie[u].kind = "none"}
    /\ blockedBy = {}
    /\ changes = 0
    /\ tab = "profile" /\ over = NoScreen
    /\ board = Loading /\ busyKey = NoKey
    /\ friend = NewFriend
    /\ blocked = Loading /\ busyUsername = Nobody
    /\ call = [c \in Call |-> NoCall]
    /\ behind = {}

----------------------------------------------------------------------------
(* The server.                                                             *)

Invisible == blocks \cup blockedBy

listForUser == {[user |-> u, n |-> tie[u].n, direction |-> tie[u].kind] :
                   u \in {v \in User : tie[v].kind \in Request}}
participants == {u \in User : tie[u].kind = "friend"} \ Invisible
MayRead(u) == u \notin Invisible /\ tie[u].kind = "friend"

\* Which calls the server carries out; 404 or 409 otherwise.
Granted(r) ==
    CASE r.kind = "send"     -> r.user \notin Invisible /\ tie[r.user].kind = "none"
      [] r.kind = "accept"   -> tie[r.user] = Tie("incoming", r.n)
      [] r.kind = "remove"   -> tie[r.user].kind \in Request /\ tie[r.user].n = r.n
      [] r.kind = "unfriend" -> tie[r.user].kind = "friend"
      [] r.kind = "block"    -> r.user \notin Invisible
      [] r.kind = "unblock"  -> r.user \in blocks

Became(r) ==
    CASE r.kind = "send"    -> Tie("outgoing", tie[r.user].n + 1)
      [] r.kind = "accept"  -> Tie("friend", r.n)
      [] r.kind = "unblock" -> tie[r.user]
      [] OTHER              -> Tie("none", tie[r.user].n)

Store(u, became, mine, theirs) ==
    /\ changes < MaxChanges /\ changes' = changes + 1
    /\ tie' = [tie EXCEPT ![u] = became]
    /\ blocks' = mine /\ blockedBy' = theirs

\* A load that has read something is old once something else is stored.
Aged == [c \in Call |-> [call[c] EXCEPT
            !.old = @ \/ call[c].requests # NotRead \/ call[c].rows # NotRead]]

Served(c) ==
    LET r == call[c] IN
    /\ r.phase = "sent"
    /\ IF Granted(r)
       THEN /\ Store(r.user, Became(r),
                     IF r.kind = "block" THEN blocks \cup {r.user}
                     ELSE IF r.kind = "unblock" THEN blocks \ {r.user} ELSE blocks,
                     blockedBy)
            /\ call' = [Aged EXCEPT ![c].phase = "done"]
            /\ behind' = IF r.own THEN behind ELSE List
       ELSE /\ call' = [call EXCEPT ![c].phase = "refused"]
            /\ UNCHANGED <<server, behind>>
    /\ UNCHANGED screens

\* What the other Users do, and the User on another device.
Elsewhere ==
    /\ \E u \in User :
          \/ /\ tie[u].kind = "none" /\ u \notin Invisible
             /\ Store(u, Tie("incoming", tie[u].n + 1), blocks, blockedBy)
          \/ /\ tie[u].kind = "outgoing"
             /\ Store(u, Tie("friend", tie[u].n), blocks, blockedBy)
          \/ /\ tie[u].kind # "none"
             /\ Store(u, Tie("none", tie[u].n), blocks, blockedBy)
          \/ /\ u \notin Invisible
             /\ Store(u, Tie("none", tie[u].n), blocks, blockedBy \cup {u})
          \/ /\ u \in blocks
             /\ Store(u, tie[u], blocks \ {u}, blockedBy)
    /\ call' = [c \in Call |-> [Aged[c] EXCEPT !.news = call[c] # NoCall]]
    /\ behind' = List
    /\ UNCHANGED screens

----------------------------------------------------------------------------
(* The views: which controls are there, and enabled.                       *)

\* An error takes the place of a list, and of all that is above or on it.
BoardUp == tab = "leaderboard" /\ over = NoScreen /\ board.status = "loaded"
FriendUp == over.kind = "friend"
BlockedUp == over.kind = "blocked" /\ blocked.status = "loaded"
RetryUp ==
    \/ over.kind = "friend" /\ friend.state = Failed
    \/ over.kind = "blocked" /\ blocked = Failed
    \/ over = NoScreen /\ tab = "leaderboard" /\ board = Failed

\* Accept is there for incoming ones; the row acted on is disabled.
RequestEnabled(request, kind) ==
    /\ busyKey # <<request.user, request.n>>
    /\ kind = "accept" => request.direction = "incoming"

\* Every row but the viewer's own unfolds to what opens the Friend's screen, also
\* while the list loads again.
RowOpens(u) == u \in board.rows

\* Both buttons are in the header, whatever is below it.
UnfriendEnabled == ~friend.unfriendBusy
BlockEnabled == ~friend.blockBusy
UnblockEnabled(u) == u \in blocked.rows /\ u # busyUsername

\* The form is mounted with the list; its button is off while it sends.
FormEnabled == \A d \in Call : call[d].kind = "send" => ~call[d].own

----------------------------------------------------------------------------
(* The navigator.                                                          *)

\* What useFocusEffect does when a tab or a screen comes up; a screen pushed anew
\* has a state of its own, and one popped takes its state away.
Go(toTab, toOver, calls) ==
    LET up == IF toOver # NoScreen THEN toOver.kind
              ELSE IF toTab = "leaderboard" /\ <<toTab, toOver>> # <<tab, over>> THEN "board"
              ELSE "none"
    IN  /\ tab' = toTab /\ over' = toOver
        /\ IF up = "none" THEN call' = calls
           ELSE \E c \in Call : /\ calls[c] = NoCall
                                /\ call' = [calls EXCEPT ![c] = Load(up, toOver.user)]
        /\ board' = IF up = "board" /\ board.status # "loaded" THEN Loading ELSE board
        /\ friend' = NewFriend
        /\ blocked' = Loading /\ busyUsername' = Nobody

PressTab ==
    /\ over = NoScreen
    /\ Go(IF tab = "profile" THEN "leaderboard" ELSE "profile", NoScreen, call)
    /\ UNCHANGED <<server, busyKey, behind>>

\* Pops the screen, which leaves its calls to no one; without one, may end at
\* another tab.
Back(calls) ==
    IF over = NoScreen THEN \E t \in {tab, "profile"} : Go(t, NoScreen, calls)
    ELSE Go(tab, NoScreen, [c \in Call |-> IF calls[c].kind \in BoardCall \cup {"none"}
                                           THEN calls[c] ELSE [calls[c] EXCEPT !.own = FALSE]])

PressBack ==
    /\ over # NoScreen
    /\ Back(call)
    /\ UNCHANGED <<server, busyKey, behind>>

onViewExpenses ==
    /\ BoardUp
    /\ \E u \in User : RowOpens(u) /\ Go(tab, [kind |-> "friend", user |-> u], call)
    /\ UNCHANGED <<server, busyKey, behind>>

openBlockedAccounts ==
    /\ tab = "profile" /\ over = NoScreen
    /\ Go(tab, [kind |-> "blocked", user |-> Nobody], call)
    /\ UNCHANGED <<server, busyKey, behind>>

----------------------------------------------------------------------------
(* Loads.                                                                  *)

ReadRequests(c) ==
    /\ call[c].kind \in BoardCall /\ call[c].phase = "loading" /\ call[c].requests = NotRead
    /\ call' = [call EXCEPT ![c].requests = listForUser]
    /\ UNCHANGED <<server, screens, behind>>

ReadRows(c) ==
    /\ call[c].phase = "loading" /\ call[c].rows = NotRead
    /\ call' = [call EXCEPT ![c].rows =
          CASE ListOf(call[c]) = "board"   -> participants
            [] ListOf(call[c]) = "friend"  -> {u \in {call[c].user} : MayRead(u)}
            [] ListOf(call[c]) = "blocked" -> blocks]
    /\ UNCHANGED <<server, screens, behind>>

Retry ==
    /\ RetryUp
    /\ \E c \in Call :
          /\ call[c] = NoCall
          /\ call' = [call EXCEPT ![c] =
                Load(IF over = NoScreen THEN "board" ELSE over.kind, over.user)]
    /\ board' = IF over = NoScreen THEN Loading ELSE board
    /\ friend' = IF over.kind = "friend" THEN [friend EXCEPT !.state = Loading] ELSE friend
    /\ blocked' = IF over.kind = "blocked" THEN Loading ELSE blocked
    /\ UNCHANGED <<server, tab, over, busyKey, busyUsername, behind>>

\* An answer is for the list that asked, unless its screen is gone.  An action of
\* the tab frees its request with the end of its load.
Shows(c, state, calls) ==
    LET list == IF call[c].own \/ call[c].kind \in BoardCall THEN ListOf(call[c]) ELSE "none"
    IN  /\ board' = IF list = "board" THEN state ELSE board
        /\ friend' = IF list = "friend" THEN [friend EXCEPT !.state = state] ELSE friend
        /\ blocked' = IF list = "blocked" THEN state ELSE blocked
        /\ behind' = IF list = "none" \/ state = Failed THEN behind
                     ELSE IF call[c].old THEN behind \cup {list} ELSE behind \ {list}
        /\ busyKey' = IF call[c].kind \in {"accept", "remove"} THEN NoKey ELSE busyKey
        /\ call' = [calls EXCEPT ![c] = NoCall]
        /\ UNCHANGED <<server, tab, over, busyUsername>>

\* A Friend's screen says 403 and 404 in words of its own.
LoadArrives(c) ==
    LET r == call[c] IN
    /\ r.phase = "loading" /\ r.rows # NotRead
    /\ r.kind \in BoardCall => r.requests # NotRead
    /\ Shows(c, IF r.kind = "friend" /\ r.rows = {} THEN Failed ELSE Loaded(r.requests, r.rows),
             call)

\* The form of the tab goes with its list.
LoadFails(c) ==
    /\ call[c].phase = "loading"
    /\ Shows(c, Failed,
             [d \in Call |-> IF call[c].kind \in BoardCall /\ call[d].kind = "send"
                             THEN [call[d] EXCEPT !.own = FALSE] ELSE call[d]])

----------------------------------------------------------------------------
(* Actions.                                                                *)

Acts(r) == r.phase # "none" /\ r.kind \notin List

\* A list on screen that is asked for again, as on coming back to it.
Reloading(list) == \E d \in Call : call[d].kind = list /\ call[d].own

\* News to a call: that its list was behind or loading again, and that a call for
\* another row or of a screen left was under way as well.
Ask(c, kind, u, n, list) ==
    LET crossed == \E d \in Call :
            Acts(call[d]) /\ \/ call[d].news \/ ~call[d].own
                             \/ <<call[d].user, call[d].n>> # <<u, n>>
    IN
    /\ call[c] = NoCall
    /\ call' = [[d \in Call |-> [call[d] EXCEPT !.news = @ \/ (Acts(call[d]) /\ crossed)]]
                  EXCEPT ![c] = [NoCall EXCEPT !.kind = kind, !.user = u, !.n = n,
                                     !.phase = "sent", !.news = crossed \/ list \in behind
                                                             \/ Reloading(list)]]
    /\ UNCHANGED <<server, tab, over, board, blocked, behind>>

onSend(c) ==
    /\ BoardUp /\ FormEnabled
    /\ \E u \in User : Ask(c, "send", u, 0, "board")
    /\ UNCHANGED <<busyKey, friend, busyUsername>>

\* Accept, or decline or cancel.
runAction(c) ==
    /\ BoardUp
    /\ \E request \in board.requests, kind \in {"accept", "remove"} :
          /\ RequestEnabled(request, kind)
          /\ Ask(c, kind, request.user, request.n, "board")
          /\ busyKey' = <<request.user, request.n>>
    /\ UNCHANGED <<friend, busyUsername>>

confirmUnfriend(c) ==
    /\ FriendUp /\ UnfriendEnabled
    /\ Ask(c, "unfriend", over.user, 0, "friend")
    /\ friend' = [friend EXCEPT !.unfriendBusy = TRUE]
    /\ UNCHANGED <<busyKey, busyUsername>>

confirmBlock(c) ==
    /\ FriendUp /\ BlockEnabled
    /\ Ask(c, "block", over.user, 0, "friend")
    /\ friend' = [friend EXCEPT !.blockBusy = TRUE]
    /\ UNCHANGED <<busyKey, busyUsername>>

onUnblock(c) ==
    /\ BlockedUp
    /\ \E u \in User :
          /\ UnblockEnabled(u)
          /\ Ask(c, "unblock", u, 0, "blocked")
          /\ busyUsername' = u
    /\ UNCHANGED <<busyKey, friend>>

\* The tab awaits the load that follows before it frees the row.
BoardActionDoneSlip(c) ==           \* frees it first
    /\ call[c].phase = "done" /\ call[c].kind \in BoardCall
    /\ call' = [call EXCEPT ![c].phase = "loading"]
    /\ board' = IF board.status = "loaded" THEN board ELSE Loading
    /\ busyKey' = NoKey
    /\ UNCHANGED <<server, tab, over, friend, blocked, busyUsername, behind>>
BoardActionDone(c) ==
    /\ call[c].phase = "done" /\ call[c].kind \in BoardCall
    /\ call' = [call EXCEPT ![c].phase = "loading"]
    /\ board' = IF board.status = "loaded" THEN board ELSE Loading
    /\ UNCHANGED <<server, tab, over, busyKey, friend, blocked, busyUsername, behind>>

\* router.back(), whichever screen is up.
FriendActionDone(c) ==
    /\ call[c].phase = "done" /\ call[c].kind \in {"unfriend", "block"}
    /\ Back([call EXCEPT ![c] = NoCall])
    /\ UNCHANGED <<server, busyKey, behind>>

\* "No refetch": the row goes, and whichever row was busy is free.
UnblockDoneSlip(c) ==               \* the row stays
    /\ call[c].phase = "done" /\ call[c].kind = "unblock"
    /\ call' = [call EXCEPT ![c] = NoCall]
    /\ busyUsername' = IF call[c].own THEN Nobody ELSE busyUsername
    /\ UNCHANGED <<server, tab, over, board, busyKey, friend, blocked, behind>>
UnblockDone(c) ==
    /\ call[c].phase = "done" /\ call[c].kind = "unblock"
    /\ blocked' = IF call[c].own /\ blocked.status = "loaded"
                  THEN [blocked EXCEPT !.rows = @ \ {call[c].user}] ELSE blocked
    /\ busyUsername' = IF call[c].own THEN Nobody ELSE busyUsername
    /\ call' = [call EXCEPT ![c] = NoCall]
    /\ UNCHANGED <<server, tab, over, board, busyKey, friend, behind>>

\* Refused, or without an answer, whether or not it was carried out.
ActionFails(c) ==
    LET r == call[c] IN
    /\ r.phase \in {"sent", "done", "refused"}
    /\ call' = [call EXCEPT ![c] = NoCall]
    /\ busyKey' = IF r.kind \in {"accept", "remove"} THEN NoKey ELSE busyKey
    /\ friend' = [friend EXCEPT !.unfriendBusy = @ /\ ~(r.own /\ r.kind = "unfriend"),
                                !.blockBusy = @ /\ ~(r.own /\ r.kind = "block")]
    /\ busyUsername' = IF r.own /\ r.kind = "unblock" THEN Nobody ELSE busyUsername
    /\ behind' = IF r.phase = "done" THEN List ELSE behind
    /\ UNCHANGED <<server, tab, over, board, blocked>>

Next ==
    \/ \E c \in Call :
          \/ Served(c)
          \/ ReadRequests(c) \/ ReadRows(c) \/ LoadArrives(c) \/ LoadFails(c)
          \/ onSend(c) \/ runAction(c) \/ confirmUnfriend(c) \/ confirmBlock(c) \/ onUnblock(c)
          \/ BoardActionDone(c) \/ FriendActionDone(c) \/ UnblockDone(c) \/ ActionFails(c)
    \/ PressTab \/ PressBack \/ onViewExpenses \/ openBlockedAccounts \/ Retry
    \/ Elsewhere

Spec == Init /\ [][Next]_vars

----------------------------------------------------------------------------
Idle == \A c \in Call : call[c] = NoCall

\* At rest each list on screen is what the server holds, with no shared state to
\* tell one screen what another one did: the tab reloads after each action and on
\* focus, "so it drops this Friend's row" ([username].tsx:162), and an unblock
\* leaves the list "exactly one row shorter" (blocked-accounts.tsx:121).  Voided
\* by what happened elsewhere, by an answer lost, by a screen left before its
\* answer, and by an older load that answers last.
ListsKeepUp ==
    Idle =>
    /\ over = NoScreen /\ tab = "leaderboard" /\ board.status = "loaded" /\ "board" \notin behind
           => board = Loaded(listForUser, participants)
    /\ over.kind = "friend" /\ friend.state.status = "loaded" /\ "friend" \notin behind
           => MayRead(over.user)
    /\ over.kind = "blocked" /\ blocked.status = "loaded" /\ "blocked" \notin behind
           => blocked.rows = blocks

\* A refusal is news: pressed one at a time, on lists that keep up, no Accept,
\* Decline, Cancel or Unblock is refused for what the User did before, so that an
\* error under a request means that somebody else was first.  The disabled row is
\* what "guards against a second tap racing the first" (leaderboard.tsx:94); two
\* rows pressed at once free each other, a list that loads again is up meanwhile as
\* it was, and a screen left and opened again knows of no call: these void it.
RefusalsAreNews ==
    \A c \in Call :
        call[c].phase = "refused" /\ call[c].kind \in {"accept", "remove", "unblock"}
            => call[c].news
=============================================================================
