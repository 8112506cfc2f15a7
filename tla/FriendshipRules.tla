-------------------------- MODULE FriendshipRules --------------------------
(***************************************************************************)
(* What the friends and blocks modules promise their callers (the          *)
(* Friendship, Friend Request and Block entries of backend/CONTEXT.md, as  *)
(* the handlers' checks and transactions carry them out): every request of *)
(* a client is one indivisible step on who offered Friendship to whom, who *)
(* are Friends and who blocked whom.  SocialGraph is the same program      *)
(* statement by statement.                                                 *)
(***************************************************************************)
CONSTANT User

VARIABLES offers,   \* <<sender, recipient>> of every pending Friend Request
          friends,  \* {u, v} of every Friendship
          blocks    \* <<blocker, blocked>> of every Block

vars == <<offers, friends, blocks>>

Init == offers = {} /\ friends = {} /\ blocks = {}

Blocked(u, v) == <<u, v>> \in blocks \/ <<v, u>> \in blocks
Both(u, v) == {<<u, v>>, <<v, u>>}

Send(u, v) ==
    /\ u # v
    /\ ~Blocked(u, v)
    /\ {u, v} \notin friends
    /\ Both(u, v) \cap offers = {}
    /\ offers' = offers \cup {<<u, v>>}
    /\ UNCHANGED <<friends, blocks>>

\* u accepts what v sent.
Accept(u, v) ==
    /\ <<v, u>> \in offers
    /\ offers' = offers \ Both(u, v)
    /\ friends' = friends \cup {{u, v}}
    /\ UNCHANGED blocks

\* Declined by v or cancelled by u.
Remove(u, v) ==
    /\ <<u, v>> \in offers
    /\ offers' = offers \ {<<u, v>>}
    /\ UNCHANGED <<friends, blocks>>

Unfriend(u, v) ==
    /\ {u, v} \in friends
    /\ friends' = friends \ {{u, v}}
    /\ UNCHANGED <<offers, blocks>>

Block(u, v) ==
    /\ u # v
    /\ ~Blocked(u, v)
    /\ blocks' = blocks \cup {<<u, v>>}
    /\ friends' = friends \ {{u, v}}
    /\ offers' = offers \ Both(u, v)

\* Restores no Friendship.
Unblock(u, v) ==
    /\ <<u, v>> \in blocks
    /\ blocks' = blocks \ {<<u, v>>}
    /\ UNCHANGED <<offers, friends>>

Next == \E u, v \in User :
    \/ Send(u, v) \/ Accept(u, v) \/ Remove(u, v)
    \/ Unfriend(u, v) \/ Block(u, v) \/ Unblock(u, v)

Spec == Init /\ [][Next]_vars

----------------------------------------------------------------------------
TypeOK ==
    /\ offers \subseteq User \X User
    /\ friends \subseteq SUBSET User
    /\ blocks \subseteq User \X User

\* Between two Users there is at most one of a Block, a Friendship and a
\* pending request, a request in one direction at most, and nobody is related
\* to himself.
Exclusive ==
    \A u, v \in User :
        /\ <<u, v>> \in blocks => /\ u # v
                                  /\ {u, v} \notin friends
                                  /\ Both(u, v) \cap offers = {}
                                  /\ <<v, u>> \notin blocks
        /\ <<u, v>> \in offers => /\ u # v
                                  /\ {u, v} \notin friends
                                  /\ <<v, u>> \notin offers
=============================================================================
