--------------------------- MODULE MCSocialGraph ---------------------------
(***************************************************************************)
(* SocialGraph on small instances.  A behaviour either runs its handlers   *)
(* one at a time, over all Users, as the repository's tests do, or lets    *)
(* them overlap, over one pair.  Handlers are interchangeable.             *)
(***************************************************************************)
EXTENDS SocialGraph, TLC

CONSTANT RacingUser     \* bound: the Users of handlers that may overlap

VARIABLE alone          \* whether the handlers of this behaviour never overlap

MCInit == Init /\ alone \in BOOLEAN

MCNext ==
    /\ UNCHANGED alone
    /\ \E h \in Slot :
          /\ Handler(h)
          /\ IF alone THEN \A g \in Slot \ {h} : pc[g] = "idle"
                      ELSE {job'[h].me, job'[h].peer} \subseteq RacingUser \cup {0}

MCVars == <<vars, alone>>
MCFairSpec ==
    /\ MCInit /\ [][MCNext]_MCVars
    /\ \A h \in Slot : SF_vars(Proceed(h)) /\ WF_vars(Victim(h))
MCSpec == Init /\ alone = FALSE /\ [][MCNext]_MCVars

\* One at a time, the handlers implement the atomic rules of FriendshipRules: a
\* Block severs and sweeps, a second request in either direction is refused, an
\* accept leaves none (so two Users have one relation at most, AlwaysExclusive).
ImplementsRules == Rules!Init /\ [][alone => Rules!Next]_(Rules!vars)

SlotSymmetry == Permutations(Slot)
=============================================================================
