----------------------------- MODULE MCAccounts -----------------------------
(***************************************************************************)
(* Accounts on small instances.  A behaviour either runs its handlers one  *)
(* at a time, which needs the longer clock, or lets them overlap, within   *)
(* the Racing bounds.                                                      *)
(***************************************************************************)
EXTENDS Accounts

CONSTANTS RacingPassword, RacingTokens, RacingTime      \* bounds, when handlers overlap

VARIABLE alone          \* whether the handlers of this behaviour never overlap

MCInit == Init /\ alone \in BOOLEAN

StartsSession(h) == pc[h] = "idle" /\ pc'[h] \in {"signUp:create", "session:sign"}

MCNext ==
    /\ UNCHANGED alone
    /\ \/ \E h \in Slot :
             /\ Handler(h)
             /\ alone => \A g \in Slot \ {h} : pc[g] = "idle"
       \/ LapseReset \/ LapseVerification \/ Tick
    /\ \/ alone
       \/ /\ \A h \in Slot : job'[h].password \in RacingPassword \cup {0}
          /\ \A h \in Slot : StartsSession(h) => Cardinality(tokens) < RacingTokens
          /\ now' <= RacingTime

MCSpec == MCInit /\ [][MCNext]_<<vars, alone>>

(* When one handler runs at a time; two that overlap break each of these.  *)

\* A session opened with a password that was since replaced is over, except
\* one from the very second of the stamp, which the guard lets live.
OldPasswordSessionsEnd ==
    alone => \A t \in tokens : Accepted(t) =>
        t.password = user.password \/ InSeconds(t.at) = InSeconds(user.changedAt)

\* A session the guard rejects is never accepted again.
RevokedStaysRevoked ==
    [][alone => \A t \in tokens : Exists /\ ~Accepted(t) => ~Accepted(t)']_vars
=============================================================================
