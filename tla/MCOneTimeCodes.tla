--------------------------- MODULE MCOneTimeCodes ---------------------------
(***************************************************************************)
(* OneTimeCodes on a small instance.  A behaviour either runs its handlers *)
(* one at a time or lets them overlap.                                     *)
(***************************************************************************)
EXTENDS OneTimeCodes

VARIABLE alone          \* whether the handlers of this behaviour never overlap

MCInit == Init /\ alone \in BOOLEAN

MCNext ==
    /\ UNCHANGED alone
    /\ \/ \E h \in Slot :
             /\ Handler(h)
             /\ alone => \A g \in Slot \ {h} : pc[g] = "idle"
       \/ Tick

MCSpec == MCInit /\ [][MCNext]_<<vars, alone>>

\* One at a time, the handlers implement CodeRules: a code lives until it is
\* confirmed, superseded, expired or guessed at too often, and no longer; and it is
\* superseded only once the cooldown of its issue is over.
ImplementsRules ==
    /\ Rules!Init
    /\ [][alone => Rules!Next /\ (latest' # latest /\ Live =>
              row'.createdAt >= row.createdAt + Cooldown)]_(Rules!vars)

\* And the attempts counted against a code are the wrong guesses of that very
\* code, none carried over from the one it replaced, and MaxFailed at most.
CountsOwnGuesses ==
    alone /\ Live => row.failedAttempts = wrong[row.code] /\ wrong[row.code] <= MaxFailed
=============================================================================
