----------------------------- MODULE CodeRules -----------------------------
(***************************************************************************)
(* What OneTimeCodesService promises Email Verification and Password Reset *)
(* of the codes of one User and Purpose, each operation one step: one live *)
(* code at most, the newest; confirming it uses it up; it may lapse, by    *)
(* its expiry or by wrong guesses.  OneTimeCodes is the service await by   *)
(* await; Accounts builds on these rules.                                  *)
(***************************************************************************)
EXTENDS Integers

CONSTANT Code       \* the codes, numbered from 1 as they are generated

VARIABLES live,     \* the code a confirm may use, 0 for none
          newest,   \* the code issued last, 0 for none
          used      \* the codes confirmed

vars == <<live, newest, used>>

Init == live = 0 /\ newest = 0 /\ used = {}

\* Whatever was live is superseded.  Stored too late, a code is dead at once.
Issue(c) ==
    /\ c > newest
    /\ live' \in {c, 0}
    /\ newest' = c
    /\ UNCHANGED used

Confirm(c) ==
    /\ live = c /\ c # 0
    /\ live' = 0
    /\ used' = used \cup {c}
    /\ UNCHANGED newest

Lapse ==
    /\ live # 0
    /\ live' = 0
    /\ UNCHANGED <<newest, used>>

Next == (\E c \in Code : Issue(c) \/ Confirm(c)) \/ Lapse

Spec == Init /\ [][Next]_vars
=============================================================================
