---------------------------- MODULE OneTimeCodes ----------------------------
(***************************************************************************)
(* The One-Time Code machinery of one (User, Purpose): issuing a code,     *)
(* storing its hash as the only live row, and confirming a guess.  The     *)
(* handlers of concurrent requests interleave at their awaits: each action *)
(* is the code between two awaits, with the database statement that ends   *)
(* the first.  Rows of other Users and Purposes are never touched.         *)
(*                                                                         *)
(* A code is the number of its generation.  Two random 6-digit codes that  *)
(* happen to be equal are left out, and so is the hash: a guess verifies   *)
(* against the stored code exactly when it is that code.  A code goes to   *)
(* its owner by email; a guess may be any code, or 0, a wrong one.         *)
(***************************************************************************)
EXTENDS Integers, FiniteSets

CONSTANTS Slot,         \* the handlers the server runs at a time
          Cooldown,     \* ONE_TIME_CODE_COOLDOWN_MS
          Ttl,          \* ttlMs, per Purpose
          MaxFailed,    \* MAX_FAILED_ATTEMPTS
          MaxCodes,     \* bound on the codes generated
          MaxTime       \* bound on the clock

ASSUME SlotAssumption == IsFiniteSet(Slot)
ASSUME TimeAssumption == Cooldown \in Nat /\ Ttl \in Nat
ASSUME LimitAssumption == MaxFailed \in Nat \ {0}
ASSUME BoundAssumption == MaxCodes \in Nat /\ MaxTime \in Nat

VARIABLES
    now,        \* the injected Clock
    row,        \* the one_time_codes row of this (userId, purpose), or NoRow
    nextRow,    \* the id of the next row created
    nextCode,   \* the next code generated
    pc, job,    \* each handler's next statement and local variables
    storedIn,   \* history: the row each code was written to, 0 for none
    latest,     \* history: the code most recently stored, 0 for none
    wrong,      \* history: wrong guesses made against each code
    won         \* history: the codes whose confirm returned true

vars == <<now, row, nextRow, nextCode, pc, job, storedIn, latest, wrong, won>>

Code == 1..MaxCodes

Row(id, code, failedAttempts, createdAt, expiresAt) ==
    [id |-> id, code |-> code, failedAttempts |-> failedAttempts,
     createdAt |-> createdAt, expiresAt |-> expiresAt]

\* findLive's null: no row has the id 0.
NoRow == Row(0, 0, 0, 0, 0)
Live == row.id # 0

Locals(at, code, guess, id) == [at |-> at, code |-> code, guess |-> guess, id |-> id]
NoJob == Locals(0, 0, 0, 0)

Init ==
    /\ now = 0
    /\ row = NoRow
    /\ nextRow = 1 /\ nextCode = 1
    /\ pc = [h \in Slot |-> "idle"]
    /\ job = [h \in Slot |-> NoJob]
    /\ storedIn = [c \in Code |-> 0]
    /\ latest = 0
    /\ wrong = [c \in Code |-> 0]
    /\ won = {}

Goto(h, where, locals) ==
    /\ pc' = [pc EXCEPT ![h] = where]
    /\ job' = [job EXCEPT ![h] = locals]

Answer(h) == Goto(h, "idle", NoJob)

----------------------------------------------------------------------------
(* issue: the clock is read first, the row next.                           *)

IssueStart(h) ==
    /\ pc[h] = "idle"
    /\ Goto(h, "issue:find", Locals(now, 0, 0, 0))
    /\ UNCHANGED <<now, row, nextRow, nextCode, storedIn, latest, wrong, won>>

CoolingDown(h) == Live /\ job[h].at < row.createdAt + Cooldown

IssueFind(h) ==
    /\ pc[h] = "issue:find"
    /\ \/ /\ CoolingDown(h)
          /\ Answer(h)
          /\ UNCHANGED nextCode
       \/ /\ ~CoolingDown(h)
          /\ nextCode \in Code
          /\ Goto(h, "issue:store", Locals(job[h].at, nextCode, 0, 0))
          /\ nextCode' = nextCode + 1
    /\ UNCHANGED <<now, row, nextRow, storedIn, latest, wrong, won>>

\* An operator named ...Slip is the one after it with a mistake in it: no
\* specification uses it; it shows that a property notices the mistake.
UpsertKeepsCountSlip(code, createdAt) ==
    /\ row' = Row(IF Live THEN row.id ELSE nextRow, code, row.failedAttempts,
                  createdAt, createdAt + Ttl)
    /\ nextRow' = IF Live THEN nextRow ELSE nextRow + 1

UpsertExpirySlip(code, createdAt) ==
    /\ row' = Row(IF Live THEN row.id ELSE nextRow, code, 0, createdAt, createdAt - Ttl)
    /\ nextRow' = IF Live THEN nextRow ELSE nextRow + 1

\* Replacing a live row keeps its id.
Upsert(code, createdAt) ==
    /\ row' = Row(IF Live THEN row.id ELSE nextRow, code, 0, createdAt, createdAt + Ttl)
    /\ nextRow' = IF Live THEN nextRow ELSE nextRow + 1

IssueStore(h) ==
    /\ pc[h] = "issue:store"
    /\ Upsert(job[h].code, job[h].at)
    /\ storedIn' = [storedIn EXCEPT ![job[h].code] = row'.id]
    /\ latest' = job[h].code
    /\ Goto(h, "issued", job[h])
    /\ UNCHANGED <<now, nextCode, wrong, won>>

----------------------------------------------------------------------------
(* confirm: the row is read, then the slow hash comparison runs, then the  *)
(* row is written by the id that was read.                                 *)

UsableForeverSlip == Live /\ now <= row.expiresAt
Usable == Live /\ now <= row.expiresAt /\ row.failedAttempts < MaxFailed

ConfirmFind(h, guess) ==
    /\ pc[h] = "idle"
    /\ Usable
    /\ Goto(h, "confirm:verify", Locals(0, row.code, guess, row.id))
    /\ UNCHANGED <<now, row, nextRow, nextCode, storedIn, latest, wrong, won>>

\* incrementFailedAttempts throws when the row is gone: a 500, not a false.
ConfirmMismatch(h) ==
    /\ pc[h] = "confirm:verify"
    /\ job[h].guess # job[h].code
    /\ wrong' = [wrong EXCEPT ![job[h].code] = @ + 1]
    /\ row' = IF row.id = job[h].id
              THEN Row(row.id, row.code, row.failedAttempts + 1, row.createdAt, row.expiresAt)
              ELSE row
    /\ Answer(h)
    /\ UNCHANGED <<now, nextRow, nextCode, storedIn, latest, won>>

ConfirmMatchKeepsSlip(h) ==     \* the row is left in place
    /\ pc[h] = "confirm:verify"
    /\ job[h].guess = job[h].code
    /\ won' = won \cup {job[h].code}
    /\ Goto(h, "confirmed", job[h])
    /\ UNCHANGED <<now, row, nextRow, nextCode, storedIn, latest, wrong>>

\* delete throws when the row is gone: a 500, and no confirmation.
ConfirmMatch(h) ==
    /\ pc[h] = "confirm:verify"
    /\ job[h].guess = job[h].code
    /\ \/ /\ row.id = job[h].id
          /\ row' = NoRow
          /\ won' = won \cup {job[h].code}
          /\ Goto(h, "confirmed", job[h])
       \/ /\ row.id # job[h].id
          /\ Answer(h)
          /\ UNCHANGED <<row, won>>
    /\ UNCHANGED <<now, nextRow, nextCode, storedIn, latest, wrong>>

----------------------------------------------------------------------------
\* The caller goes on with the code (and emails it), or with the confirmation.
Return(h) ==
    /\ pc[h] \in {"issued", "confirmed"}
    /\ Answer(h)
    /\ UNCHANGED <<now, row, nextRow, nextCode, storedIn, latest, wrong, won>>

\* A handler dies at an await: the process stops, the database is out of reach.
Crash(h) ==
    /\ pc[h] \notin {"idle", "issued", "confirmed"}
    /\ Answer(h)
    /\ UNCHANGED <<now, row, nextRow, nextCode, storedIn, latest, wrong, won>>

Tick ==
    /\ now < MaxTime
    /\ now' = now + 1
    /\ UNCHANGED <<row, nextRow, nextCode, pc, job, storedIn, latest, wrong, won>>

Handler(h) ==
    \/ IssueStart(h) \/ IssueFind(h) \/ IssueStore(h)
    \/ \E guess \in 0..(nextCode - 1) : ConfirmFind(h, guess)
    \/ ConfirmMismatch(h) \/ ConfirmMatch(h)
    \/ Return(h) \/ Crash(h)

Next == (\E h \in Slot : Handler(h)) \/ Tick

Spec == Init /\ [][Next]_vars

----------------------------------------------------------------------------
Pc == {"idle", "issue:find", "issue:store", "issued", "confirm:verify", "confirmed"}
RowType == [id : Nat, code : Nat, failedAttempts : Nat, createdAt : Nat, expiresAt : Nat]
JobType == [at : Nat, code : Nat, guess : Nat, id : Nat]

\* There is at most one row, and every handler is between two awaits.
TypeOK ==
    /\ now \in Nat
    /\ row \in RowType
    /\ nextRow \in Nat \ {0}
    /\ nextCode \in Nat \ {0}
    /\ pc \in [Slot -> Pc]
    /\ job \in [Slot -> JobType]
    /\ storedIn \in [Code -> Nat]
    /\ latest \in Nat
    /\ wrong \in [Code -> Nat]
    /\ won \subseteq Code

Confirms(h) == pc[h] # "confirmed" /\ pc'[h] = "confirmed"

(* However the handlers interleave.                                        *)

\* A code is single-use: whatever confirms of it race, crash or are retried,
\* and however often it is replaced, one of them at most returns true.
SingleUse == [][\A h \in Slot : Confirms(h) => job[h].code \notin won]_vars

\* A confirmation ends the row it was made on: of all the codes that replaced
\* each other in one row, one at most is ever confirmed.
OneWinPerRow == \A c, d \in won : storedIn[c] = storedIn[d] => c = d

\* Racing requests overshoot the limit of wrong guesses by at most one each:
\* what a code tolerates is bounded whatever the traffic.
WrongGuessesBounded == \A c \in Code : wrong[c] < MaxFailed + Cardinality(Slot)

(* What the callers build on, each operation as one indivisible step.  A   *)
(* code that expires while a confirm compares it is live until then.       *)
Held == \E h \in Slot : pc[h] = "confirm:verify" /\ job[h].id = row.id
Rules == INSTANCE CodeRules WITH
    Code   <- Code,
    live   <- IF Usable \/ (Live /\ Held) THEN row.code ELSE 0,
    newest <- latest,
    used   <- won
=============================================================================
