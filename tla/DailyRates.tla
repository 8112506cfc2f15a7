----------------------------- MODULE DailyRates -----------------------------
(***************************************************************************)
(* The Daily Rate table: the catch-up that fills it from the provider, run *)
(* at boot and by a daily cron, and the conversion that reads it while an  *)
(* Expense is logged.  Two catch-ups may overlap (a boot and a cron), and  *)
(* both interleave with the conversion, one action per await; the upserts  *)
(* of a date's pairs are one transaction of one statement per pair, which  *)
(* keeps the row of each pair it wrote locked until it ends.               *)
(*                                                                         *)
(* A date is the number of its day, a pair the place of its quote in the   *)
(* order assembleDailyRateQuotes gives them.  The provider's document of a *)
(* date never changes once published, so a rate is known by where it came  *)
(* from; the seed of a developer's database covers some pairs of day 1.    *)
(* The amounts themselves are left out.                                    *)
(*                                                                         *)
(* An operator named ...Slip is the operator below it with a mistake; no   *)
(* action uses one.                                                        *)
(***************************************************************************)
EXTENDS Integers, FiniteSets

CONSTANTS Run,          \* the catch-ups that may overlap
          Pairs,        \* how many ordered pairs there are
          Backfill,     \* DAILY_RATES_BACKFILL_DAYS
          Seeded,       \* the pairs the seed covers on day 1
          MaxDay        \* bound on the calendar

ASSUME SizeAssumption == Pairs \in Nat \ {0} /\ MaxDay \in Nat \ {0}
ASSUME BackfillAssumption == Backfill \in Nat
ASSUME SeedAssumption == Seeded \subseteq 1..Pairs

RateDate == 1..MaxDay
Pair == 1..Pairs
FULL_MATRIX_SIZE == Pairs

VARIABLES
    today,          \* the calendar date in APP_TIMEZONE
    published,      \* the dates the provider has a document for
    rates,          \* of each date and pair: where its rate is from, or "none"
    pc, job,        \* each catch-up's next statement and local variables
    owed,           \* history: dates a catch-up found published when it began
    logging,        \* the logging date of the conversion, 0 when there is none
    left,           \* the pairs it has still to look up
    entry,          \* the date of the rate each entry uses, 0 for none
    floor           \* history: the newest date each pair had when it began

running == <<pc, job, owed>>
conversion == <<logging, left, entry, floor>>
vars == <<today, published, rates, running, conversion>>

\* The last date of a catch-up's window, the date its loop has come to, and the
\* pair whose upsert is next.
Locals(end, date, pair) == [end |-> end, date |-> date, pair |-> pair]
NoJob == Locals(0, 0, 0)

Unrated == [p \in Pair |-> "none"]
Seed == [p \in Pair |-> IF p \in Seeded THEN "seed" ELSE "none"]
Matrix == [p \in Pair |-> "provider"]

Initial(d) == IF d = 1 THEN Seed ELSE Unrated

Init ==
    /\ today = 1
    /\ published = {}
    /\ rates = [d \in RateDate |-> Initial(d)]
    /\ pc = [r \in Run |-> "idle"]
    /\ job = [r \in Run |-> NoJob]
    /\ owed = [r \in Run |-> {}]
    /\ logging = 0
    /\ left = {}
    /\ entry = [p \in Pair |-> 0]
    /\ floor = [p \in Pair |-> 0]

----------------------------------------------------------------------------
(* The world: the day changes; the provider publishes a date during it, or *)
(* later, or never.                                                        *)

Midnight ==
    /\ today < MaxDay
    /\ today' = today + 1
    /\ UNCHANGED <<published, rates, running, conversion>>

Publish(d) ==
    /\ d <= today /\ d \notin published
    /\ published' = published \cup {d}
    /\ UNCHANGED <<today, rates, running, conversion>>

----------------------------------------------------------------------------
(* catchUp                                                                 *)

Oldest(d) == IF d > Backfill THEN d - Backfill ELSE 1

\* Backfill + 1 dates; those before day 1 are none of this calendar's.
Window(d) == {e \in RateDate : Oldest(d) <= e /\ e <= d}

Goto(r, where, locals) ==
    /\ pc' = [pc EXCEPT ![r] = where]
    /\ job' = [job EXCEPT ![r] = locals]

Start(r) ==
    /\ pc[r] = "idle"
    /\ Goto(r, "count", Locals(today, Oldest(today), 1))
    /\ owed' = [owed EXCEPT ![r] = {d \in published : d + Backfill >= today}]
    /\ UNCHANGED <<today, published, rates, conversion>>

NextDateSlip(r) ==
    IF job[r].date \in Window(job[r].end)
    THEN Goto(r, "count", Locals(job[r].end, job[r].date + 1, 1))
    ELSE Goto(r, "idle", NoJob)

NextDate(r) ==
    IF job[r].date + 1 \in Window(job[r].end)
    THEN Goto(r, "count", Locals(job[r].end, job[r].date + 1, 1))
    ELSE Goto(r, "idle", NoJob)

Has(d, p) == rates[d][p] # "none"
countRatesOn(d) == Cardinality({p \in Pair : Has(d, p)})

FullSlip(d) == countRatesOn(d) > 0
Full(d) == countRatesOn(d) >= FULL_MATRIX_SIZE

CountRates(r) ==
    /\ pc[r] = "count"
    /\ IF Full(job[r].date) THEN NextDate(r) ELSE Goto(r, "fetch", job[r])
    /\ UNCHANGED <<today, published, rates, owed, conversion>>

Fetch(r) ==
    /\ pc[r] = "fetch"
    /\ job[r].date \in published
    /\ Goto(r, "write", job[r])
    /\ UNCHANGED <<today, published, rates, owed, conversion>>

\* The pairs whose rows the transaction of a catch-up has locked.
Locked(r) == IF pc[r] = "write" THEN {<<job[r].date, p>> : p \in 1..(job[r].pair - 1)} ELSE {}

UpsertSlip(r) ==                \* each statement commits by itself
    /\ pc[r] = "write"
    /\ job[r].pair \in Pair
    /\ \A s \in Run \ {r} : <<job[r].date, job[r].pair>> \notin Locked(s)
    /\ Goto(r, "write", Locals(job[r].end, job[r].date, job[r].pair + 1))
    /\ rates' = [rates EXCEPT ![job[r].date][job[r].pair] = "provider"]
    /\ UNCHANGED <<today, published, owed, conversion>>

Upsert(r) ==
    /\ pc[r] = "write"
    /\ job[r].pair \in Pair
    /\ \A s \in Run \ {r} : <<job[r].date, job[r].pair>> \notin Locked(s)
    /\ Goto(r, "write", Locals(job[r].end, job[r].date, job[r].pair + 1))
    /\ UNCHANGED <<today, published, rates, owed, conversion>>

Commit(r) ==
    /\ pc[r] = "write"
    /\ job[r].pair \notin Pair
    /\ rates' = [rates EXCEPT ![job[r].date] = Matrix]
    /\ NextDate(r)
    /\ UNCHANGED <<today, published, owed, conversion>>

FailRetriesSlip(r) ==           \* the date is tried again
    /\ pc[r] \in {"count", "fetch", "write"}
    /\ Goto(r, "count", Locals(job[r].end, job[r].date, 1))
    /\ owed' = [owed EXCEPT ![r] = @ \ {job[r].date}]
    /\ UNCHANGED <<today, published, rates, conversion>>

\* The provider or the database fails, or a transaction rolls back, or the
\* provider has nothing to give: the date is given up, the loop goes on.
Fail(r) ==
    /\ pc[r] \in {"count", "fetch", "write"}
    /\ NextDate(r)
    /\ owed' = [owed EXCEPT ![r] = @ \ {job[r].date}]
    /\ UNCHANGED <<today, published, rates, conversion>>

NoConversion ==
    /\ logging' = 0 /\ left' = {}
    /\ entry' = [p \in Pair |-> 0] /\ floor' = [p \in Pair |-> 0]

\* The process stops; what has not committed is rolled back.
Crash ==
    /\ pc' = [r \in Run |-> "idle"]
    /\ job' = [r \in Run |-> NoJob]
    /\ owed' = [r \in Run |-> {}]
    /\ NoConversion
    /\ UNCHANGED <<today, published, rates>>

----------------------------------------------------------------------------
(* ExpensesService.create: the logging date is read once, the pairs are    *)
(* looked up side by side, and the Expense is stored when all are found.   *)

Newest(S) == IF S = {} THEN 0 ELSE CHOOSE d \in S : \A e \in S : e <= d

MostRecentSlip(p, date) == Newest({d \in RateDate : Has(d, p)})
\* findMostRecentAtOrBefore
MostRecent(p, date) == Newest({d \in RateDate : d <= date /\ Has(d, p)})

Log ==
    /\ logging = 0
    /\ logging' = today
    /\ left' = Pair
    /\ entry' = [p \in Pair |-> 0]
    /\ floor' = [p \in Pair |-> Newest({d \in 1..today : Has(d, p)})]
    /\ UNCHANGED <<today, published, rates, running>>

LookUp(p) ==
    /\ p \in left
    /\ left' = left \ {p}
    /\ entry' = [entry EXCEPT ![p] = MostRecent(p, logging)]
    /\ UNCHANGED <<today, published, rates, running, logging, floor>>

\* Logged with its Conversion Snapshot, or refused with a 503.
Logged ==
    /\ logging # 0 /\ left = {}
    /\ NoConversion
    /\ UNCHANGED <<today, published, rates, running>>

----------------------------------------------------------------------------
\* What a catch-up does of itself.
Step(r) ==
    \/ CountRates(r) \/ Fetch(r) \/ Upsert(r) \/ Commit(r) \/ Fail(r)

Next ==
    \/ Midnight
    \/ \E d \in RateDate : Publish(d)
    \/ \E r \in Run : Start(r) \/ Step(r)
    \/ Crash
    \/ Log \/ Logged \/ \E p \in Pair : LookUp(p)

Spec == Init /\ [][Next]_vars

\* The event loop runs what is ready, fetch has a timeout of its own, and of those
\* that wait for a lock the database serves the first: none waits for ever while
\* others take it again and again.
FairSpec ==
    /\ Spec
    /\ \A r \in Run : /\ WF_vars(CountRates(r) \/ Commit(r))
                     /\ WF_vars(pc[r] = "fetch" /\ (Fetch(r) \/ Fail(r)))
                     /\ SF_vars(Upsert(r))

----------------------------------------------------------------------------
TypeOK ==
    /\ today \in RateDate
    /\ published \subseteq 1..today
    /\ rates \in [RateDate -> [Pair -> {"none", "seed", "provider"}]]
    /\ pc \in [Run -> {"idle", "count", "fetch", "write"}]
    /\ job \in [Run -> [end : 0..today, date : 0..today, pair : 0..(Pairs + 1)]]
    /\ owed \in [Run -> SUBSET published]
    /\ logging \in 0..today
    /\ left \subseteq Pair
    /\ entry \in [Pair -> 0..today]
    /\ floor \in [Pair -> 0..today]

\* Whatever overlaps, fails or crashes, a date holds what it held at first or one
\* whole matrix of the provider: no update half-applies.
MatrixWhole == \A d \in RateDate : rates[d] \in {Initial(d), Matrix}

\* A catch-up that has ended leaves full every date of its window that the
\* provider had when it began, unless that very date failed: the failure of one
\* date never costs another.
RunCovers ==
    \A r \in Run : \A d \in owed[r] :
        pc[r] = "idle" \/ d < job[r].date => \A p \in Pair : Has(d, p)

\* While rates arrive and midnight passes, an entry uses a rate no older than the
\* newest its pair had when the Expense was logged, and none of a later date.
EntriesAreCurrent ==
    logging # 0 => \A p \in Pair \ left : floor[p] <= entry[p] /\ entry[p] <= logging

\* Catch-ups that overlap never wait for each other for good: each one ends.
RunsEnd == \A r \in Run : pc[r] # "idle" ~> pc[r] = "idle"
=============================================================================
