------------------------------ MODULE SeedData ------------------------------
(***************************************************************************)
(* prisma/seed.ts, the rows of a developer's database: four statements,    *)
(* each skipping the rows that collide with one there is, run again on     *)
(* whatever an earlier run, a crash or a developer left.  The rounding of  *)
(* the rates is left out; a rate is the fraction of two anchors.           *)
(***************************************************************************)
EXTENDS Stamps, FiniteSets

CONSTANT SUPPORTED_CURRENCIES

\* In hundred-thousandths of a US dollar.
USD_PER_UNIT(currency) ==
    CASE currency = "VND" -> 4 [] currency = "KRW" -> 72 [] currency = "JPY" -> 650
      [] currency = "THB" -> 2750 [] currency = "AUD" -> 65000 [] currency = "CAD" -> 72000
      [] currency = "SGD" -> 75000 [] currency = "USD" -> 100000
      [] currency = "EUR" -> 108000 [] OTHER -> 125000

fixtureRate(base, quote) == <<USD_PER_UNIT(base), USD_PER_UNIT(quote)>>

users == {"you", "mai", "tuan", "linh", "blocked", "stranger"}
userRows == {[id |-> u, name |-> u] : u \in users}

RATE_DATE == <<2026, 1, 1>>
RatePairs == {pair \in SUPPORTED_CURRENCIES \X SUPPORTED_CURRENCIES : pair[1] # pair[2]}
RateRow(id, pair) ==
    [id |-> id, pair |-> pair, date |-> RATE_DATE, rate |-> fixtureRate(pair[1], pair[2])]
buildDailyRates == {RateRow(pair, pair) : pair \in RatePairs}

\* Of each Expense its day of January 2026, Category, Visibility, currency, amount in
\* whole units, and the hour and minute of loggedAt in UTC.
Logs == <<
    <<5, "food", "friend_only", "VND", 45000, 1, 15>>, <<5, "other", "private", "VND", 65000, 11, 40>>,
    <<6, "leisure", "public", "USD", 50, 13, 0>>, <<7, "investment", "private", "VND", 5000000, 3, 0>>,
    <<8, "food", "public", "VND", 220000, 2, 30>>, <<9, "housing", "friend_only", "VND", 8500000, 0, 0>>,
    <<10, "transportation", "public", "VND", 35000, 0, 30>>, <<11, "vehicle", "private", "VND", 120000, 3, 0>>,
    <<12, "shopping", "friend_only", "VND", 650000, 5, 15>>, <<13, "health", "private", "VND", 450000, 2, 0>>,
    <<14, "education", "public", "VND", 1200000, 11, 0>>, <<15, "travel", "friend_only", "USD", 75, 6, 0>> >>

expenses == {
    LET log == Logs[n]
        date == calendarDateToDate(<<2026, 1, log[1]>>)
    IN  [id |-> n, ownerId |-> "you", category |-> log[2], visibility |-> log[3],
         currency |-> log[4], amount |-> log[5], expenseDate |-> date,
         loggedAt |-> date * Day + log[6] * Hour + log[7]] : n \in DOMAIN Logs}

buildConversions == {
    [expenseId |-> key[1].id, currency |-> key[2],
     rate |-> IF key[2] = key[1].currency THEN <<1, 1>>
              ELSE fixtureRate(key[1].currency, key[2])] :
    key \in expenses \X SUPPORTED_CURRENCIES}

----------------------------------------------------------------------------
(* createMany with skipDuplicates: ON CONFLICT DO NOTHING, whichever unique *)
(* columns collide.  No two rows of one statement do.                       *)

SameUser(r, s) == r.id = s.id \/ r.name = s.name
SameRate(r, s) == r.id = s.id \/ (r.pair = s.pair /\ r.date = s.date)
SameConversion(r, s) == r.expenseId = s.expenseId /\ r.currency = s.currency

SeedUsers(db) == [db EXCEPT !.users = @ \cup
    {row \in userRows : \A r \in db.users : ~SameUser(row, r)}]
SeedRates(db) == [db EXCEPT !.rates = @ \cup
    {row \in buildDailyRates : \A r \in db.rates : ~SameRate(row, r)}]
SeedExpenses(db) == [db EXCEPT !.expenses = @ \cup
    {row \in expenses : \A r \in db.expenses : row.id # r.id}]
SeedConversions(db) == [db EXCEPT !.conversions = @ \cup
    {row \in buildConversions : \A r \in db.conversions : ~SameConversion(row, r)}]

\* A foreign key of a new row that points nowhere fails its statement, and ends the run.
OwnersSeeded(db) == \A row \in SeedExpenses(db).expenses \ db.expenses :
                        \E u \in db.users : u.id = row.ownerId

\* What a run has written when it ends before the fourth statement, or the third...
main(db, statements) ==
    LET users1 == IF statements >= 1 THEN SeedUsers(db) ELSE db
        rates2 == IF statements >= 2 THEN SeedRates(users1) ELSE users1
    IN  IF statements <= 2 \/ ~OwnersSeeded(rates2) THEN rates2
        ELSE IF statements = 3 THEN SeedExpenses(rates2)
             ELSE SeedConversions(SeedExpenses(rates2))

----------------------------------------------------------------------------
Covered(db, pairs) == \A pair \in pairs :
    \E r \in db.rates : r.pair = pair /\ r.date = RATE_DATE

\* Every pair of currencies has a rate, and every seeded Expense is there, has its
\* owner and an entry for every currency.
Complete(db) ==
    /\ Covered(db, RatePairs)
    /\ \A e \in expenses : \E r \in db.expenses : r.id = e.id
    /\ \A e \in expenses, c \in SUPPORTED_CURRENCIES :
           \E r \in db.conversions : r.expenseId = e.id /\ r.currency = c

\* An id of a seeded row is that row's alone (seed.ts:139-156), and nobody else has
\* signed up with the name of the Expenses' owner.
IdsAreContent(db) ==
    /\ \A r \in db.rates : r.id \in RatePairs => r.pair = r.id /\ r.date = RATE_DATE
    /\ \A r \in db.users : r.name = "you" <=> r.id = "you"

\* A run to its end makes any such database whole, and running again changes nothing.
RunCompletes(db) ==
    LET after == main(db, 4)
    IN  /\ IdsAreContent(db) => Complete(after)
        /\ main(after, 4) = after

\* "exactly what ExpensesService.create would have derived" (seed.ts:199-203): the day
\* of loggedAt is the Expense Date, and the rates are those of a date before it.
LoggedOnTheirDay == \A e \in expenses :
    /\ calendarDateInAppTimezone(e.loggedAt) = e.expenseDate
    /\ calendarDateToDate(RATE_DATE) <= e.expenseDate
=============================================================================
