------------------------------ MODULE Periods ------------------------------
(***************************************************************************)
(* The Periods of the Leaderboard and of the statistics: ISO weeks and     *)
(* calendar months, as domain/period.ts computes them.  A calendar date is *)
(* its day number in the Gregorian calendar, day 0 being Monday 1 January  *)
(* of the year 1.                                                          *)
(***************************************************************************)
EXTENDS Integers

CONSTANT Date       \* bound: the dates whose year and month are computed

ASSUME DateAssumption == Date \subseteq Nat

PERIODS == {"week", "month"}
DateRange(start, end) == [start |-> start, end |-> end]

IsLeap(year) == year % 4 = 0 /\ (year % 100 # 0 \/ year % 400 = 0)

\* Days of a common year before each month, and the days before a year.
BeforeMonth == <<0, 31, 59, 90, 120, 151, 181, 212, 243, 273, 304, 334>>
BeforeYear(year) ==
    LET y == year - 1 IN 365 * y + y \div 4 - y \div 100 + y \div 400

firstOfMonth(year, month) ==
    BeforeYear(year) + BeforeMonth[month] + (IF month > 2 /\ IsLeap(year) THEN 1 ELSE 0)

\* The first day of the month after: Date.UTC's month 12 is the next January.
firstOfNext(year, month) ==
    IF month = 12 THEN firstOfMonth(year + 1, 1) ELSE firstOfMonth(year, month + 1)

\* The year and the month a date is written with.
YearMonth == [date \in Date |->
    CHOOSE ym \in ((date \div 366) .. (date \div 365) + 1) \X (1 .. 12) :
        firstOfMonth(ym[1], ym[2]) <= date /\ date < firstOfNext(ym[1], ym[2])]

----------------------------------------------------------------------------
getUTCDay(date) == (date + 1) % 7       \* 0 is Sunday

isoWeekOf(date) ==
    LET daysSinceMonday == (getUTCDay(date) + 6) % 7
        start == date - daysSinceMonday
    IN  DateRange(start, start + 6)

previousIsoWeekOf(date) ==
    LET previousStart == isoWeekOf(date).start - 7
    IN  DateRange(previousStart, previousStart + 6)

calendarMonthOf(date) ==
    LET ym == YearMonth[date]
    IN  DateRange(firstOfMonth(ym[1], ym[2]), firstOfNext(ym[1], ym[2]) - 1)

previousCalendarMonthOfSlip(date) ==        \* January's stays in its year
    LET ym == YearMonth[date]
    IN  calendarMonthOf(firstOfMonth(ym[1], IF ym[2] = 1 THEN 12 ELSE ym[2] - 1))
previousCalendarMonthOf(date) ==
    LET ym == YearMonth[date]
    IN  calendarMonthOf(IF ym[2] = 1 THEN firstOfMonth(ym[1] - 1, 12)
                        ELSE firstOfMonth(ym[1], ym[2] - 1))

periodRangeOf(period, anchor) ==
    IF period = "month" THEN calendarMonthOf(anchor) ELSE isoWeekOf(anchor)
previousRangeOf(period, date) ==
    IF period = "month" THEN previousCalendarMonthOf(date) ELSE previousIsoWeekOf(date)
=============================================================================
