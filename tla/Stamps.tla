------------------------------- MODULE Stamps -------------------------------
(***************************************************************************)
(* The dates and times the program reads, writes and shows.  A moment is a *)
(* number of minutes since day 0 in UTC, a day is its number (Periods), a  *)
(* text YYYY-MM-DD is the triple of its numbers, and a label is the record *)
(* of what it shows.                                                       *)
(***************************************************************************)
EXTENDS Periods, Sequences

Hour == 60
Day == 24 * Hour
APP_TIMEZONE == 7 * Hour        \* Asia/Ho_Chi_Minh has no summer time

\* The day a clock that far ahead of UTC shows: a device's, or the server's.
DayAt(moment, ahead) == (moment + ahead) \div Day
calendarDateInAppTimezone(moment) == DayAt(moment, APP_TIMEZONE)

\* A day of 29 to 31 that the month does not have is one of the next month.
calendarDateToDate(text) == firstOfMonth(text[1], text[2]) + text[3] - 1

calendarDateFromDate(date) ==
    LET ym == YearMonth[date]
    IN  <<ym[1], ym[2], date - firstOfMonth(ym[1], ym[2]) + 1>>

isValidCalendarDate(text) ==
    /\ text[2] \in 1 .. 12 /\ text[3] \in 1 .. 31
    /\ calendarDateFromDate(calendarDateToDate(text)) = text

----------------------------------------------------------------------------
formatShortDate(date) ==
    LET text == calendarDateFromDate(date) IN [day |-> text[3], month |-> text[2]]
formatFullDate(date) ==
    LET text == calendarDateFromDate(date)
    IN  [day |-> text[3], month |-> text[2], year |-> text[1]]

\* The field of a sheet, whose day is one of the device.
formatExpenseDateLabel(date, now, ahead) ==
    [today |-> date = DayAt(now, ahead), date |-> formatFullDate(date)]

formatDateTime(moment, now, ahead) ==
    [day  |-> IF DayAt(moment, ahead) = DayAt(now, ahead) THEN [day |-> "today"]
              ELSE formatShortDate(DayAt(moment, ahead)),
     time |-> (moment + ahead) % Day]

\* "now", "2m", "2h", "3d", then the date; a moment to come is now.
Stamp(unit, count) == [unit |-> unit, count |-> count]
Now == Stamp(0, 0)
ItsDate == Stamp(0, 1)
formatRelativeTime(moment, now) ==
    LET minutes == IF now < moment THEN 0 ELSE now - moment
        hours   == minutes \div Hour
        days    == hours \div 24
    IN  CASE minutes < 1 -> Now
          [] minutes \in 1 .. Hour - 1 -> Stamp(1, minutes)
          [] minutes >= Hour /\ hours < 24 -> Stamp(Hour, hours)
          [] hours >= 24 /\ days < 7 -> Stamp(Day, days)
          [] OTHER -> ItsDate

SameMonth(range) == YearMonth[range.start] = YearMonth[range.end]
SameYear(range) == YearMonth[range.start][1] = YearMonth[range.end][1]
DayOf(date) == [day |-> formatShortDate(date).day]

\* "5-11 AUG", "29 Jul - 4 Aug": the Summary Card's, without a year.
formatPeriodRange(range) ==
    IF SameMonth(range) THEN <<DayOf(range.start), formatShortDate(range.end)>>
    ELSE <<formatShortDate(range.start), formatShortDate(range.end)>>

formatPeriodRangeWithYear(range) ==
    CASE SameMonth(range) -> <<DayOf(range.start), formatFullDate(range.end)>>
      [] SameYear(range) /\ ~SameMonth(range) ->
             <<formatShortDate(range.start), formatFullDate(range.end)>>
      [] OTHER -> <<formatFullDate(range.start), formatFullDate(range.end)>>

----------------------------------------------------------------------------
(* What the screens and the server rely on.                                *)

\* An Expense Date is taken exactly when the calendar has it, and every day is
\* written in the one way that is read back as it.
DatesRoundTrip(dates, texts) ==
    /\ \A date \in dates : /\ isValidCalendarDate(calendarDateFromDate(date))
                           /\ calendarDateToDate(calendarDateFromDate(date)) = date
    /\ \A text \in texts : isValidCalendarDate(text) <=>
          \E date \in Date : calendarDateFromDate(date) = text

\* The Period Browser never shows two Periods under one label; the Summary Card
\* never those of one year.
PeriodsToldApart(ranges) ==
    \A r, s \in ranges :
        /\ formatPeriodRangeWithYear(r) = formatPeriodRangeWithYear(s) => r = s
        /\ /\ formatPeriodRange(r) = formatPeriodRange(s)
           /\ YearMonth[r.end][1] = YearMonth[s.end][1]
           => r = s

\* A device is at most a day from the server's default Expense Date.
DefaultIsADayAway(moment, ahead) ==
    DayAt(moment, ahead) - calendarDateInAppTimezone(moment) \in {-1, 0, 1}

\* A label with a time stands for one moment among those of the last half year.
MomentsToldApart(moments, now, ahead) ==
    \A m, n \in moments :
        formatDateTime(m, now, ahead) = formatDateTime(n, now, ahead) => m = n

\* A stamp counts the whole units that have passed, below a week, and nothing of
\* a moment the clock has not reached.
StampIsTrue(moment, now) ==
    LET stamp == formatRelativeTime(moment, now)
    IN  /\ stamp = Now <=> now <= moment
        /\ stamp = ItsDate <=> now - moment >= 7 * Day
        /\ stamp \notin {Now, ItsDate} =>
              /\ stamp.count * stamp.unit <= now - moment
              /\ now - moment < (stamp.count + 1) * stamp.unit
=============================================================================
