------------------------- MODULE LeaderboardProofs -------------------------
(***************************************************************************)
(* What holds of the calendar for every date, of the stamps for every two  *)
(* moments, and of Leaderboard for any days, any number of calls under way *)
(* and any Periods browsed: the Gregorian calendar is worked out to where  *)
(* a Period and its neighbours are, and browsing walks them.               *)
(***************************************************************************)
EXTENDS Leaderboard, Stamps, TLAPS

----------------------------------------------------------------------------
(* Weeks: the week of every date holds it, starts on a Monday, follows the  *)
(* last.                                                                   *)

(* The days since Monday are counted from 0 to 6.                          *)
LEMMA DaysSinceMonday ==
    ASSUME NEW date \in Int
    PROVE  /\ (getUTCDay(date) + 6) % 7 \in 0 .. 6
           /\ (getUTCDay(date) + 6) % 7 = date % 7
  BY DEF getUTCDay

(* A date is a number of weeks and a rest.                                  *)
LEMMA DivideBySeven ==
    ASSUME NEW date \in Int
    PROVE  \E k \in Int : date = 7 * k + (date % 7)
  <1>1. date \div 7 \in Int /\ date = 7 * (date \div 7) + (date % 7)
    OBVIOUS
  <1> QED
    BY <1>1

(* What isoWeekOf computes, in one term.                                   *)
LEMMA IsoWeekIs ==
    ASSUME NEW date \in Int
    PROVE  isoWeekOf(date) = DateRange(date - (date % 7), date - (date % 7) + 6)
  BY DaysSinceMonday DEF isoWeekOf

(* isoWeekOf (domain/period.ts:42-48): Monday to Sunday around the date.    *)
THEOREM WeekHoldsItsDays ==
    ASSUME NEW date \in Int
    PROVE  /\ date \in isoWeekOf(date).start .. isoWeekOf(date).end
           /\ getUTCDay(isoWeekOf(date).start) = 1
           /\ getUTCDay(isoWeekOf(date).end) = 0
  <1>1. PICK m \in Int : m = date % 7 /\ m \in 0 .. 6
    OBVIOUS
  <1>2. PICK k \in Int : date = 7 * k + m
    BY <1>1, DivideBySeven
  <1>3. /\ isoWeekOf(date).start = date - m
        /\ isoWeekOf(date).end = date - m + 6
    <2>1. isoWeekOf(date) = [start |-> date - m, end |-> date - m + 6]
      BY <1>1, IsoWeekIs DEF DateRange
    <2> QED
      BY <2>1
  <1>4. date \in isoWeekOf(date).start .. isoWeekOf(date).end
    BY <1>1, <1>3
  <1>5. getUTCDay(isoWeekOf(date).start) = 1
    <2>1. isoWeekOf(date).start + 1 = 7 * k + 1
      BY <1>1, <1>2, <1>3
    <2> QED
      BY <2>1 DEF getUTCDay
  <1>6. getUTCDay(isoWeekOf(date).end) = 0
    <2>1. isoWeekOf(date).end + 1 = 7 * (k + 1)
      BY <1>1, <1>2, <1>3
    <2> QED
      BY <2>1 DEF getUTCDay
  <1> QED
    BY <1>4, <1>5, <1>6

(* previousIsoWeekOf (domain/period.ts:51-55), which the Expenses tab shows, *)
(* is the week of the day before this one starts, which the Leaderboard asks *)
(* for one step back (lib/leaderboard.ts:48): for every date.                *)
THEOREM PreviousWeekIsOneBack ==
    ASSUME NEW date \in Int
    PROVE  /\ previousIsoWeekOf(date) = isoWeekOf(isoWeekOf(date).start - 1)
           /\ previousIsoWeekOf(date).end + 1 = isoWeekOf(date).start
  <1>1. PICK m \in Int : m = date % 7 /\ m \in 0 .. 6
    OBVIOUS
  <1>2. (date - m - 1) % 7 = 6
    <2>1. PICK k \in Int : date = 7 * k + m
      BY <1>1, DivideBySeven
    <2>2. date - m - 1 = 7 * (k - 1) + 6
      BY <2>1, <1>1
    <2> QED
      BY <2>2
  <1>3. isoWeekOf(date).start = date - m
    <2>1. isoWeekOf(date) = [start |-> date - m, end |-> date - m + 6]
      BY <1>1, IsoWeekIs DEF DateRange
    <2> QED
      BY <2>1
  <1>4. previousIsoWeekOf(date) = DateRange(date - m - 7, date - m - 1)
    BY <1>1, <1>3 DEF previousIsoWeekOf
  <1>5. isoWeekOf(date - m - 1) = DateRange(date - m - 7, date - m - 1)
    <2>1. date - m - 1 \in Int
      BY <1>1
    <2>2. isoWeekOf(date - m - 1) = DateRange(date - m - 1 - 6, date - m - 1 - 6 + 6)
      BY <1>2, <2>1, IsoWeekIs
    <2>3. date - m - 1 - 6 = date - m - 7 /\ date - m - 1 - 6 + 6 = date - m - 1
      BY <1>1
    <2> QED
      BY <2>2, <2>3
  <1> QED
    BY <1>1, <1>3, <1>4, <1>5 DEF DateRange

----------------------------------------------------------------------------
(* Stamps.                                                                 *)

(* Flooring counts the whole units of a time.                               *)
LEMMA WholeHours ==
    ASSUME NEW m \in Nat
    PROVE  /\ m \div Hour \in Nat
           /\ (m \div Hour) * Hour <= m
           /\ m < (m \div Hour + 1) * Hour
  BY DEF Hour

LEMMA WholeDays ==
    ASSUME NEW m \in Nat
    PROVE  /\ (m \div Hour) \div 24 \in Nat
           /\ ((m \div Hour) \div 24) * Day <= m
           /\ m < ((m \div Hour) \div 24 + 1) * Day
  <1>1. PICK h \in Nat : /\ h = m \div Hour
                         /\ h * 60 <= m
                         /\ m < (h + 1) * 60
    BY WholeHours DEF Hour
  <1>2. PICK d \in Nat : d = h \div 24 /\ d * 24 <= h /\ h < (d + 1) * 24
    OBVIOUS
  <1>3. d * 1440 <= m /\ m < (d + 1) * 1440
    BY <1>1, <1>2
  <1> QED
    BY <1>1, <1>2, <1>3 DEF Day, Hour

(* formatRelativeTime (format.ts:262-289): the stamp of any moment counts    *)
(* the whole units that have passed since, and never a unit too many.       *)
THEOREM StampsAreTrue ==
    ASSUME NEW moment \in Int, NEW now \in Int
    PROVE  StampIsTrue(moment, now)
  <1> DEFINE m == IF now < moment THEN 0 ELSE now - moment
             h == m \div Hour
             d == h \div 24
             stamp == formatRelativeTime(moment, now)
  <1>1. /\ m \in Nat
        /\ m >= 1 => m = now - moment
        /\ m = 0 <=> now <= moment
    OBVIOUS
  <1>2. /\ h \in Nat /\ h * 60 <= m /\ m < (h + 1) * 60
        /\ d \in Nat /\ d * 1440 <= m /\ m < (d + 1) * 1440
    BY <1>1, WholeHours, WholeDays DEF Hour, Day
  <1> HIDE DEF m, h, d
  <1>3. stamp = CASE m < 1 -> Now
                  [] m \in 1 .. Hour - 1 -> Stamp(1, m)
                  [] m >= Hour /\ h < 24 -> Stamp(Hour, h)
                  [] h >= 24 /\ d < 7 -> Stamp(Day, d)
                  [] OTHER -> ItsDate
    BY DEF formatRelativeTime, m, h, d
  <1>4. m < 1 \/ m \in 1 .. 59 \/ (m >= 60 /\ h < 24) \/ (h >= 24 /\ d < 7)
           \/ d >= 7
    BY <1>1, <1>2
  <1>5. CASE m < 1
    <2>1. stamp = [unit |-> 0, count |-> 0]
      BY <1>1, <1>2, <1>3, <1>5 DEF Now, Stamp, Hour
    <2>2. now <= moment
      BY <1>1, <1>5
    <2> QED
      BY <2>1, <2>2 DEF StampIsTrue, Now, ItsDate, Stamp, Day, Hour
  <1>6. CASE m \in 1 .. 59
    <2>1. stamp = [unit |-> 1, count |-> m]
      BY <1>1, <1>2, <1>3, <1>6 DEF Stamp, Hour
    <2> QED
      BY <1>1, <1>6, <2>1 DEF StampIsTrue, Now, ItsDate, Stamp, Day, Hour
  <1>7. CASE m >= 60 /\ h < 24
    <2>1. stamp = [unit |-> 60, count |-> h]
      BY <1>1, <1>2, <1>3, <1>7 DEF Stamp, Hour
    <2>2. h >= 1
      BY <1>1, <1>2, <1>7
    <2>3. /\ stamp.unit = 60 /\ stamp.count = h
          /\ stamp # Now /\ stamp # ItsDate
      BY <2>1 DEF Now, ItsDate, Stamp
    <2>4. /\ now > moment /\ now - moment < 7 * 1440
          /\ h * 60 <= now - moment /\ now - moment < (h + 1) * 60
      BY <1>1, <1>2, <1>7, <2>2
    <2> QED
      BY <2>3, <2>4 DEF StampIsTrue, Day, Hour
  <1>8. CASE h >= 24 /\ d < 7
    <2>1. m >= 60
      BY <1>1, <1>2, <1>8
    <2>2. stamp = [unit |-> 1440, count |-> d]
      BY <1>1, <1>2, <1>3, <1>8, <2>1 DEF Stamp, Day, Hour
    <2>3. d >= 1
      BY <1>1, <1>2, <1>8
    <2>4. /\ stamp.unit = 1440 /\ stamp.count = d
          /\ stamp # Now /\ stamp # ItsDate
      BY <2>2 DEF Now, ItsDate, Stamp
    <2>5. /\ now > moment /\ now - moment < 7 * 1440
          /\ d * 1440 <= now - moment /\ now - moment < (d + 1) * 1440
      BY <1>1, <1>2, <1>8, <2>3
    <2> QED
      BY <2>4, <2>5 DEF StampIsTrue, Day, Hour
  <1>9. CASE d >= 7
    <2>1. m >= 60 /\ h >= 24
      BY <1>1, <1>2, <1>9
    <2>2. stamp = [unit |-> 0, count |-> 1]
      BY <1>1, <1>2, <1>3, <1>9, <2>1 DEF ItsDate, Stamp, Hour
    <2> QED
      BY <1>1, <1>2, <1>9, <2>2 DEF StampIsTrue, Now, ItsDate, Stamp, Day, Hour
  <1> QED
    BY <1>4, <1>5, <1>6, <1>7, <1>8, <1>9

(* calendarDateInAppTimezone (calendar-date.ts:30-32) against the day of the *)
(* picker (expense-date.ts:18-23): whatever the moment, and wherever on      *)
(* earth the device is, the Expense Date the server defaults to is the day  *)
(* the sheet shows as today or a neighbour of it.                           *)
THEOREM DefaultIsNear ==
    ASSUME NEW moment \in Int, NEW ahead \in -720 .. 840
    PROVE  DefaultIsADayAway(moment, ahead)
  <1>1. PICK a \in Int : /\ a = (moment + ahead) \div 1440
                         /\ a * 1440 <= moment + ahead
                         /\ moment + ahead < (a + 1) * 1440
    OBVIOUS
  <1>2. PICK b \in Int : /\ b = (moment + 420) \div 1440
                         /\ b * 1440 <= moment + 420
                         /\ moment + 420 < (b + 1) * 1440
    OBVIOUS
  <1>3. a - b \in {-1, 0, 1}
    BY <1>1, <1>2
  <1> QED
    BY <1>1, <1>2, <1>3
    DEF DefaultIsADayAway, calendarDateInAppTimezone, DayAt, APP_TIMEZONE, Day, Hour

----------------------------------------------------------------------------
(* The Gregorian calendar: months that follow each other without a gap.     *)

\* Months counted on from the month 0 of the year 0.
First(month) == firstOfMonth(month \div 12, (month % 12) + 1)
Month(month) == DateRange(First(month), First(month + 1) - 1)

LEMMA YearLasts ==
    ASSUME NEW year \in Int
    PROVE  /\ BeforeYear(year) \in Int
           /\ BeforeYear(year + 1) = BeforeYear(year) + (IF IsLeap(year) THEN 366 ELSE 365)
  <1>1. PICK y \in Int : y = year - 1
    OBVIOUS
  <1>2. /\ (y + 1) \div 4 = y \div 4 + (IF year % 4 = 0 THEN 1 ELSE 0)
        /\ (y + 1) \div 100 = y \div 100 + (IF year % 100 = 0 THEN 1 ELSE 0)
        /\ (y + 1) \div 400 = y \div 400 + (IF year % 400 = 0 THEN 1 ELSE 0)
    BY <1>1
  <1>3. /\ year % 400 = 0 => year % 100 = 0
        /\ year % 100 = 0 => year % 4 = 0
    OBVIOUS
  <1> QED
    BY <1>1, <1>2, <1>3 DEF BeforeYear, IsLeap

LEMMA YearsFollow ==
    ASSUME NEW y \in Int, NEW z \in Int, y <= z
    PROVE  BeforeYear(y) + 364 * (z - y) <= BeforeYear(z)
  <1>1. /\ (y - 1) \div 4 <= (z - 1) \div 4
        /\ (y - 1) \div 400 <= (z - 1) \div 400
    OBVIOUS
  <1>2. (z - 1) \div 100 - (y - 1) \div 100 <= z - y
    OBVIOUS
  <1> QED
    BY <1>1, <1>2 DEF BeforeYear

LEMMA YearBounds ==
    ASSUME NEW y \in Int, y >= 1
    PROVE  365 * (y - 1) <= BeforeYear(y) /\ BeforeYear(y) <= 366 * (y - 1)
  BY DEF BeforeYear

\* The month that firstOfNext goes on to.
LEMMA NextFirst ==
    ASSUME NEW month \in Int
    PROVE  /\ First(month) \in Int
           /\ firstOfNext(month \div 12, (month % 12) + 1) = First(month + 1)
           /\ First(month) + 28 <= First(month + 1)
           /\ First(month + 1) <= First(month) + 31
  <1>1. PICK y \in Int, m \in 1 .. 12 : y = month \div 12 /\ m = (month % 12) + 1
    OBVIOUS
  <1>2. BeforeYear(y) \in Int /\ BeforeYear(y + 1) \in Int
        /\ BeforeYear(y + 1) = BeforeYear(y) + (IF IsLeap(y) THEN 366 ELSE 365)
    BY YearLasts
  <1>3. First(month) = firstOfMonth(y, m)
    BY <1>1 DEF First
  <1>4. First(month + 1) = firstOfNext(y, m)
    <2>1. CASE m = 12
      <3>1. (month + 1) \div 12 = y + 1 /\ (month + 1) % 12 = 0
        BY <1>1, <2>1
      <3> QED
        BY <3>1, <2>1 DEF First, firstOfNext
    <2>2. CASE m < 12
      <3>1. (month + 1) \div 12 = y /\ (month + 1) % 12 = m
        BY <1>1, <2>2
      <3> QED
        BY <3>1, <2>2 DEF First, firstOfNext
    <2> QED
      BY <1>1, <2>1, <2>2
  <1>5. /\ firstOfMonth(y, m) \in Int
        /\ firstOfMonth(y, m) + 28 <= firstOfNext(y, m)
        /\ firstOfNext(y, m) <= firstOfMonth(y, m) + 31
    BY <1>2 DEF firstOfMonth, firstOfNext, BeforeMonth
  <1> QED
    BY <1>1, <1>3, <1>4, <1>5

\* Four hundred years, a hundred, four and one, as the Gregorian calendar counts.
LEMMA YearFound ==
    ASSUME NEW date \in Nat
    PROVE  \E year \in Nat \ {0} : BeforeYear(year) <= date /\ date < BeforeYear(year + 1)
  <1>1. PICK q \in Nat, r \in Nat : date = 146097 * q + r /\ r <= 146096
    <2>1. /\ date \div 146097 \in Nat /\ date % 146097 \in Nat /\ date % 146097 <= 146096
          /\ date = 146097 * (date \div 146097) + (date % 146097)
      BY SMT
    <2> QED
      BY <2>1, SMT
  <1>2. PICK c \in Nat, s \in Nat :
            r = 36524 * c + s /\ s <= 36524 /\ c <= 3 /\ (c < 3 => s < 36524)
    <2>1. CASE r = 146096
      <3>1. r = 36524 * 3 + 36524
        BY <2>1, SMT
      <3> QED
        BY <3>1, SMT
    <2>2. CASE r < 146096
      <3>1. /\ r \div 36524 \in Nat /\ r \div 36524 <= 3
            /\ r % 36524 \in Nat /\ r % 36524 < 36524
            /\ r = 36524 * (r \div 36524) + (r % 36524)
        BY <2>2, SMT
      <3> QED
        BY <3>1, SMT
    <2> QED
      BY <1>1, <2>1, <2>2, SMT
  <1>3. PICK f \in Nat, t \in Nat : s = 1461 * f + t /\ f <= 24 /\ t <= 1460 /\ (f = 24 /\ c < 3 => t < 1460)
    <2>1. /\ s \div 1461 \in Nat /\ s \div 1461 <= 24 /\ s % 1461 \in Nat /\ s % 1461 <= 1460
          /\ s = 1461 * (s \div 1461) + (s % 1461)
      BY <1>2, SMT
    <2> QED
      BY <1>2, <2>1, SMT
  <1>4. PICK n \in Nat, u \in Nat : t = 365 * n + u /\ n <= 3 /\ u <= 365 /\ (n < 3 => u < 365)
    <2>1. CASE t = 1460
      <3>1. t = 365 * 3 + 365
        BY <2>1, SMT
      <3> QED
        BY <3>1, SMT
    <2>2. CASE t < 1460
      <3>1. /\ t \div 365 \in Nat /\ t \div 365 <= 3 /\ t % 365 \in Nat /\ t % 365 < 365
            /\ t = 365 * (t \div 365) + (t % 365)
        BY <2>2, SMT
      <3> QED
        BY <3>1, SMT
    <2> QED
      BY <1>3, <2>1, <2>2, SMT
  <1>5. PICK z \in Nat : z = 400 * q + 100 * c + 4 * f + n
    BY SMT
  <1>6. /\ z \div 4 = 100 * q + 25 * c + f
        /\ z \div 100 = 4 * q + c
        /\ z \div 400 = q
    BY <1>2, <1>3, <1>4, <1>5, SMT
  <1>7. BeforeYear(z + 1) = 146097 * q + 36524 * c + 1461 * f + 365 * n
    BY <1>5, <1>6, SMT DEF BeforeYear
  <1>8. BeforeYear(z + 1) <= date
    BY <1>1, <1>2, <1>3, <1>4, <1>7, SMT
  <1>9. BeforeYear(z + 2) = BeforeYear(z + 1) + (IF IsLeap(z + 1) THEN 366 ELSE 365)
    <2>1. z + 1 \in Int /\ (z + 1) + 1 = z + 2
      OBVIOUS
    <2> QED
      BY <2>1, YearLasts
  <1>10. date < BeforeYear(z + 2)
    <2>1. date = BeforeYear(z + 1) + u
      BY <1>1, <1>2, <1>3, <1>4, <1>7, SMT
    <2>2. BeforeYear(z + 1) \in Int
      BY <1>7
    <2>3. CASE u < 365
      BY <1>9, <2>1, <2>2, <2>3, SMT
    <2>4. CASE u = 365
      <3>1. n = 3 /\ (f = 24 => c = 3)
        BY <1>2, <1>3, <1>4, <2>4, SMT
      <3>2. (z + 1) % 4 = 0
        BY <1>5, <3>1, SMT
      <3>3. (z + 1) % 100 = 0 => f = 24
        BY <1>2, <1>3, <1>5, <3>1, SMT
      <3>4. f = 24 /\ c = 3 => (z + 1) % 400 = 0
        BY <1>5, <3>1, SMT
      <3>5. IsLeap(z + 1)
        BY <1>2, <3>1, <3>2, <3>3, <3>4 DEF IsLeap
      <3> QED
        BY <1>9, <2>1, <2>2, <2>4, <3>5, SMT
    <2> QED
      BY <1>4, <2>3, <2>4, SMT
  <1> QED
    <2>1. z + 1 \in Nat \ {0} /\ (z + 1) + 1 = z + 2
      OBVIOUS
    <2> QED
      BY <1>8, <1>10, <2>1

LEMMA MonthsFollow ==
    ASSUME NEW m \in Int, NEW n \in Int, m < n
    PROVE  First(m + 1) <= First(n)
  <1>1. PICK y \in Int, i \in 1 .. 12 : y = m \div 12 /\ i = (m % 12) + 1 /\ m = 12 * y + i - 1
    OBVIOUS
  <1>2. PICK z \in Int, j \in 1 .. 12 : z = n \div 12 /\ j = (n % 12) + 1 /\ n = 12 * z + j - 1
    OBVIOUS
  <1>3. /\ First(m + 1) = firstOfNext(y, i) /\ First(n) = firstOfMonth(z, j)
        /\ First(m + 1) \in Int /\ First(n) \in Int
    BY <1>1, <1>2, NextFirst DEF First
  <1>4. /\ BeforeYear(y) \in Int /\ BeforeYear(z) \in Int /\ BeforeYear(y + 1) \in Int
        /\ BeforeYear(y + 1) = BeforeYear(y) + (IF IsLeap(y) THEN 366 ELSE 365)
    BY YearLasts
  <1>5. CASE y = z
    <2>1. i < j
      BY <1>1, <1>2, <1>5
    <2> QED
      BY <1>3, <1>4, <1>5, <2>1 DEF firstOfMonth, firstOfNext, BeforeMonth
  <1>6. CASE y < z
    <2>1. BeforeYear(y + 1) <= BeforeYear(z)
      BY <1>4, <1>6, YearsFollow
    <2>2. firstOfNext(y, i) <= BeforeYear(y + 1)
      BY <1>4 DEF firstOfMonth, firstOfNext, BeforeMonth
    <2>3. BeforeYear(z) <= firstOfMonth(z, j)
      BY <1>4 DEF firstOfMonth, BeforeMonth
    <2>4. firstOfNext(y, i) \in Int /\ firstOfMonth(z, j) \in Int
      BY <1>3
    <2> QED
      BY <1>3, <1>4, <2>1, <2>2, <2>3, <2>4
  <1>7. y <= z
    BY <1>1, <1>2
  <1> QED
    BY <1>5, <1>6, <1>7

\* A date is in one month.
LEMMA OneMonth ==
    ASSUME NEW date \in Int, NEW m \in Int, NEW n \in Int,
           First(m) <= date, date < First(m + 1), First(n) <= date, date < First(n + 1)
    PROVE  m = n
  <1>1. First(m) \in Int /\ First(m + 1) \in Int /\ First(n) \in Int /\ First(n + 1) \in Int
    BY NextFirst
  <1>2. CASE m < n
    BY <1>1, <1>2, MonthsFollow
  <1>3. CASE n < m
    BY <1>1, <1>3, MonthsFollow
  <1> QED
    BY <1>2, <1>3

\* The year and the month that a date is written with are there, within the bounds
\* YearMonth searches.
LEMMA MonthFound ==
    ASSUME NEW date \in Nat
    PROVE  \E ym \in ((date \div 366) .. (date \div 365) + 1) \X (1 .. 12) :
               firstOfMonth(ym[1], ym[2]) <= date /\ date < firstOfNext(ym[1], ym[2])
  <1>1. PICK y \in Nat \ {0} : BeforeYear(y) <= date /\ date < BeforeYear(y + 1)
    BY YearFound
  <1>2. BeforeYear(y) \in Int /\ BeforeYear(y + 1) \in Int
        /\ BeforeYear(y + 1) = BeforeYear(y) + (IF IsLeap(y) THEN 366 ELSE 365)
    BY YearLasts
  <1>3. y \in (date \div 366) .. (date \div 365) + 1
    <2>1. 365 * (y - 1) <= date /\ date < 366 * y
      BY <1>1, <1>2, YearBounds
    <2> QED
      BY <2>1
  <1>4. \E month \in 1 .. 12 : firstOfMonth(y, month) <= date /\ date < firstOfNext(y, month)
    <2>1. PICK leap \in {0, 1} : leap = (IF IsLeap(y) THEN 1 ELSE 0)
      OBVIOUS
    <2>2. PICK day \in Nat : date = BeforeYear(y) + day /\ day < 365 + leap
      <3>1. date - BeforeYear(y) \in Nat /\ date = BeforeYear(y) + (date - BeforeYear(y))
            /\ date - BeforeYear(y) < 365 + leap
        BY <1>1, <1>2, <2>1
      <3> QED
        BY <3>1
    <2>3. \A month \in 1 .. 12 :
              firstOfMonth(y, month)
                  = BeforeYear(y) + BeforeMonth[month] + (IF month > 2 THEN leap ELSE 0)
      BY <2>1 DEF firstOfMonth
    <2>4. firstOfNext(y, 12) = BeforeYear(y) + 365 + leap
      BY <1>2, <2>1 DEF firstOfNext, firstOfMonth, BeforeMonth
    <2>5. \A month \in 1 .. 11 :
              firstOfNext(y, month)
                  = BeforeYear(y) + BeforeMonth[month + 1] + (IF month > 1 THEN leap ELSE 0)
      BY <2>3 DEF firstOfNext
    <2>6. CASE day < 59 + leap
      BY <1>2, <2>2, <2>3, <2>5, <2>6 DEF BeforeMonth
    <2>7. CASE 59 + leap <= day /\ day < 181 + leap
      BY <1>2, <2>2, <2>3, <2>5, <2>7 DEF BeforeMonth
    <2>8. CASE 181 + leap <= day /\ day < 304 + leap
      BY <1>2, <2>2, <2>3, <2>5, <2>8 DEF BeforeMonth
    <2>9. CASE 304 + leap <= day
      BY <1>2, <2>2, <2>3, <2>4, <2>5, <2>9 DEF BeforeMonth
    <2> QED
      BY <2>2, <2>6, <2>7, <2>8, <2>9
  <1>5. PICK month \in 1 .. 12 : firstOfMonth(y, month) <= date /\ date < firstOfNext(y, month)
    BY <1>4
  <1>6. <<y, month>>[1] = y /\ <<y, month>>[2] = month
        /\ <<y, month>> \in ((date \div 366) .. (date \div 365) + 1) \X (1 .. 12)
    BY <1>3
  <1> QED
    BY <1>5, <1>6

LEMMA MonthOf ==
    ASSUME NEW date \in Date
    PROVE  \E m \in Int :
               /\ First(m) <= date /\ date < First(m + 1)
               /\ YearMonth[date] = <<m \div 12, (m % 12) + 1>>
  <1> DEFINE Candidates == ((date \div 366) .. (date \div 365) + 1) \X (1 .. 12)
             Written(ym) == firstOfMonth(ym[1], ym[2]) <= date /\ date < firstOfNext(ym[1], ym[2])
  <1>1. date \in Nat
    BY DateAssumption
  <1>2. \E ym \in Candidates : Written(ym)
    BY <1>1, MonthFound
  <1>3. YearMonth[date] = CHOOSE ym \in Candidates : Written(ym)
    BY DEF YearMonth
  <1>4. YearMonth[date] \in Candidates /\ Written(YearMonth[date])
    <2> HIDE DEF Candidates, Written
    <2> QED
      BY <1>2, <1>3
  <1>5. PICK y \in Int, i \in 1 .. 12 : YearMonth[date] = <<y, i>>
    BY <1>1, <1>4
  <1>6. firstOfMonth(y, i) <= date /\ date < firstOfNext(y, i)
    BY <1>4, <1>5
  <1>7. PICK m \in Int : m = 12 * y + i - 1
    OBVIOUS
  <1>8. m \div 12 = y /\ (m % 12) + 1 = i
    BY <1>7
  <1>9. First(m) = firstOfMonth(y, i) /\ First(m + 1) = firstOfNext(y, i)
    BY <1>8, NextFirst DEF First
  <1> QED
    BY <1>5, <1>6, <1>8, <1>9

\* calendarMonthOf goes from the first of the date's month to the day before the next.
LEMMA CalendarMonthIs ==
    ASSUME NEW date \in Date, NEW m \in Int, First(m) <= date, date < First(m + 1)
    PROVE  /\ YearMonth[date] = <<m \div 12, (m % 12) + 1>>
           /\ calendarMonthOf(date) = Month(m)
  <1>1. PICK n \in Int : /\ First(n) <= date /\ date < First(n + 1)
                         /\ YearMonth[date] = <<n \div 12, (n % 12) + 1>>
    BY MonthOf
  <1>2. m = n
    BY <1>1, DateAssumption, OneMonth
  <1>3. YearMonth[date][1] = m \div 12 /\ YearMonth[date][2] = (m % 12) + 1
    BY <1>1, <1>2
  <1>4. calendarMonthOf(date) = Month(m)
    BY <1>3, NextFirst DEF calendarMonthOf, Month, First
  <1> QED
    BY <1>1, <1>2, <1>4

\* The days of a Month, and of those beside it.
LEMMA MonthEnds ==
    ASSUME NEW m \in Int
    PROVE  /\ Month(m).start = First(m) /\ Month(m).end = First(m + 1) - 1
           /\ First(m) \in Int /\ First(m + 1) \in Int
           /\ First(m) + 28 <= First(m + 1) /\ First(m + 1) <= First(m) + 31
  BY NextFirst DEF Month, DateRange

LEMMA MonthBefore ==
    ASSUME NEW m \in Int, Month(m).start - 1 \in Date
    PROVE  calendarMonthOf(Month(m).start - 1) = Month(m - 1)
  <1>1. m - 1 \in Int /\ (m - 1) + 1 = m
    OBVIOUS
  <1>2. /\ Month(m).start = First(m) /\ First(m) \in Int /\ First(m - 1) \in Int
        /\ First(m - 1) + 28 <= First(m)
    BY <1>1, MonthEnds
  <1>3. PICK d \in Date : d = First(m) - 1
    BY <1>2
  <1>4. First(m - 1) <= d /\ d < First((m - 1) + 1)
    BY <1>1, <1>2, <1>3
  <1>5. calendarMonthOf(d) = Month(m - 1)
    BY <1>1, <1>4, CalendarMonthIs
  <1> QED
    BY <1>2, <1>3, <1>5

LEMMA MonthAfter ==
    ASSUME NEW m \in Int, Month(m).end + 1 \in Date
    PROVE  calendarMonthOf(Month(m).end + 1) = Month(m + 1)
  <1>1. m + 1 \in Int
    OBVIOUS
  <1>2. /\ Month(m).end + 1 = First(m + 1) /\ First(m + 1) \in Int /\ First((m + 1) + 1) \in Int
        /\ First(m + 1) + 28 <= First((m + 1) + 1)
    BY <1>1, MonthEnds
  <1>3. PICK d \in Date : d = First(m + 1)
    BY <1>2
  <1>4. First(m + 1) <= d /\ d < First((m + 1) + 1)
    BY <1>2, <1>3
  <1>5. calendarMonthOf(d) = Month(m + 1)
    BY <1>1, <1>4, CalendarMonthIs
  <1> QED
    BY <1>2, <1>3, <1>5

LEMMA MonthsBackIs ==
    ASSUME NEW date \in Date, NEW n \in Int, NEW m \in Int, First(m) <= date, date < First(m + 1)
    PROVE  MonthsBack(date, n) = Month(m - n)
  <1>1. YearMonth[date][1] = m \div 12 /\ YearMonth[date][2] = (m % 12) + 1
    <2>1. YearMonth[date] = <<m \div 12, (m % 12) + 1>>
      BY CalendarMonthIs
    <2> QED
      BY <2>1
  <1>2. 12 * (m \div 12) + ((m % 12) + 1) - 1 - n = m - n
    OBVIOUS
  <1>3. m - n \in Int
    OBVIOUS
  <1>4. MonthsBack(date, n) =
            DateRange(firstOfMonth((m - n) \div 12, ((m - n) % 12) + 1),
                      firstOfNext((m - n) \div 12, ((m - n) % 12) + 1) - 1)
    BY <1>1, <1>2 DEF MonthsBack
  <1> QED
    BY <1>3, <1>4, NextFirst DEF Month, First

(* calendarMonthOf (domain/period.ts:57-70): the month of every date holds it, *)
(* from the first to the day before the next first, over leap years and the     *)
(* turn of a year.                                                              *)
THEOREM MonthHoldsItsDays ==
    ASSUME NEW date \in Date
    PROVE  \E m \in Int : /\ calendarMonthOf(date) = Month(m)
                          /\ First(m) <= date /\ date < First(m + 1)
  BY MonthOf, CalendarMonthIs

(* previousCalendarMonthOf (domain/period.ts:72-78), which the Expenses tab      *)
(* shows, is the month of the day before this one starts, which the Leaderboard  *)
(* asks for one step back (lib/leaderboard.ts:48): for every date, as long as    *)
(* those of its month and the one before are written with a year and a month.    *)
THEOREM PreviousMonthIsOneBack ==
    ASSUME NEW date \in Date, \A d \in (date - 62) .. date : d \in Date
    PROVE  /\ previousCalendarMonthOf(date) = calendarMonthOf(calendarMonthOf(date).start - 1)
           /\ previousCalendarMonthOf(date).end + 1 = calendarMonthOf(date).start
  <1>1. PICK m \in Int : First(m) <= date /\ date < First(m + 1)
    BY MonthHoldsItsDays
  <1>2. /\ YearMonth[date][1] = m \div 12 /\ YearMonth[date][2] = (m % 12) + 1
        /\ calendarMonthOf(date) = Month(m)
    <2>1. YearMonth[date] = <<m \div 12, (m % 12) + 1>>
      BY <1>1, CalendarMonthIs
    <2> QED
      BY <1>1, <2>1, CalendarMonthIs
  <1>3. PICK before \in Int : before = m - 1 /\ before + 1 = m
    OBVIOUS
  <1>4. /\ First(before) \in Int /\ First(m) \in Int
        /\ First(before) + 28 <= First(m) /\ First(m) <= First(before) + 31
        /\ First(m + 1) \in Int /\ First(m + 1) <= First(m) + 31
    BY <1>3, MonthEnds
  <1>5. previousCalendarMonthOf(date) = calendarMonthOf(First(before))
    <2>1. CASE m % 12 = 0
      <3>1. before \div 12 = (m \div 12) - 1 /\ (before % 12) + 1 = 12
        BY <1>3, <2>1
      <3> QED
        BY <1>2, <2>1, <3>1 DEF previousCalendarMonthOf, First
    <2>2. CASE m % 12 # 0
      <3>1. before \div 12 = m \div 12 /\ (before % 12) + 1 = m % 12
        BY <1>3, <2>2
      <3>2. YearMonth[date][2] # 1 /\ YearMonth[date][2] - 1 = m % 12
        BY <1>2, <2>2
      <3> QED
        BY <1>2, <3>1, <3>2 DEF previousCalendarMonthOf, First
    <2> QED
      BY <2>1, <2>2
  <1>6. date \in Int /\ First(before) \in Date /\ First(m) - 1 \in Date
    BY <1>1, <1>4, DateAssumption
  <1>7. calendarMonthOf(First(before)) = Month(before)
    <2>1. PICK d \in Date : d = First(before)
      BY <1>6
    <2>2. First(before) <= d /\ d < First(before + 1)
      BY <1>3, <1>4, <2>1
    <2>3. calendarMonthOf(d) = Month(before)
      BY <2>2, CalendarMonthIs
    <2> QED
      BY <2>1, <2>3
  <1>8. calendarMonthOf(Month(m).start - 1) = Month(before)
    BY <1>3, <1>6, MonthBefore, MonthEnds
  <1>9. Month(before).end + 1 = Month(m).start
    <2>1. Month(before).end = First(before + 1) - 1 /\ Month(m).start = First(m)
      BY MonthEnds
    <2>2. First(before + 1) = First(m)
      BY <1>3
    <2> QED
      BY <1>4, <2>1, <2>2
  <1> QED
    BY <1>2, <1>5, <1>7, <1>8, <1>9

----------------------------------------------------------------------------
(* Periods of either kind, and browsing them.                              *)

LEMMA PeriodHolds ==
    ASSUME NEW p \in PERIODS, NEW date \in Date
    PROVE  LET range == periodRangeOf(p, date) IN
           /\ range \in [start : Nat, end : Nat]
           /\ range.start <= date /\ date <= range.end
           /\ date <= range.start + 30 /\ range.end <= date + 30
  <1>1. date \in Nat
    BY DateAssumption
  <1>2. CASE p = "week"
    <2>1. periodRangeOf(p, date) = DateRange(date - (date % 7), date - (date % 7) + 6)
      <3>1. periodRangeOf(p, date) = isoWeekOf(date)
        BY <1>2 DEF periodRangeOf
      <3>2. date \in Int
        BY <1>1
      <3>3. isoWeekOf(date) = DateRange(date - (date % 7), date - (date % 7) + 6)
        BY ONLY <3>2, IsoWeekIs, Zenon
      <3> QED
        BY ONLY <3>1, <3>3, Zenon
    <2>2. date % 7 \in 0 .. 6 /\ date % 7 <= date
      BY <1>1
    <2> QED
      BY <1>1, <2>1, <2>2 DEF DateRange
  <1>3. CASE p = "month"
    <2>1. PICK m \in Int : /\ calendarMonthOf(date) = Month(m)
                           /\ First(m) <= date /\ date < First(m + 1)
      BY MonthHoldsItsDays
    <2>2. /\ First(m) \in Int /\ First(m + 1) \in Int /\ First(m + 1) <= First(m) + 31
          /\ First(m) + 28 <= First(m + 1)
      BY MonthEnds
    <2>3. First(m) >= 0
      <3>1. PICK t \in Int : t = 12 /\ First(t) = 0 /\ First(t + 1) \in Int /\ 28 <= First(t + 1)
        <4>1. PICK t \in Int : t = 12
          OBVIOUS
        <4>2. First(t) = 0
          BY <4>1 DEF First, firstOfMonth, BeforeYear, BeforeMonth
        <4> QED
          BY <4>1, <4>2, NextFirst
      <3>2. CASE m < t
        <4>1. First(m + 1) <= First(t)
          BY <3>2, MonthsFollow
        <4> QED
          BY <1>1, <2>1, <2>2, <3>1, <4>1
      <3>3. CASE t < m
        <4>1. First(t + 1) <= First(m)
          BY <3>3, MonthsFollow
        <4> QED
          BY <2>2, <3>1, <4>1
      <3> QED
        BY <3>1, <3>2, <3>3
    <2>4. periodRangeOf(p, date) = [start |-> First(m), end |-> First(m + 1) - 1]
      BY <1>3, <2>1 DEF periodRangeOf, Month, DateRange
    <2> QED
      BY <1>1, <2>1, <2>2, <2>3, <2>4
  <1> QED
    BY <1>2, <1>3 DEF PERIODS

LEMMA NoneBack ==
    ASSUME NEW p \in PERIODS, NEW date \in Date
    PROVE  PeriodsBack(p, date, 0) = periodRangeOf(p, date)
  <1>1. CASE p = "week"
    <2>1. date \in Int /\ date - (date % 7) - 7 * 0 = date - (date % 7)
      BY DateAssumption
    <2>2. WeeksBack(date, 0) = DateRange(date - (date % 7), date - (date % 7) + 6)
      BY <2>1 DEF WeeksBack
    <2>3. WeeksBack(date, 0) = isoWeekOf(date)
      BY <2>1, <2>2, IsoWeekIs
    <2> QED
      BY <1>1, <2>3 DEF PeriodsBack, periodRangeOf
  <1>2. CASE p = "month"
    <2>1. PICK m \in Int : First(m) <= date /\ date < First(m + 1)
      BY MonthHoldsItsDays
    <2>2. MonthsBack(date, 0) = Month(m - 0) /\ calendarMonthOf(date) = Month(m) /\ m - 0 = m
      BY <2>1, MonthsBackIs, CalendarMonthIs
    <2> QED
      BY <1>2, <2>2 DEF PeriodsBack, periodRangeOf
  <1> QED
    BY <1>1, <1>2 DEF PERIODS

\* The day before a Period is in the one before it, the day after in the next.
LEMMA BrowseBack ==
    ASSUME NEW p \in PERIODS, NEW date \in Date, NEW n \in Int,
           PeriodsBack(p, date, n).start - 1 \in Date
    PROVE  periodRangeOf(p, PeriodsBack(p, date, n).start - 1) = PeriodsBack(p, date, n + 1)
  <1>1. CASE p = "week"
    <2>1. PICK monday \in Int : monday = date - (date % 7) - 7 * n
      BY DateAssumption
    <2>2. PeriodsBack(p, date, n).start = monday
      BY <1>1, <2>1 DEF PeriodsBack, WeeksBack, DateRange
    <2>3. (monday - 1) % 7 = 6
      <3>1. PICK k \in Int : date = 7 * k + (date % 7)
        BY DateAssumption, DivideBySeven
      <3>2. monday - 1 = 7 * (k - n - 1) + 6
        BY <2>1, <3>1, DateAssumption
      <3> QED
        BY <3>2
    <2>4. isoWeekOf(monday - 1) = DateRange(monday - 7, monday - 1)
      <3>1. isoWeekOf(monday - 1) = DateRange((monday - 1) - 6, (monday - 1) - 6 + 6)
        BY <2>3, IsoWeekIs
      <3> QED
        BY <3>1
    <2>5. PeriodsBack(p, date, n + 1) = DateRange(monday - 7, monday - 1)
      <3>1. date - (date % 7) - 7 * (n + 1) = monday - 7
        BY <2>1, DateAssumption
      <3>2. PeriodsBack(p, date, n + 1) = DateRange(monday - 7, (monday - 7) + 6)
        BY <1>1, <3>1 DEF PeriodsBack, WeeksBack
      <3> QED
        BY <3>2
    <2> QED
      BY <1>1, <2>2, <2>4, <2>5 DEF periodRangeOf
  <1>2. CASE p = "month"
    <2>1. PICK m \in Int : First(m) <= date /\ date < First(m + 1)
      BY MonthHoldsItsDays
    <2>2. PICK k \in Int : k = m - n /\ m - (n + 1) = k - 1 /\ n + 1 \in Int
      OBVIOUS
    <2>3. PeriodsBack(p, date, n) = Month(k) /\ PeriodsBack(p, date, n + 1) = Month(k - 1)
      BY <1>2, <2>1, <2>2, MonthsBackIs DEF PeriodsBack
    <2> QED
      BY <1>2, <2>3, MonthBefore DEF periodRangeOf
  <1> QED
    BY <1>1, <1>2 DEF PERIODS

LEMMA BrowseOn ==
    ASSUME NEW p \in PERIODS, NEW date \in Date, NEW n \in Int,
           PeriodsBack(p, date, n).end + 1 \in Date
    PROVE  periodRangeOf(p, PeriodsBack(p, date, n).end + 1) = PeriodsBack(p, date, n - 1)
  <1>1. CASE p = "week"
    <2>1. PICK monday \in Int : monday = date - (date % 7) - 7 * n
      BY DateAssumption
    <2>2. PeriodsBack(p, date, n).end + 1 = monday + 7
      BY <1>1, <2>1 DEF PeriodsBack, WeeksBack, DateRange
    <2>3. (monday + 7) % 7 = 0
      <3>1. PICK k \in Int : date = 7 * k + (date % 7)
        BY DateAssumption, DivideBySeven
      <3>2. monday + 7 = 7 * (k - n + 1)
        BY <2>1, <3>1, DateAssumption
      <3> QED
        BY <3>2
    <2>4. isoWeekOf(monday + 7) = DateRange(monday + 7, monday + 13)
      <3>1. isoWeekOf(monday + 7) = DateRange((monday + 7) - 0, (monday + 7) - 0 + 6)
        BY <2>3, IsoWeekIs
      <3> QED
        BY <3>1
    <2>5. PeriodsBack(p, date, n - 1) = DateRange(monday + 7, monday + 13)
      <3>1. date - (date % 7) - 7 * (n - 1) = monday + 7
        BY <2>1, DateAssumption
      <3>2. PeriodsBack(p, date, n - 1) = DateRange(monday + 7, (monday + 7) + 6)
        BY <1>1, <3>1 DEF PeriodsBack, WeeksBack
      <3> QED
        BY <3>2
    <2> QED
      BY <1>1, <2>2, <2>4, <2>5 DEF periodRangeOf
  <1>2. CASE p = "month"
    <2>1. PICK m \in Int : First(m) <= date /\ date < First(m + 1)
      BY MonthHoldsItsDays
    <2>2. PICK k \in Int : k = m - n /\ m - (n - 1) = k + 1 /\ n - 1 \in Int
      OBVIOUS
    <2>3. PeriodsBack(p, date, n) = Month(k) /\ PeriodsBack(p, date, n - 1) = Month(k + 1)
      BY <1>2, <2>1, <2>2, MonthsBackIs DEF PeriodsBack
    <2> QED
      BY <1>2, <2>3, MonthAfter DEF periodRangeOf
  <1> QED
    BY <1>1, <1>2 DEF PERIODS

----------------------------------------------------------------------------
(* The types: what is browsed to and shown is a Period of the days there are. *)

Anchors == Earliest .. Latest
Browses ==
    {b \in [anchor : {NoAnchor} \cup Anchors, offset : -MaxBack .. 0] :
        b.anchor = NoAnchor <=> b.offset = 0}
Calls ==
    [phase : {"idle", "acting", "sent", "answered"}, period : PERIODS,
     anchor : {NoAnchor} \cup Anchors, range : [start : Nat, end : Nat], day : Nat]

\* What the server answers for an anchor, or for none on a day.
Answer(p, anchor, day) == periodRangeOf(p, IF anchor = NoAnchor THEN day ELSE anchor)
AnswerOK(load) ==
    load.phase = "answered" =>
        load.day \in FirstDay .. LastDay /\ load.range = Answer(load.period, load.anchor, load.day)
IsPeriod(range) == \E p \in PERIODS, d \in Anchors : range = periodRangeOf(p, d)

ServerOK == today \in FirstDay .. LastDay /\ base \in FirstDay .. LastDay /\ calm \in BOOLEAN
SettingsOK == period \in PERIODS /\ browse \in Browses
ScreenOK(state, range) ==
    /\ state \in {"loading", "loaded", "error"}
    /\ IF state = "loaded" THEN IsPeriod(range) ELSE range = NoRange
CallsOK(calls) == calls \in [Call -> Calls] /\ \A c \in Call : AnswerOK(calls[c])
Typed == ServerOK /\ SettingsOK /\ ScreenOK(status, shown) /\ CallsOK(call)

\* The days of the run, and those shown, have a year and a month.
LEMMA DaysInDate ==
    /\ Anchors \subseteq Date /\ Anchors \subseteq Nat /\ NoAnchor \notin Anchors
    /\ FirstDay .. LastDay \subseteq Anchors
  <1>1. \A d \in Anchors : d \in Date /\ d \in Nat /\ d # NoAnchor
    BY BoundsAssumption, CalendarAssumption DEF Anchors, NoAnchor
  <1>2. \A d \in FirstDay .. LastDay : d \in Anchors
    BY BoundsAssumption DEF Anchors
  <1> QED
    BY <1>1, <1>2

LEMMA PeriodDays ==
    ASSUME NEW range, IsPeriod(range)
    PROVE  /\ range \in [start : Nat, end : Nat]
           /\ Earliest - 30 <= range.start /\ range.start <= Latest
           /\ Earliest <= range.end /\ range.end <= Latest + 30
           /\ range.start <= range.end
  <1>1. PICK p \in PERIODS, d \in Anchors : range = periodRangeOf(p, d)
    BY DEF IsPeriod
  <1>2. d \in Date /\ d \in Nat /\ Earliest <= d /\ d <= Latest
    BY BoundsAssumption, DaysInDate DEF Anchors
  <1>3. /\ range \in [start : Nat, end : Nat]
        /\ range.start <= d /\ d <= range.end
        /\ d <= range.start + 30 /\ range.end <= d + 30
    BY <1>1, <1>2, PeriodHolds
  <1>4. range.start \in Nat /\ range.end \in Nat
    BY <1>3
  <1> QED
    BY <1>2, <1>3, <1>4, BoundsAssumption

LEMMA StartLoadTyped ==
    ASSUME ScreenOK(status, shown), CallsOK(call), NEW c \in Call,
           NEW p \in PERIODS, NEW anchor \in {NoAnchor} \cup Anchors, StartLoad(c, p, anchor)
    PROVE  CallsOK(call') /\ ScreenOK(status', shown)
  <1>1. Load("sent", p, anchor, NoRange, 0) \in Calls
    BY DEF Load, Calls, NoRange, DateRange
  <1>2. AnswerOK(Load("sent", p, anchor, NoRange, 0))
    BY DEF Load, AnswerOK
  <1>3. call' = [call EXCEPT ![c] = Load("sent", p, anchor, NoRange, 0)]
    BY DEF StartLoad
  <1>4. CallsOK(call')
    BY <1>1, <1>2, <1>3 DEF CallsOK
  <1>5. ScreenOK(status', shown)
    BY DEF StartLoad, ScreenOK
  <1> QED
    BY <1>4, <1>5

LEMMA SetTyped ==
    ASSUME Typed, NEW c \in Call, NEW p \in PERIODS, NEW b \in Browses, Set(c, p, b)
    PROVE  Typed'
  <1>1. ServerOK' /\ SettingsOK' /\ shown' = shown
    BY DEF Set, Typed, ServerOK, SettingsOK, Quiet
  <1>2. CASE UNCHANGED <<call, status>>
    BY <1>1, <1>2 DEF Typed
  <1>3. CASE StartLoad(c, p, b.anchor)
    <2>1. b.anchor \in {NoAnchor} \cup Anchors
      BY DEF Browses
    <2>2. CallsOK(call') /\ ScreenOK(status', shown)
      BY <1>3, <2>1, StartLoadTyped DEF Typed
    <2> QED
      BY <1>1, <2>2 DEF Typed
  <1> QED
    BY <1>2, <1>3 DEF Set

\* Where the chevrons lead.
LEMMA PreviousBrowses ==
    ASSUME Typed, status = "loaded", browse.offset > -MaxBack, previousAnchor(shown.start) >= Earliest
    PROVE  browsePrevious(shown.start) \in Browses
  <1>1. shown.start \in Nat /\ shown.start <= Latest
    BY PeriodDays DEF Typed, ScreenOK
  <1>2. shown.start - 1 \in Anchors
    BY <1>1, BoundsAssumption DEF Anchors, previousAnchor
  <1>3. browse.offset \in -MaxBack .. 0
    BY DEF Typed, SettingsOK, Browses
  <1>4. browse.offset - 1 \in -MaxBack .. 0 /\ browse.offset - 1 # 0
    BY <1>3, BoundsAssumption
  <1>5. shown.start - 1 # NoAnchor
    BY <1>2, DaysInDate
  <1> QED
    BY <1>2, <1>4, <1>5 DEF browsePrevious, previousAnchor, Browse, Browses

LEMMA CurrentBrowses == CURRENT_PERIOD_BROWSE_STATE \in Browses
  <1>1. 0 \in -MaxBack .. 0
    BY BoundsAssumption
  <1> QED
    BY <1>1 DEF CURRENT_PERIOD_BROWSE_STATE, Browse, Browses

LEMMA NextBrowses ==
    ASSUME Typed, status = "loaded", nextAnchor(shown.end) <= Latest
    PROVE  browseNext(shown.end) \in Browses
  <1>1. shown.end \in Nat /\ Earliest <= shown.end
    BY PeriodDays DEF Typed, ScreenOK
  <1>2. shown.end + 1 \in Anchors
    BY <1>1, BoundsAssumption DEF Anchors, nextAnchor
  <1>3. browse.offset \in -MaxBack .. 0
    BY DEF Typed, SettingsOK, Browses
  <1>4. CASE browse.offset + 1 >= 0
    BY <1>4, CurrentBrowses DEF browseNext
  <1>5. CASE ~ (browse.offset + 1 >= 0)
    <2>1. browse.offset + 1 \in -MaxBack .. 0 /\ browse.offset + 1 # 0
      BY <1>3, <1>5, BoundsAssumption
    <2>2. shown.end + 1 # NoAnchor
      BY <1>2, DaysInDate
    <2> QED
      BY <1>2, <1>5, <2>1, <2>2 DEF browseNext, nextAnchor, Browse, Browses
  <1> QED
    BY <1>4, <1>5

\* A call that ends, or goes on to its load.
LEMMA CallTyped ==
    ASSUME CallsOK(call), NEW c \in Call, NEW load \in Calls, AnswerOK(load),
           call' = [call EXCEPT ![c] = load]
    PROVE  CallsOK(call')
  BY DEF CallsOK

LEMMA NoCallTyped == NoCall \in Calls /\ AnswerOK(NoCall)
  BY DEF NoCall, Load, Calls, NoRange, DateRange, PERIODS, AnswerOK

LEMMA ResolveTyped ==
    ASSUME Typed, NEW c \in Call, Resolve(c)
    PROVE  /\ CallsOK(call')
           /\ call'[c].phase = "answered" /\ call'[c].period = call[c].period
           /\ call'[c].anchor = call[c].anchor
           /\ \A d \in Call \ {c} : call'[d] = call[d]
  <1>1. call \in [Call -> Calls] /\ call[c] \in Calls
    BY DEF Typed, CallsOK
  <1>2. PICK p \in PERIODS, anchor \in {NoAnchor} \cup Anchors :
            p = call[c].period /\ anchor = call[c].anchor
    BY <1>1 DEF Calls
  <1>3. PICK day \in FirstDay .. LastDay : day = today
    BY DEF Typed, ServerOK
  <1>4. (IF anchor = NoAnchor THEN day ELSE anchor) \in Date /\ day \in Nat
    BY <1>2, <1>3, DaysInDate
  <1>5. PICK range \in [start : Nat, end : Nat] : range = Answer(p, anchor, day)
    BY <1>2, <1>4, PeriodHolds DEF Answer
  <1>6. call' = [call EXCEPT ![c] = Load("answered", p, anchor, range, day)]
    BY <1>2, <1>3, <1>5 DEF Resolve, Answer
  <1>7. /\ Load("answered", p, anchor, range, day) \in Calls
        /\ AnswerOK(Load("answered", p, anchor, range, day))
    BY <1>3, <1>4, <1>5 DEF Load, Calls, AnswerOK
  <1>8. CallsOK(call')
    BY <1>6, <1>7, CallTyped DEF Typed
  <1>9. call'[c] = Load("answered", p, anchor, range, day)
    BY <1>1, <1>6
  <1>10. /\ call'[c].phase = "answered" /\ call'[c].period = call[c].period
         /\ call'[c].anchor = call[c].anchor
    BY <1>2, <1>9 DEF Load
  <1>11. \A d \in Call \ {c} : call'[d] = call[d]
    BY <1>1, <1>6
  <1> QED
    BY <1>8, <1>10, <1>11

LEMMA StepTyped == Typed /\ [Next]_vars => Typed'
  <1> SUFFICES ASSUME Typed, [Next]_vars PROVE Typed'
    OBVIOUS
  <1>1. ASSUME NEW c \in Call, Focus(c) PROVE Typed'
    <2>1. browse.anchor \in {NoAnchor} \cup Anchors /\ period \in PERIODS
      BY DEF Typed, SettingsOK, Browses
    <2>2. CallsOK(call') /\ ScreenOK(status', shown)
      BY <1>1, <2>1, StartLoadTyped DEF Focus, Typed
    <2> QED
      BY <1>1, <2>2 DEF Focus, Typed, settings, ServerOK, SettingsOK
  <1>2. ASSUME NEW c \in Call, onPressPrevious(c) PROVE Typed'
    <2>1. browsePrevious(shown.start) \in Browses
      BY <1>2, PreviousBrowses DEF onPressPrevious, Set
    <2> QED
      BY <1>2, <2>1, SetTyped DEF onPressPrevious, Typed, SettingsOK
  <1>3. ASSUME NEW c \in Call, onPressNext(c) PROVE Typed'
    <2>1. browseNext(shown.end) \in Browses
      BY <1>3, NextBrowses DEF onPressNext, Set
    <2> QED
      BY <1>3, <2>1, SetTyped DEF onPressNext, Typed, SettingsOK
  <1>4. ASSUME NEW c \in Call, NEW p \in PERIODS, onChangePeriod(c, p) PROVE Typed'
    BY <1>4, CurrentBrowses, SetTyped DEF onChangePeriod
  <1>5. ASSUME NEW c \in Call, runAction(c) PROVE Typed'
    <2>1. browse.anchor \in {NoAnchor} \cup Anchors /\ period \in PERIODS
      BY DEF Typed, SettingsOK, Browses
    <2>2. /\ Load("acting", period, browse.anchor, NoRange, 0) \in Calls
          /\ AnswerOK(Load("acting", period, browse.anchor, NoRange, 0))
      BY <2>1 DEF Load, Calls, NoRange, DateRange, AnswerOK
    <2>3. CallsOK(call')
      BY <1>5, <2>2, CallTyped DEF runAction, Typed
    <2> QED
      BY <1>5, <2>3 DEF runAction, Typed, settings, ServerOK, SettingsOK
  <1>6. ASSUME NEW c \in Call, ActionDone(c) PROVE Typed'
    <2>1. call \in [Call -> Calls] /\ call[c] \in Calls
      BY DEF Typed, CallsOK
    <2>2. [call[c] EXCEPT !.phase = "sent"] \in Calls
          /\ [call[c] EXCEPT !.phase = "sent"].phase = "sent"
      BY <2>1 DEF Calls
    <2>3. AnswerOK([call[c] EXCEPT !.phase = "sent"])
      BY <2>2 DEF AnswerOK
    <2>4. call' = [call EXCEPT ![c] = [call[c] EXCEPT !.phase = "sent"]]
      BY <1>6 DEF ActionDone
    <2>5. CallsOK(call')
      BY <2>2, <2>3, <2>4, CallTyped DEF Typed
    <2>6. ScreenOK(status', shown)
      BY <1>6 DEF ActionDone, Typed, ScreenOK
    <2> QED
      BY <1>6, <2>5, <2>6 DEF ActionDone, Typed, settings, ServerOK, SettingsOK
  <1>7. ASSUME NEW c \in Call, ActionFails(c) PROVE Typed'
    <2>1. CallsOK(call')
      BY <1>7, NoCallTyped, CallTyped DEF ActionFails, Typed
    <2> QED
      BY <1>7, <2>1 DEF ActionFails, Typed, settings, ServerOK, SettingsOK
  <1>8. ASSUME NEW c \in Call, Resolve(c) PROVE Typed'
    <2>1. CallsOK(call')
      BY <1>8, ResolveTyped
    <2> QED
      BY <1>8, <2>1 DEF Resolve, Typed, settings, ServerOK, SettingsOK
  <1>9. ASSUME NEW c \in Call, LoadArrives(c) PROVE Typed'
    <2>1. call[c] \in Calls /\ AnswerOK(call[c]) /\ call[c].phase = "answered"
      BY <1>9 DEF LoadArrives, Typed, CallsOK
    <2>2. call[c].day \in FirstDay .. LastDay
      BY <2>1 DEF AnswerOK
    <2>3. IsPeriod(call[c].range)
      <3>1. call[c].period \in PERIODS /\ call[c].anchor \in {NoAnchor} \cup Anchors
        BY <2>1 DEF Calls
      <3>2. (IF call[c].anchor = NoAnchor THEN call[c].day ELSE call[c].anchor) \in Anchors
        BY <2>2, <3>1, DaysInDate
      <3> QED
        BY <2>1, <3>1, <3>2 DEF AnswerOK, Answer, IsPeriod
    <2>4. CallsOK(call')
      BY <1>9, NoCallTyped, CallTyped DEF LoadArrives, Typed
    <2>5. ScreenOK(status', shown')
      BY <1>9, <2>3 DEF LoadArrives, ScreenOK
    <2>6. base' \in FirstDay .. LastDay
      BY <1>9, <2>2 DEF LoadArrives, Typed, ServerOK
    <2>7. calm' \in BOOLEAN /\ today' = today
      BY <1>9 DEF LoadArrives
    <2> QED
      BY <1>9, <2>4, <2>5, <2>6, <2>7 DEF LoadArrives, Typed, settings, ServerOK, SettingsOK
  <1>10. ASSUME NEW c \in Call, LoadFails(c) PROVE Typed'
    <2>1. CallsOK(call')
      BY <1>10, NoCallTyped, CallTyped DEF LoadFails, Typed
    <2>2. ScreenOK(status', shown')
      BY <1>10 DEF LoadFails, ScreenOK
    <2> QED
      BY <1>10, <2>1, <2>2 DEF LoadFails, Typed, settings, ServerOK, SettingsOK
  <1>11. CASE Midnight
    <2>1. today' \in FirstDay .. LastDay
      BY <1>11, BoundsAssumption DEF Midnight, Typed, ServerOK
    <2> QED
      BY <1>11, <2>1 DEF Midnight, Typed, settings, ServerOK, SettingsOK
  <1>12. CASE UNCHANGED vars
    BY <1>12 DEF vars, settings, Typed, ServerOK, SettingsOK
  <1> QED
    BY <1>1, <1>2, <1>3, <1>4, <1>5, <1>6, <1>7, <1>8, <1>9, <1>10, <1>11, <1>12 DEF Next

LEMMA InitTyped == Init => Typed
  <1> SUFFICES ASSUME Init PROVE Typed
    OBVIOUS
  <1>1. SettingsOK
    BY CurrentBrowses DEF Init, SettingsOK, PERIODS
  <1>2. CallsOK(call)
    BY NoCallTyped DEF Init, CallsOK
  <1> QED
    BY <1>1, <1>2, BoundsAssumption DEF Init, Typed, ServerOK, ScreenOK

LEMMA TypedHolds == Spec => []Typed
  BY InitTyped, StepTyped, PTL DEF Spec

(* The anchor is null exactly at offset 0, and the offset never points past *)
(* the current Period (lib/leaderboard.ts): for any days, any number of     *)
(* calls under way and any bound.                                            *)
THEOREM BoardTyped == Spec => []TypeOK
  <1>1. Typed => TypeOK
    <2> SUFFICES ASSUME Typed PROVE TypeOK
      OBVIOUS
    <2>1. shown.start \in Nat /\ shown.end \in Nat /\ (status # "loaded" => shown = NoRange)
      <3>1. CASE status = "loaded"
        BY <3>1, PeriodDays DEF Typed, ScreenOK
      <3>2. CASE status # "loaded"
        BY <3>2 DEF Typed, ScreenOK, NoRange, DateRange
      <3> QED
        BY <3>1, <3>2
    <2>2. /\ browse.anchor \in Nat \cup {NoAnchor} /\ browse.offset \in -MaxBack .. 0
          /\ browse.anchor = NoAnchor <=> browse.offset = 0
      BY DaysInDate DEF Typed, SettingsOK, Browses
    <2>3. \A c \in Call : /\ call[c].phase \in {"idle", "acting", "sent", "answered"}
                          /\ call[c].period \in PERIODS
                          /\ call[c].anchor \in Nat \cup {NoAnchor}
      BY DaysInDate DEF Typed, CallsOK, Calls
    <2> QED
      BY <2>1, <2>2, <2>3 DEF Typed, ServerOK, SettingsOK, ScreenOK, TypeOK
  <1> QED
    BY <1>1, TypedHolds, PTL

----------------------------------------------------------------------------
(* The Period shown is the one browsed to.                                 *)

Counted(p, b, day) == PeriodsBack(p, day, -b.offset)

\* Every call under way loads what the screen is set to, unless it has been set
\* to something else meanwhile.
CallsAgree(calls, p, b) ==
    \A c \in Call : calls[c].phase # "idle" => calls[c].period = p /\ calls[c].anchor = b.anchor

\* An anchor is in the Period that its offset counts back to.
Leads(p, b, day) ==
    b.anchor # NoAnchor => periodRangeOf(p, b.anchor) = Counted(p, b, day)

NoLoad(calls) == \A c \in Call : calls[c].phase \notin {"sent", "answered"}

\* With no load under way the list that is up is that Period's.
Browsed ==
    calm =>
        /\ CallsAgree(call, period, browse)
        /\ Leads(period, browse, base)
        /\ status = "loaded" /\ NoLoad(call) => shown = Counted(period, browse, base)

LEMMA NegativeOffset ==
    ASSUME NEW b \in Browses
    PROVE  b.offset \in Int /\ -b.offset \in Int
           /\ -(b.offset - 1) = -b.offset + 1 /\ -(b.offset + 1) = -b.offset - 1
  <1>1. b.offset \in -MaxBack .. 0
    BY DEF Browses
  <1> QED
    BY <1>1, BoundsAssumption

\* No anchor: the current Period of the day.
LEMMA CurrentCounted ==
    ASSUME NEW p \in PERIODS, NEW b \in Browses, NEW day \in Date, b.anchor = NoAnchor
    PROVE  Counted(p, b, day) = periodRangeOf(p, day) /\ Leads(p, b, day)
  <1>1. b.offset = 0 /\ -b.offset = 0
    BY DEF Browses
  <1> QED
    BY <1>1, NoneBack DEF Counted, Leads

\* Setting the screen, calmly, to where a Period's neighbour is.
LEMMA SetBrowsed ==
    ASSUME Typed, Browsed, NEW c \in Call, NEW p \in PERIODS, NEW b \in Browses, Set(c, p, b),
           calm /\ Quiet => Leads(p, b, base),
           calm /\ Quiet => (b = browse /\ p = period) \/ <<p, b.anchor>> # <<period, browse.anchor>>
    PROVE  Browsed'
  <1> SUFFICES ASSUME calm' PROVE Browsed'
    BY DEF Browsed
  <1>1. /\ calm /\ Quiet /\ base' = base /\ shown' = shown /\ period' = p /\ browse' = b
        /\ status = "loaded"
    BY DEF Set
  <1>2. CASE <<p, b.anchor>> = <<period, browse.anchor>>
    <2>1. call' = call /\ status' = status /\ b = browse /\ p = period
      BY <1>1, <1>2 DEF Set
    <2> QED
      BY <1>1, <2>1 DEF Browsed
  <1>3. CASE <<p, b.anchor>> # <<period, browse.anchor>>
    <2>1. call' = [call EXCEPT ![c] = Load("sent", p, b.anchor, NoRange, 0)]
      BY <1>3 DEF Set, StartLoad
    <2>2. DOMAIN call = Call
      BY DEF Typed, CallsOK
    <2>3. /\ call'[c] = Load("sent", p, b.anchor, NoRange, 0)
          /\ \A d \in Call \ {c} : call'[d] = call[d]
      BY <2>1, <2>2
    <2>4. CallsAgree(call', p, b)
      BY <1>1, <2>3 DEF CallsAgree, Load, Quiet
    <2>5. ~ NoLoad(call')
      BY <2>3 DEF NoLoad, Load
    <2> QED
      BY <1>1, <2>4, <2>5 DEF Browsed
  <1> QED
    BY <1>2, <1>3

\* What is shown when nothing is under way and the settings are calm.
LEMMA CalmlyShown ==
    ASSUME Typed, Browsed, calm, Quiet, status = "loaded"
    PROVE  /\ shown = Counted(period, browse, base)
           /\ browse.anchor # NoAnchor => shown.start <= browse.anchor /\ browse.anchor <= shown.end
           /\ shown.start \in Nat /\ shown.end \in Nat
           /\ base \in Date
  <1>1. NoLoad(call)
    BY DEF Quiet, NoLoad
  <1>2. shown = Counted(period, browse, base)
    BY <1>1 DEF Browsed
  <1>3. ASSUME browse.anchor # NoAnchor
        PROVE  shown.start <= browse.anchor /\ browse.anchor <= shown.end
    <2>1. browse.anchor \in Date /\ period \in PERIODS
      BY <1>3, DaysInDate DEF Typed, SettingsOK, Browses
    <2>2. shown = periodRangeOf(period, browse.anchor)
      BY <1>2, <1>3 DEF Browsed, Leads
    <2> QED
      BY <2>1, <2>2, PeriodHolds
  <1>4. shown.start \in Nat /\ shown.end \in Nat
    BY PeriodDays DEF Typed, ScreenOK
  <1>5. base \in Date
    BY DaysInDate DEF Typed, ServerOK
  <1> QED
    BY <1>2, <1>3, <1>4, <1>5

LEMMA PreviousBrowsed ==
    ASSUME Typed, Browsed, NEW c \in Call, onPressPrevious(c)
    PROVE  Browsed'
  <1> DEFINE b == browsePrevious(shown.start)
  <1>1. b \in Browses /\ period \in PERIODS /\ status = "loaded" /\ Set(c, period, b)
    BY PreviousBrowses DEF onPressPrevious, Set, Typed, SettingsOK
  <1>2. b.anchor = shown.start - 1 /\ b.offset = browse.offset - 1
    BY DEF browsePrevious, previousAnchor, Browse
  <1>3. browse \in Browses
    BY DEF Typed, SettingsOK
  <1>4. ASSUME calm, Quiet
        PROVE  Leads(period, b, base) /\ b.anchor # browse.anchor
    <2>1. PICK n \in Int : n = -browse.offset /\ n + 1 = -b.offset
      BY <1>2, <1>3, NegativeOffset
    <2>2. shown = PeriodsBack(period, base, n) /\ base \in Date
      BY <1>1, <1>4, <2>1, CalmlyShown DEF Counted
    <2>3. b.anchor \in {NoAnchor} \cup Anchors /\ shown.start \in Nat
      BY <1>1, <1>4, CalmlyShown DEF Browses
    <2>4. b.anchor # browse.anchor
      <3>1. CASE browse.anchor = NoAnchor
        <4>1. previousAnchor(shown.start) >= Earliest
          BY DEF onPressPrevious
        <4> QED
          BY <1>2, <3>1, <4>1, BoundsAssumption DEF previousAnchor, NoAnchor
      <3>2. CASE browse.anchor # NoAnchor
        <4>1. shown.start <= browse.anchor /\ browse.anchor \in Nat
          BY <1>1, <1>3, <1>4, <3>2, CalmlyShown, DaysInDate DEF Browses
        <4> QED
          BY <1>2, <2>3, <4>1
      <3> QED
        BY <3>1, <3>2
    <2>5. CASE b.anchor = NoAnchor
      BY <2>4, <2>5 DEF Leads
    <2>6. CASE b.anchor # NoAnchor
      <3>1. PeriodsBack(period, base, n).start - 1 \in Date
        BY <1>2, <2>2, <2>3, <2>6, DaysInDate
      <3>2. periodRangeOf(period, PeriodsBack(period, base, n).start - 1)
                = PeriodsBack(period, base, n + 1)
        BY <1>1, <2>2, <3>1, BrowseBack
      <3> QED
        BY <1>2, <2>1, <2>2, <2>4, <3>2 DEF Leads, Counted
    <2> QED
      BY <2>4, <2>5, <2>6
  <1> HIDE DEF b
  <1> QED
    BY <1>1, <1>4, SetBrowsed

LEMMA NextBrowsed ==
    ASSUME Typed, Browsed, NEW c \in Call, onPressNext(c)
    PROVE  Browsed'
  <1> DEFINE b == browseNext(shown.end)
  <1>1. b \in Browses /\ period \in PERIODS /\ status = "loaded" /\ Set(c, period, b)
    BY NextBrowses DEF onPressNext, Set, Typed, SettingsOK
  <1>2. browse \in Browses /\ browse.offset \in -MaxBack .. 0 /\ browse.offset # 0
    BY DEF Typed, SettingsOK, Browses, onPressNext, isNextDisabled
  <1>3. browse.anchor # NoAnchor
    BY <1>2 DEF Browses
  <1>4. ASSUME calm, Quiet
        PROVE  Leads(period, b, base) /\ b.anchor # browse.anchor
    <2>1. CASE browse.offset + 1 >= 0
      BY <1>3, <2>1 DEF browseNext, CURRENT_PERIOD_BROWSE_STATE, Browse, Leads
    <2>2. CASE ~ (browse.offset + 1 >= 0)
      <3>1. b.anchor = shown.end + 1 /\ b.offset = browse.offset + 1
        BY <2>2 DEF browseNext, nextAnchor, Browse
      <3>2. PICK n \in Int : n = -browse.offset /\ n - 1 = -b.offset
        BY <1>2, <3>1, NegativeOffset
      <3>3. /\ shown = PeriodsBack(period, base, n) /\ base \in Date /\ shown.end \in Nat
            /\ browse.anchor <= shown.end
        BY <1>1, <1>3, <1>4, <3>2, CalmlyShown DEF Counted
      <3>4. b.anchor # NoAnchor
        BY <3>1, <3>3 DEF NoAnchor
      <3>5. b.anchor \in Date
        BY <1>1, <3>4, DaysInDate DEF Browses
      <3>6. periodRangeOf(period, PeriodsBack(period, base, n).end + 1)
                = PeriodsBack(period, base, n - 1)
        <4>1. PeriodsBack(period, base, n).end + 1 \in Date
          BY <3>1, <3>3, <3>5
        <4> QED
          BY <1>1, <3>3, <4>1, BrowseOn
      <3>7. Leads(period, b, base)
        BY <3>1, <3>2, <3>3, <3>6 DEF Leads, Counted
      <3>8. browse.anchor \in Nat
        BY <1>2, <1>3, DaysInDate DEF Browses
      <3> QED
        BY <3>1, <3>3, <3>7, <3>8
    <2> QED
      BY <2>1, <2>2
  <1> HIDE DEF b
  <1> QED
    BY <1>1, <1>4, SetBrowsed

LEMMA ChangeBrowsed ==
    ASSUME Typed, Browsed, NEW c \in Call, NEW p \in PERIODS, onChangePeriod(c, p)
    PROVE  Browsed'
  <1> DEFINE b == CURRENT_PERIOD_BROWSE_STATE
  <1>1. b \in Browses /\ b.anchor = NoAnchor /\ b = [anchor |-> NoAnchor, offset |-> 0]
    BY CurrentBrowses DEF CURRENT_PERIOD_BROWSE_STATE, Browse
  <1>2. Leads(p, b, base)
    BY <1>1 DEF Leads
  <1>3. (b = browse /\ p = period) \/ <<p, b.anchor>> # <<period, browse.anchor>>
    <2>1. CASE browse.anchor = NoAnchor /\ p = period
      <3>1. browse \in [anchor : {NoAnchor} \cup Anchors, offset : -MaxBack .. 0]
            /\ browse.offset = 0
        BY <2>1 DEF Typed, SettingsOK, Browses
      <3> QED
        BY <1>1, <2>1, <3>1
    <2>2. CASE ~ (browse.anchor = NoAnchor /\ p = period)
      BY <1>1, <2>2
    <2> QED
      BY <2>1, <2>2
  <1>4. Set(c, p, b)
    BY DEF onChangePeriod
  <1> HIDE DEF b
  <1> QED
    BY <1>1, <1>2, <1>3, <1>4, SetBrowsed

\* A load or an action begun with the settings as they are, and a call that goes
\* on without an answer, leave the agreement; a list is only trusted at rest.
LEMMA CallBrowsed ==
    ASSUME Typed, Browsed, UNCHANGED <<settings, shown, base, calm>>,
           NEW c \in Call, \A d \in Call \ {c} : call'[d] = call[d],
           call'[c].phase # "idle" /\ calm =>
               call'[c].period = period /\ call'[c].anchor = browse.anchor,
           status' = "loaded" /\ NoLoad(call') => status = "loaded" /\ NoLoad(call)
    PROVE  Browsed'
  <1> SUFFICES ASSUME calm' PROVE Browsed'
    BY DEF Browsed
  <1>1. calm /\ period' = period /\ browse' = browse /\ base' = base /\ shown' = shown
    BY DEF settings
  <1>2. CallsAgree(call', period, browse)
    BY <1>1 DEF Browsed, CallsAgree
  <1> QED
    BY <1>1, <1>2 DEF Browsed

LEMMA ArrivesBrowsed ==
    ASSUME Typed, Browsed, NEW c \in Call, LoadArrives(c)
    PROVE  Browsed'
  <1> SUFFICES ASSUME calm' PROVE Browsed'
    BY DEF Browsed
  <1>1. /\ period' = period /\ browse' = browse /\ shown' = call[c].range
        /\ call' = [call EXCEPT ![c] = NoCall] /\ call[c].phase = "answered"
        /\ base' = IF call[c].anchor = NoAnchor THEN call[c].day ELSE base
    BY DEF LoadArrives, settings
  <1>2. /\ call \in [Call -> Calls] /\ call[c] \in Calls
        /\ call[c].day \in FirstDay .. LastDay
        /\ call[c].range = Answer(call[c].period, call[c].anchor, call[c].day)
    BY <1>1 DEF Typed, CallsOK, AnswerOK
  <1>3. call'[c].phase = "idle" /\ \A d \in Call \ {c} : call'[d] = call[d]
    BY <1>1, <1>2 DEF NoCall, Load
  <1>4. browse \in Browses /\ period \in PERIODS
    BY DEF Typed, SettingsOK
  <1>5. call[c].day \in Date /\ base \in Date
    BY <1>2, DaysInDate DEF Typed, ServerOK
  \* This was a call of the settings as they are, and no other differs.
  <1>6. /\ call[c].period = period /\ call[c].anchor = browse.anchor
        /\ CallsAgree(call', period, browse)
        /\ calm \/ browse.anchor = NoAnchor
    <2>1. CASE calm
      BY <1>1, <1>3, <2>1 DEF Browsed, CallsAgree
    <2>2. CASE ~ calm
      <3>1. /\ \A d \in Call \ {c} : call[d].phase = "idle"
            /\ browse = CURRENT_PERIOD_BROWSE_STATE
            /\ call[c].period = period /\ call[c].anchor = NoAnchor
        BY <2>2 DEF LoadArrives
      <3>2. browse.anchor = NoAnchor
        BY <3>1 DEF CURRENT_PERIOD_BROWSE_STATE, Browse
      <3> QED
        BY <1>3, <3>1, <3>2 DEF CallsAgree
    <2> QED
      BY <2>1, <2>2
  <1>7. CASE browse.anchor = NoAnchor
    <2>1. base' = call[c].day /\ shown' = periodRangeOf(period, call[c].day)
      BY <1>1, <1>2, <1>6, <1>7 DEF Answer
    <2>2. /\ Counted(period, browse, base') = periodRangeOf(period, base')
          /\ Leads(period, browse, base')
      BY <1>4, <1>5, <1>7, <2>1, CurrentCounted
    <2> QED
      BY <1>1, <1>6, <2>1, <2>2 DEF Browsed
  <1>8. CASE browse.anchor # NoAnchor
    <2>1. base' = base /\ shown' = periodRangeOf(period, browse.anchor)
      BY <1>1, <1>2, <1>6, <1>8 DEF Answer
    <2>2. Leads(period, browse, base)
      BY <1>6, <1>8 DEF Browsed
    <2> QED
      BY <1>1, <1>6, <1>8, <2>1, <2>2 DEF Browsed, Leads
  <1> QED
    BY <1>7, <1>8

LEMMA StepBrowsed == Typed /\ Browsed /\ [Next]_vars => Browsed'
  <1> SUFFICES ASSUME Typed, Browsed, [Next]_vars PROVE Browsed'
    OBVIOUS
  <1>0. DOMAIN call = Call
    BY DEF Typed, CallsOK
  <1>1. ASSUME NEW c \in Call, Focus(c) PROVE Browsed'
    <2>1. call' = [call EXCEPT ![c] = Load("sent", period, browse.anchor, NoRange, 0)]
      BY <1>1 DEF Focus, StartLoad
    <2>2. /\ call'[c] = Load("sent", period, browse.anchor, NoRange, 0)
          /\ \A d \in Call \ {c} : call'[d] = call[d]
      BY <1>0, <2>1
    <2>3. /\ call'[c].phase = "sent" /\ call'[c].period = period
          /\ call'[c].anchor = browse.anchor
      BY <2>2 DEF Load
    <2>4. ~ NoLoad(call')
      BY <2>3 DEF NoLoad
    <2>5. UNCHANGED <<settings, shown, base, calm>>
      BY <1>1 DEF Focus
    <2> QED
      BY <2>2, <2>3, <2>4, <2>5, CallBrowsed
  <1>2. ASSUME NEW c \in Call, runAction(c) PROVE Browsed'
    <2>1. /\ call' = [call EXCEPT ![c] = Load("acting", period, browse.anchor, NoRange, 0)]
          /\ call[c].phase = "idle" /\ status' = status
      BY <1>2 DEF runAction
    <2>2. /\ call'[c] = Load("acting", period, browse.anchor, NoRange, 0)
          /\ \A d \in Call \ {c} : call'[d] = call[d]
      BY <1>0, <2>1
    <2>3. call'[c].period = period /\ call'[c].anchor = browse.anchor
      BY <2>2 DEF Load
    <2>4. NoLoad(call') => NoLoad(call)
      BY <2>1, <2>2 DEF NoLoad
    <2>5. UNCHANGED <<settings, shown, base, calm>>
      BY <1>2 DEF runAction
    <2> QED
      BY <2>1, <2>2, <2>3, <2>4, <2>5, CallBrowsed
  <1>3. ASSUME NEW c \in Call, ActionDone(c) PROVE Browsed'
    <2>1. call \in [Call -> Calls] /\ call[c] \in Calls /\ call[c].phase = "acting"
          /\ call' = [call EXCEPT ![c] = [call[c] EXCEPT !.phase = "sent"]]
      BY <1>3 DEF ActionDone, Typed, CallsOK
    <2>2. /\ call'[c] = [call[c] EXCEPT !.phase = "sent"]
          /\ \A d \in Call \ {c} : call'[d] = call[d]
      BY <2>1
    <2>3. /\ call'[c].phase = "sent" /\ call'[c].period = call[c].period
          /\ call'[c].anchor = call[c].anchor
      BY <2>1, <2>2 DEF Calls
    <2>4. ~ NoLoad(call')
      BY <2>3 DEF NoLoad
    <2>5. UNCHANGED <<settings, shown, base, calm>>
      BY <1>3 DEF ActionDone
    <2>6. calm => call[c].period = period /\ call[c].anchor = browse.anchor
      BY <2>1 DEF Browsed, CallsAgree
    <2> QED
      BY <2>2, <2>3, <2>4, <2>5, <2>6, CallBrowsed
  <1>4. ASSUME NEW c \in Call, ActionFails(c) PROVE Browsed'
    <2>1. /\ call' = [call EXCEPT ![c] = NoCall] /\ call[c].phase = "acting" /\ status' = status
      BY <1>4 DEF ActionFails
    <2>2. call'[c].phase = "idle" /\ \A d \in Call \ {c} : call'[d] = call[d]
      BY <1>0, <2>1 DEF NoCall, Load
    <2>3. NoLoad(call') => NoLoad(call)
      BY <2>1, <2>2 DEF NoLoad
    <2>4. UNCHANGED <<settings, shown, base, calm>>
      BY <1>4 DEF ActionFails
    <2> QED
      BY <2>1, <2>2, <2>3, <2>4, CallBrowsed
  <1>5. ASSUME NEW c \in Call, Resolve(c) PROVE Browsed'
    <2>1. /\ call'[c].phase = "answered" /\ call'[c].period = call[c].period
          /\ call'[c].anchor = call[c].anchor
          /\ \A d \in Call \ {c} : call'[d] = call[d]
      BY <1>5, ResolveTyped
    <2>2. ~ NoLoad(call')
      BY <2>1 DEF NoLoad
    <2>3. UNCHANGED <<settings, shown, base, calm>> /\ call[c].phase = "sent"
      BY <1>5 DEF Resolve
    <2>4. calm => call[c].period = period /\ call[c].anchor = browse.anchor
      BY <2>3 DEF Browsed, CallsAgree
    <2> QED
      BY <2>1, <2>2, <2>3, <2>4, CallBrowsed
  <1>6. ASSUME NEW c \in Call, LoadFails(c) PROVE Browsed'
    <2>1. /\ call' = [call EXCEPT ![c] = NoCall] /\ status' = "error"
          /\ period' = period /\ browse' = browse /\ base' = base /\ calm' = calm
      BY <1>6 DEF LoadFails, settings
    <2>2. call'[c].phase = "idle" /\ \A d \in Call \ {c} : call'[d] = call[d]
      BY <1>0, <2>1 DEF NoCall, Load
    <2>3. CallsAgree(call, period, browse) => CallsAgree(call', period, browse)
      BY <2>2 DEF CallsAgree
    <2> QED
      BY <2>1, <2>3 DEF Browsed
  <1>7. CASE Midnight \/ UNCHANGED vars
    <2>1. UNCHANGED <<settings, status, shown, call, base, calm>>
      BY <1>7 DEF Midnight, vars
    <2> QED
      BY <2>1 DEF Browsed, settings
  <1> QED
    BY <1>1, <1>2, <1>3, <1>4, <1>5, <1>6, <1>7, PreviousBrowsed, NextBrowsed, ChangeBrowsed,
       ArrivesBrowsed DEF Next

(* The range shown is the Period as many steps back as the chevrons were     *)
(* pressed (leaderboard.tsx:113-131, lib/leaderboard.ts:38-72), provided none *)
(* is pressed while a call is under way: over any weeks and months, any      *)
(* number of calls and any midnights between them.                            *)
THEOREM BrowsedIsShown == Spec => []ShownIsBrowsed
  <1>1. Init => Browsed
    <2> SUFFICES ASSUME Init PROVE Browsed
      OBVIOUS
    <2>1. CallsAgree(call, period, browse)
      BY DEF Init, CallsAgree, NoCall, Load
    <2>2. Leads(period, browse, base)
      BY DEF Init, CURRENT_PERIOD_BROWSE_STATE, Browse, Leads
    <2> QED
      BY <2>1, <2>2 DEF Init, Browsed
  <1>2. Browsed => ShownIsBrowsed
    BY DEF Browsed, ShownIsBrowsed, Quiet, NoLoad, Counted
  <1> QED
    BY <1>1, <1>2, StepBrowsed, TypedHolds, PTL DEF Spec

(* The previous Period of the Expenses tab (ExpensesService.statistics) is   *)
(* the one that browsing one step back shows (lib/leaderboard.ts:48), and    *)
(* ends the day before, today and on each day shown.                          *)
THEOREM PreviousOneBack == Spec => []PreviousIsOneBack
  <1>1. Typed => PreviousIsOneBack
    <2> SUFFICES ASSUME Typed, NEW p \in PERIODS, NEW d \in {today, shown.start, shown.end} \ {0}
                 PROVE  LET range == periodRangeOf(p, d)
                            previous == previousRangeOf(p, d)
                        IN  /\ d \in range.start .. range.end
                            /\ previous = periodRangeOf(p, previousAnchor(range.start))
                            /\ previous.end + 1 = range.start
      BY DEF PreviousIsOneBack
    <2>1. d \in Int /\ Earliest - 30 <= d /\ d <= Latest + 30
      <3>1. CASE d = today
        BY <3>1, BoundsAssumption DEF Typed, ServerOK
      <3>2. CASE d # today /\ status = "loaded"
        BY <3>2, PeriodDays, BoundsAssumption DEF Typed, ScreenOK
      <3>3. CASE d # today /\ status # "loaded"
        BY <3>3 DEF Typed, ScreenOK, NoRange, DateRange
      <3> QED
        BY <3>1, <3>2, <3>3
    <2>2. d \in Date /\ \A e \in (d - 62) .. d : e \in Date
      <3>1. \A e \in (d - 62) .. d : e \in (Earliest - 93) .. (Latest + 31)
        BY <2>1, BoundsAssumption
      <3>2. d \in (d - 62) .. d
        BY <2>1
      <3> QED
        BY <3>1, <3>2, CalendarAssumption
    <2>3. PICK range : range = periodRangeOf(p, d)
      OBVIOUS
    <2>4. range \in [start : Nat, end : Nat] /\ range.start <= d /\ d <= range.end
      BY <2>2, <2>3, PeriodHolds
    <2>5. d \in range.start .. range.end
      BY <2>1, <2>4
    <2>6. /\ previousRangeOf(p, d) = periodRangeOf(p, range.start - 1)
          /\ previousRangeOf(p, d).end + 1 = range.start
      <3>1. CASE p = "week"
        BY <2>1, <2>3, <3>1, PreviousWeekIsOneBack DEF previousRangeOf, periodRangeOf
      <3>2. CASE p = "month"
        BY <2>2, <2>3, <3>2, PreviousMonthIsOneBack DEF previousRangeOf, periodRangeOf
      <3> QED
        BY <3>1, <3>2 DEF PERIODS
    <2> QED
      BY <2>3, <2>5, <2>6 DEF previousAnchor
  <1> QED
    BY <1>1, TypedHolds, PTL
=============================================================================
