------------------------------ MODULE Calendar ------------------------------
(***************************************************************************)
(* The dates of the reports.  A date is the number yyyymmdd: the code keeps *)
(* dates as texts YYYY-MM-DD and compares them as texts, which for years of *)
(* four digits is the order of these numbers.  A date need not exist: the   *)
(* day 30 of a February gets into the database when the month is ingested   *)
(* without the continuity check, so every reader below says what it does    *)
(* with one.  An ISO week is the number yyyyww; 0 is the week of no date.   *)
(***************************************************************************)
EXTENDS Integers

YearOf(d) == d \div 10000
MonthOf(d) == (d \div 100) % 100
DayOf(d) == d % 100

IsLeap(y) == y % 4 = 0 /\ (y % 100 # 0 \/ y % 400 = 0)

LastDay(y, m) == CASE m = 2 -> IF IsLeap(y) THEN 29 ELSE 28
                   [] m \in {4, 6, 9, 11} -> 30
                   [] OTHER -> 31

\* year_month_day::ok, after the three numbers were read.
IsDate(d) == /\ MonthOf(d) \in 1..12
             /\ DayOf(d) \in 1..LastDay(YearOf(d), MonthOf(d))

\* Days since 1970-01-01 (sys_days).  Years begin in March, so a leap day is
\* the last of its year; a day beyond its month counts into the next one, as
\* mktime and the date functions of SQLite do.
DayNumber(d) ==
  LET m == MonthOf(d)
      y == IF m <= 2 THEN YearOf(d) - 1 ELSE YearOf(d)
      inYear == (153 * ((m + 9) % 12) + 2) \div 5 + DayOf(d) - 1
  IN  365 * y + y \div 4 - y \div 100 + y \div 400 + inYear - 719468

DateOf(n) ==
  LET z == n + 719468
      era == z \div 146097
      doe == z % 146097
      yoe == (doe - doe \div 1460 + doe \div 36524 - doe \div 146096) \div 365
      doy == doe - (365 * yoe + yoe \div 4 - yoe \div 100)
      mp == (5 * doy + 2) \div 153
      m == IF mp < 10 THEN mp + 3 ELSE mp - 9
      y == yoe + 400 * era + (IF m <= 2 THEN 1 ELSE 0)
  IN  10000 * y + 100 * m + (doy - (153 * mp + 2) \div 5 + 1)

AddDays(d, n) == DateOf(DayNumber(d) + n)

\* strftime('%Y-%m', d) and strftime('%Y', d): of the day that d really is.
StrfMonth(d) == AddDays(d, 0) \div 100
StrfYear(d) == AddDays(d, 0) \div 10000

\* 1 is Monday.
Weekday(n) == ((n + 3) % 7) + 1

\* The first Thursday of an ISO year is the Thursday of the week of Jan 4.
FirstThursday(y) == LET jan4 == DayNumber(10000 * y + 104)
                    IN  jan4 + 4 - Weekday(jan4)

IsoWeekFromDate(d) ==
  IF ~IsDate(d) THEN 0
  ELSE LET n == DayNumber(d)
           thursday == n + 4 - Weekday(n)
           y == YearOf(DateOf(thursday))
       IN  100 * y + (thursday - FirstThursday(y)) \div 7 + 1

IsoWeekStartDate(w) ==
  DateOf(FirstThursday(w \div 100) - 3 + 7 * ((w % 100) - 1))

IsoWeekEndDate(w) == AddDays(IsoWeekStartDate(w), 6)

\* ParseIsoWeek: a week 53 exists only in the years that have one.
IsWeek(w) == /\ w \div 100 > 0
             /\ w % 100 \in 1..53
             /\ IsoWeekFromDate(IsoWeekStartDate(w)) = w

=============================================================================
