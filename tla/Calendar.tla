------------------------------ MODULE Calendar ------------------------------
(***************************************************************************)
(* The wall clock and calendar that job.rs reads through the chrono crate. *)
(* chrono is external: only the accessors next_invocation calls are here.  *)
(*                                                                         *)
(* An instant is a number of seconds since 1 March 2024, 00:00 in standard *)
(* time.  Years are counted from March, so that the leap day is the last   *)
(* day of a four-year cycle and every month starts at a fixed day of its   *)
(* year (March = month 0, ..., February = month 11).                       *)
(***************************************************************************)
EXTENDS Integers

DAY  == 86400
HOUR == 3600
WEEK == 7 * DAY

DayOf(t) == t \div DAY

\* DateTime::time(), in seconds since midnight.
TimeOfDay(t) == t % DAY

\* weekday().num_days_from_sunday(): 1 March 2024 was a Friday.
Weekday(t) == (DayOf(t) + 5) % 7

\* The March-based year within the cycle that day d falls into, 0..3; the last
\* one has 366 days.
YearOfCycle(d) == IF (d % 1461) \div 365 = 4 THEN 3 ELSE (d % 1461) \div 365
DayOfYear(d)   == (d % 1461) - 365 * YearOfCycle(d)

MonthStart(m) == (153 * m + 2) \div 5
Month(d)      == (5 * DayOfYear(d) + 2) \div 153

\* day(): 1-based day of the month.
DayOfMonth(t) ==
    DayOfYear(DayOf(t)) - MonthStart(Month(DayOf(t))) + 1

\* num_days_in_month()
DaysInMonth(t) ==
    LET d == DayOf(t) IN
    IF Month(d) = 11
    THEN IF YearOfCycle(d) = 3 THEN 29 ELSE 28
    ELSE MonthStart(Month(d) + 1) - MonthStart(Month(d))

=============================================================================
