-------------------------- MODULE JobScheduleProofs -------------------------
(***************************************************************************)
(* Facts about next_invocation for every job and every instant.            *)
(***************************************************************************)
EXTENDS JobSchedule, WellFoundedInduction, TLAPS

\* The accessors of the clock stay in their ranges, and the day and the time of
\* day make up the instant.
LEMMA CalendarRanges ==
    ASSUME NEW t \in Nat
    PROVE  /\ DayOf(t) \in Nat
           /\ TimeOfDay(t) \in Nat /\ TimeOfDay(t) < DAY
           /\ Weekday(t) \in 0 .. 6
           /\ t = DAY * DayOf(t) + TimeOfDay(t)
BY DEF DayOf, TimeOfDay, Weekday, DAY

\* The day of the month is never beyond num_days_in_month, on which the
\* unsigned subtraction of job.rs:57-70 relies.
LEMMA MonthRanges ==
    ASSUME NEW t \in Nat
    PROVE  /\ DayOfMonth(t) \in Nat /\ DaysInMonth(t) \in Nat
           /\ 1 <= DayOfMonth(t) /\ DayOfMonth(t) <= DaysInMonth(t)
<1> DEFINE d == DayOf(t)
<1>1. d \in Nat
  BY CalendarRanges
<1> HIDE DEF d
<1>2. DayOfYear(d) \in 0 .. 365
  BY <1>1 DEF DayOfYear, YearOfCycle
<1>3. DayOfYear(d) = 365 => YearOfCycle(d) = 3
  BY <1>1 DEF DayOfYear, YearOfCycle
<1>4. Month(d) \in 0 .. 11
  BY <1>2 DEF Month
<1> QED
  BY <1>1, <1>2, <1>3, <1>4, SMTT(60)
     DEF DayOfMonth, DaysInMonth, Month, MonthStart, d

\* Local time is a natural number too.
LEMMA LocalRange ==
    ASSUME NEW t \in Nat
    PROVE  Local(t) \in Nat
BY SummerAssumption DEF Local, HOUR

\* time_until_invocation_tomorrow (job.rs:18-24): from a second to a day.
LEMMA UntilTimeRange ==
    ASSUME NEW time \in Nat, time < DAY, NEW after \in Nat
    PROVE  /\ UntilTime(time, after) \in Nat
           /\ 1 <= UntilTime(time, after) /\ UntilTime(time, after) <= DAY
<1>1. TimeOfDay(after) \in Nat /\ TimeOfDay(after) < DAY
  BY CalendarRanges
<1>2. DAY \in Nat
  BY DEF DAY
<1> QED
  BY <1>1, <1>2 DEF UntilTime

\* The delta next_invocation adds is at least a second, whatever the schedule
\* and the clock: an invocation is never planned for the present instant.
LEMMA UntilNextPositive ==
    ASSUME NEW job \in Schedule, NEW after \in Nat
    PROVE  UntilNext(job, after) \in Nat /\ UntilNext(job, after) >= 1
<1> DEFINE hours == UntilTime(job.time, after)
           time == job.time
<1>1. time \in Nat /\ time < DAY
  <2>1. time \in 0 .. DAY - 1
    BY DEF Schedule
  <2>2. DAY \in Nat
    BY DEF DAY
  <2> QED
    BY <2>1, <2>2
<1>2. hours \in Nat /\ hours >= 1
  BY <1>1, UntilTimeRange
<1> HIDE DEF hours
<1>3. CASE job.kind = "daily"
  BY <1>2, <1>3 DEF UntilNext, hours
<1>4. CASE job.kind = "weekly"
  <2>1. job.on \in 0 .. 6 /\ Weekday(after) \in 0 .. 6
    BY <1>4, CalendarRanges DEF Schedule
  <2>2. TimeOfDay(after) \in Nat
    BY CalendarRanges
  <2>3. /\ UntilWeekly(job.on, time, after) \in Nat
        /\ UntilWeekly(job.on, time, after) >= 1
    BY <1>1, <1>2, <2>1, <2>2 DEF UntilWeekly, hours, DAY
  <2> QED
    BY <1>4, <2>3 DEF UntilNext
<1>5. CASE job.kind = "monthly"
  <2>1. job.on \in 1 .. 31
    BY <1>5 DEF Schedule
  <2>2. TimeOfDay(after) \in Nat
    BY CalendarRanges
  <2>3. /\ UntilMonthly(job.on, time, after) \in Nat
        /\ UntilMonthly(job.on, time, after) >= 1
    BY <1>1, <1>2, <2>1, <2>2, MonthRanges DEF UntilMonthly, hours, DAY
  <2> QED
    BY <1>5, <2>3 DEF UntilNext
<1> QED
  BY <1>3, <1>4, <1>5 DEF Schedule

\* An invocation always lies in the future of the instant asked about.
THEOREM NextInvocationLater ==
    ASSUME NEW job \in Schedule, NEW t \in Nat
    PROVE  NextInvocation(job, t) \in Nat /\ NextInvocation(job, t) > t
BY LocalRange, UntilNextPositive DEF NextInvocation

-----------------------------------------------------------------------------
(***************************************************************************)
(* Months, from their first days: what DayOfMonth and DaysInMonth give for *)
(* the days that follow a given one.                                       *)
(***************************************************************************)

\* The first day of month m in year y of the cycle c, and how long it is.
FirstDay(c, y, m) == 1461 * c + 365 * y + MonthStart(m)
Length(y, m) ==
    IF m = 11 THEN IF y = 3 THEN 29 ELSE 28
    ELSE MonthStart(m + 1) - MonthStart(m)

\* Where the months start.
LEMMA MonthStarts ==
    /\ MonthStart(0) = 0 /\ MonthStart(1) = 31 /\ MonthStart(2) = 61
    /\ MonthStart(3) = 92 /\ MonthStart(4) = 122 /\ MonthStart(5) = 153
    /\ MonthStart(6) = 184 /\ MonthStart(7) = 214 /\ MonthStart(8) = 245
    /\ MonthStart(9) = 275 /\ MonthStart(10) = 306 /\ MonthStart(11) = 337
BY DEF MonthStart

\* A month has 28 to 31 days.
LEMMA LengthRange ==
    ASSUME NEW y \in 0 .. 3, NEW m \in 0 .. 11
    PROVE  Length(y, m) \in 28 .. 31
BY MonthStarts DEF Length

\* The month after one starts when it ends.
LEMMA NextMonth ==
    ASSUME NEW c \in Nat, NEW y \in 0 .. 3, NEW m \in 0 .. 11
    PROVE  \E nc \in Nat, ny \in 0 .. 3, nm \in 0 .. 11 :
              FirstDay(nc, ny, nm) = FirstDay(c, y, m) + Length(y, m)
<1>1. CASE m < 11
  <2>1. MonthStart(m) \in Nat /\ MonthStart(m + 1) \in Nat
    BY <1>1, MonthStarts
  <2>2. FirstDay(c, y, m + 1) = FirstDay(c, y, m) + Length(y, m)
    BY <1>1, <2>1 DEF FirstDay, Length
  <2> QED
    BY <1>1, <2>2
<1>2. CASE m = 11 /\ y < 3
  <2>1. FirstDay(c, y + 1, 0) = FirstDay(c, y, m) + Length(y, m)
    BY <1>2, MonthStarts DEF FirstDay, Length
  <2> QED
    BY <1>2, <2>1
<1>3. CASE m = 11 /\ y = 3
  <2>1. FirstDay(c + 1, 0, 0) = FirstDay(c, y, m) + Length(y, m)
    BY <1>3, MonthStarts DEF FirstDay, Length
  <2> QED
    BY <2>1
<1> QED
  BY <1>1, <1>2, <1>3

\* The day k of a month, counted from its first one, is day k to chrono too.
LEMMA DayWithinMonth ==
    ASSUME NEW c \in Nat, NEW y \in 0 .. 3, NEW m \in 0 .. 11,
           NEW k \in 1 .. Length(y, m), NEW t \in Nat,
           DayOf(t) = FirstDay(c, y, m) + k - 1
    PROVE  DayOfMonth(t) = k /\ DaysInMonth(t) = Length(y, m)
<1> DEFINE d == DayOf(t)
           doy == MonthStart(m) + k - 1
<1>1. /\ k \in Int /\ 1 <= k /\ k <= Length(y, m)
      /\ MonthStart(m) \in Nat
  BY LengthRange, MonthStarts
<1>2. doy \in 0 .. 365 /\ (doy = 365 => y = 3)
  BY <1>1, MonthStarts DEF Length
<1>3. d = 1461 * c + 365 * y + doy
  BY <1>1 DEF FirstDay
<1>4. (5 * doy + 2) \div 153 = m
  BY <1>1, MonthStarts DEF Length
<1> HIDE DEF d, doy
<1>5. d % 1461 = 365 * y + doy
  BY <1>2, <1>3
<1>6. YearOfCycle(d) = y
  BY <1>2, <1>5 DEF YearOfCycle
<1>7. DayOfYear(d) = doy
  BY <1>2, <1>5, <1>6 DEF DayOfYear
<1>8. Month(d) = m
  BY <1>4, <1>7 DEF Month
<1>9. DayOfMonth(t) = k
  BY <1>1, <1>7, <1>8 DEF DayOfMonth, d, doy
<1>10. DaysInMonth(t) = Length(y, m)
  BY <1>6, <1>8 DEF DaysInMonth, Length, d
<1> QED
  BY <1>9, <1>10

\* Every day is one of the days of some month.
LEMMA MonthOfDay ==
    ASSUME NEW t \in Nat
    PROVE  \E c \in Nat, y \in 0 .. 3, m \in 0 .. 11 :
              /\ DayOf(t) = FirstDay(c, y, m) + DayOfMonth(t) - 1
              /\ DaysInMonth(t) = Length(y, m)
<1> DEFINE d == DayOf(t)
           c == d \div 1461
           y == YearOfCycle(d)
           m == Month(d)
<1>1. d \in Nat
  BY CalendarRanges
<1>2. DayOfMonth(t) = DayOfYear(d) - MonthStart(m) + 1
  BY DEF DayOfMonth
<1>3. DaysInMonth(t) = Length(y, m)
  BY DEF DaysInMonth, Length
<1> HIDE DEF d
<1>4. c \in Nat /\ d = 1461 * c + (d % 1461)
  BY <1>1
<1>5. /\ y \in 0 .. 3 /\ DayOfYear(d) \in 0 .. 365
      /\ d % 1461 = 365 * y + DayOfYear(d)
  BY <1>1 DEF YearOfCycle, DayOfYear
<1>6. m \in 0 .. 11 /\ MonthStart(m) \in Nat
  <2>1. m \in 0 .. 11
    BY <1>5 DEF Month
  <2> QED
    BY <2>1, MonthStarts
<1> HIDE DEF c, y, m
<1>7. d = FirstDay(c, y, m) + DayOfMonth(t) - 1
  BY <1>2, <1>4, <1>5, <1>6 DEF FirstDay
<1> QED
  BY <1>3, <1>4, <1>5, <1>6, <1>7 DEF d

\* The days after one, for this month, the next one and the first 28 days of
\* the one after, counted from the start of this month: how day() rolls over at
\* the ends of the months.
LEMMA DaysAhead ==
    ASSUME NEW t \in Nat
    PROVE  \E next \in 28 .. 31 : \A day \in Nat, s \in Nat :
              day >= 1 /\ DayOf(s) = DayOf(t) + (day - DayOfMonth(t)) =>
                 /\ day <= DaysInMonth(t) =>
                       DayOfMonth(s) = day /\ DaysInMonth(s) = DaysInMonth(t)
                 /\ day > DaysInMonth(t) /\ day <= DaysInMonth(t) + next =>
                       /\ DayOfMonth(s) = day - DaysInMonth(t)
                       /\ DaysInMonth(s) = next
                 /\ /\ day > DaysInMonth(t) + next
                    /\ day <= DaysInMonth(t) + next + 28
                    => DayOfMonth(s) = day - DaysInMonth(t) - next
<1>1. PICK c \in Nat, y \in 0 .. 3, m \in 0 .. 11 :
         /\ DayOf(t) = FirstDay(c, y, m) + DayOfMonth(t) - 1
         /\ DaysInMonth(t) = Length(y, m)
  BY MonthOfDay
<1>2. PICK nc \in Nat, ny \in 0 .. 3, nm \in 0 .. 11 :
         FirstDay(nc, ny, nm) = FirstDay(c, y, m) + Length(y, m)
  BY NextMonth
<1>3. PICK ac \in Nat, ay \in 0 .. 3, am \in 0 .. 11 :
         FirstDay(ac, ay, am) = FirstDay(nc, ny, nm) + Length(ny, nm)
  BY NextMonth
<1>4. /\ Length(y, m) \in 28 .. 31 /\ Length(ny, nm) \in 28 .. 31
      /\ Length(ay, am) \in 28 .. 31
  BY LengthRange
<1>5. /\ FirstDay(c, y, m) \in Nat /\ FirstDay(nc, ny, nm) \in Nat
      /\ FirstDay(ac, ay, am) \in Nat
  BY MonthStarts DEF FirstDay
<1>6. DayOfMonth(t) \in Nat /\ DayOfMonth(t) >= 1
  BY MonthRanges
<1>7. ASSUME NEW day \in Nat, NEW s \in Nat, day >= 1,
             DayOf(s) = DayOf(t) + (day - DayOfMonth(t))
      PROVE  /\ day <= Length(y, m) =>
                   DayOfMonth(s) = day /\ DaysInMonth(s) = Length(y, m)
             /\ day > Length(y, m) /\ day <= Length(y, m) + Length(ny, nm) =>
                   /\ DayOfMonth(s) = day - Length(y, m)
                   /\ DaysInMonth(s) = Length(ny, nm)
             /\ /\ day > Length(y, m) + Length(ny, nm)
                /\ day <= Length(y, m) + Length(ny, nm) + 28
                => DayOfMonth(s) = day - Length(y, m) - Length(ny, nm)
  <2>1. DayOf(s) = FirstDay(c, y, m) + day - 1
    BY <1>1, <1>5, <1>6, <1>7
  <2>2. ASSUME day <= Length(y, m)
        PROVE  DayOfMonth(s) = day /\ DaysInMonth(s) = Length(y, m)
    BY <1>4, <1>7, <2>1, <2>2, DayWithinMonth
  <2>3. ASSUME day > Length(y, m), day <= Length(y, m) + Length(ny, nm)
        PROVE  /\ DayOfMonth(s) = day - Length(y, m)
               /\ DaysInMonth(s) = Length(ny, nm)
    <3>1. /\ day - Length(y, m) \in 1 .. Length(ny, nm)
          /\ DayOf(s) = FirstDay(nc, ny, nm) + (day - Length(y, m)) - 1
      BY <1>2, <1>4, <1>5, <1>7, <2>1, <2>3
    <3> QED
      BY <3>1, DayWithinMonth
  <2>4. ASSUME day > Length(y, m) + Length(ny, nm),
               day <= Length(y, m) + Length(ny, nm) + 28
        PROVE  DayOfMonth(s) = day - Length(y, m) - Length(ny, nm)
    <3>1. /\ day - Length(y, m) - Length(ny, nm) \in 1 .. Length(ay, am)
          /\ DayOf(s) = FirstDay(ac, ay, am)
                          + (day - Length(y, m) - Length(ny, nm)) - 1
      BY <1>2, <1>3, <1>4, <1>5, <1>7, <2>1, <2>4
    <3> QED
      BY <3>1, DayWithinMonth
  <2> QED
    BY <2>2, <2>3, <2>4
<1> QED
  BY <1>1, <1>4, <1>7

-----------------------------------------------------------------------------
(***************************************************************************)
(* What the clock on the wall shows after it shows l: pure calendar, with  *)
(* no regard to when the clock itself is changed.                          *)
(***************************************************************************)

\* What is in a schedule (enum Schedule).
LEMMA SchedFields ==
    ASSUME NEW sched \in Schedule
    PROVE  /\ sched.time \in Nat /\ sched.time < DAY
           /\ sched.kind \in { "daily", "weekly", "monthly" }
           /\ sched.kind = "weekly" => sched.on \in 0 .. 6
           /\ sched.kind = "monthly" => sched.on \in 1 .. 31
<1>1. DAY \in Nat
  BY DEF DAY
<1>2. sched.time \in 0 .. DAY - 1
  BY DEF Schedule
<1> QED
  BY <1>1, <1>2 DEF Schedule

\* What the clock shows at an instant is in range.
LEMMA LocalClock ==
    ASSUME NEW t \in Nat
    PROVE  /\ Local(t) \in Nat
           /\ TimeOfDay(Local(t)) \in Nat
           /\ TimeOfDay(Local(t)) < DAY /\ TimeOfDay(Local(t)) < 86400
           /\ Weekday(Local(t)) \in 0 .. 6
<1>1. Local(t) \in Nat
  BY LocalRange
<1>2. /\ TimeOfDay(Local(t)) \in Nat /\ TimeOfDay(Local(t)) < DAY
      /\ Weekday(Local(t)) \in 0 .. 6
  BY <1>1, CalendarRanges
<1>3. DAY = 86400
  BY DEF DAY
<1> QED
  BY <1>1, <1>2, <1>3

\* The clock shows that the job is due.
Shows(sched, l) ==
    /\ TimeOfDay(l) = sched.time
    /\ sched.kind = "weekly"  => Weekday(l) = sched.on
    /\ sched.kind = "monthly" => DayOfMonth(l) = sched.on

\* n days after t at a given time of day.
InDays(t, n, time) == (t - TimeOfDay(t)) + time + DAY * n

\* Moving by whole days shows the time asked for and moves the weekday along.
LEMMA InDaysClock ==
    ASSUME NEW t \in Nat, NEW n \in Nat, NEW time \in Nat, time < DAY
    PROVE  /\ InDays(t, n, time) \in Nat
           /\ TimeOfDay(InDays(t, n, time)) = time
           /\ DayOf(InDays(t, n, time)) = DayOf(t) + n
           /\ Weekday(InDays(t, n, time)) = (Weekday(t) + n) % 7
<1> DEFINE s == InDays(t, n, time)
<1>1. /\ t = DAY * DayOf(t) + TimeOfDay(t)
      /\ DayOf(t) \in Nat /\ TimeOfDay(t) \in Nat
  BY CalendarRanges
<1>2. s = 86400 * (DayOf(t) + n) + time
  BY <1>1 DEF DAY, InDays
<1>3. s \in Nat
  BY <1>1, <1>2
<1> HIDE DEF s
<1>4. /\ TimeOfDay(s) = time
      /\ DayOf(s) = DayOf(t) + n
  BY <1>1, <1>2 DEF TimeOfDay, DayOf, DAY
<1>5. Weekday(s) = (Weekday(t) + n) % 7
  BY <1>1, <1>4 DEF Weekday
<1> QED
  BY <1>3, <1>4, <1>5 DEF s

\* Where InDays lies with respect to its instant and to the later days.
LEMMA InDaysOrder ==
    ASSUME NEW t \in Nat, NEW n \in Nat, NEW time \in Nat, time < DAY
    PROVE  /\ InDays(t, n, time) > t <=> (n >= 1 \/ time > TimeOfDay(t))
           /\ \A k \in Nat : InDays(t, n, time) < InDays(t, k, time) <=> n < k
<1>1. TimeOfDay(t) \in Nat /\ TimeOfDay(t) < 86400
  BY CalendarRanges DEF DAY
<1> QED
  BY <1>1 DEF InDays, DAY

\* It is not shown due on any of the days before the one k days ahead.
NotShownBefore(sched, l, k) ==
    \A n \in Nat :
        n < k /\ (n >= 1 \/ sched.time > TimeOfDay(l)) =>
            ~Shows(sched, InDays(l, n, sched.time))

\* How many days it is from one weekday to the next occurrence of another.
DaysTo(today, on) == IF today < on THEN on - today ELSE 7 - (today - on)

\* That many days later is the first time that weekday comes round again.
LEMMA DaysToWeekday ==
    ASSUME NEW today \in 0 .. 6, NEW on \in 0 .. 6
    PROVE  /\ DaysTo(today, on) \in 1 .. 7
           /\ (today + DaysTo(today, on)) % 7 = on
           /\ \A n \in Nat : 1 <= n /\ n < DaysTo(today, on) =>
                 (today + n) % 7 # on
<1> DEFINE k == DaysTo(today, on)
<1>1. k \in 1 .. 7 /\ k = IF today < on THEN on - today ELSE 7 - (today - on)
  BY DEF DaysTo
<1> HIDE DEF k
<1>2. CASE today < on
  BY <1>1, <1>2 DEF k
<1>3. CASE today >= on
  <2>1. (today + k) % 7 = on
    BY <1>1, <1>3
  <2>2. ASSUME NEW n \in Nat, 1 <= n, n < k, (today + n) % 7 = on
        PROVE  FALSE
    BY <1>1, <1>3, <2>2
  <2> QED
    BY <1>1, <2>1, <2>2 DEF k
<1> QED
  BY <1>2, <1>3

\* How many days it is until a weekly job is due: none when it is today.
DaysToWeekly(sched, l) ==
    IF Weekday(l) = sched.on /\ sched.time > TimeOfDay(l) THEN 0
    ELSE DaysTo(Weekday(l), sched.on)

\* The weekday of a weekly job comes round after that many days and not before.
LEMMA WeekdayComesRound ==
    ASSUME NEW sched \in Schedule, sched.kind = "weekly", NEW l \in Nat
    PROVE  /\ DaysToWeekly(sched, l) \in 0 .. 7
           /\ DaysToWeekly(sched, l) >= 1 \/ sched.time > TimeOfDay(l)
           /\ Shows(sched, InDays(l, DaysToWeekly(sched, l), sched.time))
           /\ NotShownBefore(sched, l, DaysToWeekly(sched, l))
<1> DEFINE k == DaysToWeekly(sched, l)
<1>1. /\ sched.time \in Nat /\ sched.time < DAY
      /\ sched.on \in 0 .. 6 /\ Weekday(l) \in 0 .. 6
  BY SchedFields, CalendarRanges
<1>2. ASSUME NEW n \in Nat
      PROVE  Shows(sched, InDays(l, n, sched.time))
                <=> (Weekday(l) + n) % 7 = sched.on
  <2>1. /\ TimeOfDay(InDays(l, n, sched.time)) = sched.time
        /\ Weekday(InDays(l, n, sched.time)) = (Weekday(l) + n) % 7
    BY <1>1, InDaysClock
  <2> QED
    BY <2>1 DEF Shows
<1>3. CASE Weekday(l) = sched.on /\ sched.time > TimeOfDay(l)
  <2>1. k = 0 /\ (Weekday(l) + 0) % 7 = sched.on
    BY <1>1, <1>3 DEF DaysToWeekly
  <2> QED
    BY <1>2, <1>3, <2>1 DEF NotShownBefore
<1>4. CASE ~(Weekday(l) = sched.on /\ sched.time > TimeOfDay(l))
  <2>1. /\ k = DaysTo(Weekday(l), sched.on) /\ k \in 1 .. 7
        /\ (Weekday(l) + k) % 7 = sched.on
        /\ \A n \in Nat : 1 <= n /\ n < k => (Weekday(l) + n) % 7 # sched.on
    BY <1>1, <1>4, DaysToWeekday DEF DaysToWeekly
  <2> HIDE DEF k
  <2>2. ASSUME NEW n \in Nat, n < k, n >= 1 \/ sched.time > TimeOfDay(l)
        PROVE  (Weekday(l) + n) % 7 # sched.on
    <3>1. CASE n = 0
      BY <1>1, <1>4, <2>2, <3>1
    <3>2. CASE n # 0
      BY <2>1, <2>2, <3>2
    <3> QED
      BY <3>1, <3>2
  <2>3. NotShownBefore(sched, l, k)
    BY <1>2, <2>2 DEF NotShownBefore
  <2>4. k \in Nat /\ Shows(sched, InDays(l, k, sched.time))
    BY <1>2, <2>1
  <2> QED
    BY <2>1, <2>3, <2>4 DEF k
<1> QED
  BY <1>3, <1>4

\* At the job's time on the days after t the day of the month is one higher for
\* each day, and starts again after the last one of the month.
LEMMA MonthlyClock ==
    ASSUME NEW t \in Nat, NEW time \in Nat, time < DAY
    PROVE  \E next \in 28 .. 31 : \A day \in Nat :
              day >= DayOfMonth(t) =>
                 LET s == InDays(t, day - DayOfMonth(t), time) IN
                 /\ s \in Nat /\ TimeOfDay(s) = time
                 /\ day <= DaysInMonth(t) =>
                       DayOfMonth(s) = day /\ DaysInMonth(s) = DaysInMonth(t)
                 /\ day > DaysInMonth(t) /\ day <= DaysInMonth(t) + next =>
                       /\ DayOfMonth(s) = day - DaysInMonth(t)
                       /\ DaysInMonth(s) = next
                 /\ /\ day > DaysInMonth(t) + next
                    /\ day <= DaysInMonth(t) + next + 28
                    => DayOfMonth(s) = day - DaysInMonth(t) - next
<1>1. DayOfMonth(t) \in Nat /\ DayOfMonth(t) >= 1
  BY MonthRanges
<1>2. PICK next \in 28 .. 31 : \A day \in Nat, s \in Nat :
         day >= 1 /\ DayOf(s) = DayOf(t) + (day - DayOfMonth(t)) =>
            /\ day <= DaysInMonth(t) =>
                  DayOfMonth(s) = day /\ DaysInMonth(s) = DaysInMonth(t)
            /\ day > DaysInMonth(t) /\ day <= DaysInMonth(t) + next =>
                  /\ DayOfMonth(s) = day - DaysInMonth(t)
                  /\ DaysInMonth(s) = next
            /\ /\ day > DaysInMonth(t) + next
               /\ day <= DaysInMonth(t) + next + 28
               => DayOfMonth(s) = day - DaysInMonth(t) - next
  BY DaysAhead
<1>3. ASSUME NEW day \in Nat, day >= DayOfMonth(t)
      PROVE  LET s == InDays(t, day - DayOfMonth(t), time)
             IN  /\ s \in Nat /\ TimeOfDay(s) = time
                 /\ DayOf(s) = DayOf(t) + (day - DayOfMonth(t))
  <2>1. day - DayOfMonth(t) \in Nat
    BY <1>1, <1>3
  <2> QED
    BY <2>1, InDaysClock
<1> QED
  BY <1>1, <1>2, <1>3

\* How many days it is from today, where the day and the length of the month
\* are those of l, until the day of a monthly job comes round.
DaysToDay(sched, l) ==
    IF DayOfMonth(l) = sched.on /\ sched.time > TimeOfDay(l) THEN 0
    ELSE IF DayOfMonth(l) < sched.on THEN sched.on - DayOfMonth(l)
    ELSE DaysInMonth(l) - DayOfMonth(l) + sched.on

\* That is at most a month, and not before the job's time is to come.
LEMMA DaysToDayRange ==
    ASSUME NEW sched \in Schedule, sched.kind = "monthly", NEW l \in Nat
    PROVE  /\ DaysToDay(sched, l) \in 0 .. 31
           /\ DaysToDay(sched, l) >= 1 \/ sched.time > TimeOfDay(l)
<1>1. /\ sched.time \in Nat /\ sched.on \in 1 .. 31
      /\ TimeOfDay(l) \in Nat
  BY SchedFields, CalendarRanges
<1>2. /\ DayOfMonth(l) \in Nat /\ DaysInMonth(l) \in 28 .. 31
      /\ 1 <= DayOfMonth(l) /\ DayOfMonth(l) <= DaysInMonth(l)
  BY MonthRanges, MonthOfDay, LengthRange
<1>3. CASE DayOfMonth(l) = sched.on /\ sched.time > TimeOfDay(l)
  BY <1>3 DEF DaysToDay
<1>4. CASE DayOfMonth(l) < sched.on
  BY <1>1, <1>2, <1>4 DEF DaysToDay
<1>5. CASE /\ DayOfMonth(l) >= sched.on
           /\ ~(DayOfMonth(l) = sched.on /\ sched.time > TimeOfDay(l))
  <2>1. DaysToDay(sched, l) = DaysInMonth(l) - DayOfMonth(l) + sched.on
    BY <1>1, <1>2, <1>5 DEF DaysToDay
  <2> QED
    BY <1>1, <1>2, <1>5, <2>1
<1> QED
  BY <1>1, <1>2, <1>3, <1>4, <1>5

\* The day of a monthly job comes round after DaysToDay days and not before;
\* when the month it falls into is too short, it runs over into the next.
LEMMA DayComesRound ==
    ASSUME NEW sched \in Schedule, sched.kind = "monthly", NEW t \in Nat
    PROVE  LET day == InDays(t, DaysToDay(sched, t), sched.time) IN
           /\ \/ Shows(sched, day)
              \/ /\ sched.on > 28
                 /\ DayOfMonth(day)
                       = sched.on - DaysInMonth(day - DAY * DayOfMonth(day))
           /\ NotShownBefore(sched, t, DaysToDay(sched, t))
<1> DEFINE time == sched.time
           on == sched.on
           today == DayOfMonth(t)
           last == DaysInMonth(t)
           At(day) == InDays(t, day - today, time)
           goal == today + DaysToDay(sched, t)
<1>1. /\ time \in Nat /\ time < DAY
      /\ on \in 1 .. 31
  BY SchedFields
<1>2. TimeOfDay(t) \in Nat
  BY CalendarRanges
<1>3. today \in Nat /\ last \in Nat /\ 1 <= today /\ today <= last /\ last >= 28
  <2>1. last \in 28 .. 31
    BY MonthOfDay, LengthRange
  <2> QED
    BY <2>1, MonthRanges
<1>4. PICK next \in 28 .. 31 : \A day \in Nat :
         day >= today =>
            /\ At(day) \in Nat /\ TimeOfDay(At(day)) = time
            /\ day <= last =>
                  DayOfMonth(At(day)) = day /\ DaysInMonth(At(day)) = last
            /\ day > last /\ day <= last + next =>
                  /\ DayOfMonth(At(day)) = day - last
                  /\ DaysInMonth(At(day)) = next
            /\ day > last + next /\ day <= last + next + 28 =>
                  DayOfMonth(At(day)) = day - last - next
  BY <1>1, MonthlyClock
<1>5. ASSUME NEW day \in Nat, day >= today
      PROVE  Shows(sched, At(day)) <=> DayOfMonth(At(day)) = on
  BY <1>4, <1>5 DEF Shows
<1>6. DaysToDay(sched, t) \in Nat
  BY DaysToDayRange
<1>7. /\ goal \in Nat /\ goal >= today
      /\ goal - today = DaysToDay(sched, t)
  BY <1>3, <1>6
<1>8. \/ goal = today /\ today = on
      \/ goal = on /\ today < on
      \/ /\ goal = last + on /\ today >= on
         /\ today = on => time <= TimeOfDay(t)
  BY <1>1, <1>2, <1>3 DEF DaysToDay
<1>9. \A a, b \in Nat : a >= today /\ b <= a /\ a - b >= today =>
         At(a) - DAY * b = At(a - b)
  BY <1>1, <1>2, <1>3 DEF InDays, DAY
<1> HIDE DEF today, last, At, goal
<1>10. \/ Shows(sched, At(goal))
       \/ /\ on > 28
          /\ DayOfMonth(At(goal))
                = on - DaysInMonth(At(goal) - DAY * DayOfMonth(At(goal)))
  <2>1. CASE goal <= last
    BY <1>1, <1>3, <1>4, <1>5, <1>7, <1>8, <2>1
  <2>2. CASE goal = on /\ on > last
    <3>1. DayOfMonth(At(goal)) = on - last
      BY <1>1, <1>3, <1>4, <1>7, <2>2
    <3>2. At(goal) - DAY * DayOfMonth(At(goal)) = At(last)
      <4>1. /\ goal \in Nat /\ on - last \in Nat /\ goal >= today
            /\ on - last <= goal /\ goal - (on - last) = last
        BY <1>1, <1>3, <1>7, <2>2
      <4> QED
        BY <1>3, <1>9, <3>1, <4>1
    <3>3. DaysInMonth(At(last)) = last
      BY <1>3, <1>4
    <3> QED
      BY <1>1, <1>3, <2>2, <3>1, <3>2, <3>3
  <2>3. CASE goal = last + on /\ on <= next
    <3>1. DayOfMonth(At(goal)) = on
      BY <1>1, <1>3, <1>4, <1>7, <2>3
    <3> QED
      BY <1>5, <1>7, <3>1
  <2>4. CASE goal = last + on /\ on > next
    <3>1. DayOfMonth(At(goal)) = on - next
      BY <1>1, <1>3, <1>4, <1>7, <2>4
    <3>2. At(goal) - DAY * DayOfMonth(At(goal)) = At(last + next)
      <4>1. /\ goal \in Nat /\ on - next \in Nat /\ goal >= today
            /\ on - next <= goal /\ goal - (on - next) = last + next
            /\ last + next >= today
        BY <1>1, <1>3, <1>7, <2>4
      <4> QED
        BY <1>9, <3>1, <4>1
    <3>3. DaysInMonth(At(last + next)) = next
      BY <1>3, <1>4
    <3> QED
      BY <1>1, <2>4, <3>1, <3>2, <3>3
  <2> QED
    BY <1>1, <1>3, <1>8, <2>1, <2>2, <2>3, <2>4
<1>11. ASSUME NEW n \in Nat, n < DaysToDay(sched, t),
              n >= 1 \/ time > TimeOfDay(t)
       PROVE  ~Shows(sched, InDays(t, n, time))
  <2>1. /\ today + n \in Nat /\ today + n >= today /\ today + n < goal
        /\ At(today + n) = InDays(t, n, time)
    BY <1>3, <1>6, <1>7, <1>11 DEF At
  <2>2. DayOfMonth(At(today + n)) # on
    BY <1>1, <1>2, <1>3, <1>4, <1>8, <1>11, <2>1
  <2> QED
    BY <1>5, <2>1, <2>2
<1>12. At(goal) = InDays(t, DaysToDay(sched, t), sched.time)
  BY <1>7 DEF At
<1> QED
  BY <1>10, <1>11, <1>12 DEF NotShownBefore

-----------------------------------------------------------------------------
(***************************************************************************)
(* From what the clock shows to the instants at which it shows it, over a  *)
(* time in which the clock is not changed.                                 *)
(***************************************************************************)

\* The clock on the wall runs evenly from t to end.
EvenUntil(t, end) ==
    \A s \in Nat : t <= s /\ s <= end => Local(s) - s = Local(t) - t

\* It does for five weeks, which is as far as a job looks ahead.
EvenAhead(t) == EvenUntil(t, t + 5 * WEEK)

\* A clock that is never changed runs evenly at all times.
LEMMA NoSummerIsEven ==
    ASSUME SummerEnd <= SummerStart, NEW t \in Nat, NEW end \in Nat
    PROVE  EvenUntil(t, end)
BY SummerAssumption DEF EvenUntil, Local

\* What the clock shows k days ahead of t when it shows the time of the job.
Ahead(sched, t, k) == t - TimeOfDay(Local(t)) + sched.time + DAY * k

\* An occurrence is an instant at which the clock shows that the job is due.
LEMMA OccursAtShows ==
    ASSUME NEW sched, NEW s
    PROVE  OccursAt(sched, s) <=> Shows(sched, Local(s))
BY DEF OccursAt, Shows

\* Over an even stretch of time the clock shows k days ahead what the calendar
\* says of k days ahead.
LEMMA AheadIsShown ==
    ASSUME NEW sched \in Schedule, NEW t \in Nat, EvenAhead(t),
           NEW k \in 0 .. 34, k >= 1 \/ sched.time > TimeOfDay(Local(t))
    PROVE  /\ Ahead(sched, t, k) \in Nat /\ Ahead(sched, t, k) > t
           /\ Local(Ahead(sched, t, k)) = InDays(Local(t), k, sched.time)
<1> DEFINE s == Ahead(sched, t, k)
           now == TimeOfDay(Local(t))
<1>1. /\ sched.time \in Nat /\ sched.time < 86400
      /\ Local(t) \in Nat /\ now \in Nat /\ now < 86400
  BY SchedFields, LocalClock DEF DAY
<1>2. s = t - now + sched.time + 86400 * k
  BY DEF Ahead, DAY
<1>3. InDays(Local(t), k, sched.time) = s + (Local(t) - t)
  BY <1>1, <1>2 DEF InDays, DAY
<1> HIDE DEF s, now
<1>4. s \in Nat /\ s > t /\ s <= t + 35 * 86400
  BY <1>1, <1>2 DEF now
<1>5. Local(s) - s = Local(t) - t
  BY <1>4 DEF EvenAhead, EvenUntil, WEEK, DAY
<1>6. Local(s) \in Nat
  BY <1>4, LocalRange
<1> QED
  BY <1>1, <1>3, <1>4, <1>5, <1>6 DEF s

\* When the job is not shown due before the day k days ahead, none of the
\* instants NextDays lists before it is an occurrence.
LEMMA NoOccurrenceBefore ==
    ASSUME NEW sched \in Schedule, NEW t \in Nat, EvenAhead(t),
           NEW k \in 0 .. 34, NotShownBefore(sched, Local(t), k)
    PROVE  \A r \in NextDays(sched, t) :
              r < Ahead(sched, t, k) => ~OccursAt(sched, r)
<1> SUFFICES ASSUME NEW r \in NextDays(sched, t), r < Ahead(sched, t, k)
             PROVE  ~OccursAt(sched, r)
  OBVIOUS
<1>1. /\ sched.time \in Nat /\ sched.time < 86400
      /\ Local(t) \in Nat
      /\ TimeOfDay(Local(t)) \in Nat /\ TimeOfDay(Local(t)) < 86400
  BY SchedFields, LocalClock DEF DAY
<1>2. PICK n \in 0 .. 62 : r = Ahead(sched, t, n) /\ r > t
  BY DEF NextDays, Ahead
<1>3. n >= 1 \/ sched.time > TimeOfDay(Local(t))
  BY <1>1, <1>2 DEF Ahead, DAY
<1>4. n < k
  BY <1>1, <1>2 DEF Ahead, DAY
<1>5. Local(r) = InDays(Local(t), n, sched.time)
  BY <1>2, <1>3, <1>4, AheadIsShown
<1>6. ~Shows(sched, InDays(Local(t), n, sched.time))
  BY <1>3, <1>4 DEF NotShownBefore
<1> QED
  BY <1>5, <1>6, OccursAtShows

\* When the job is shown due k days ahead and not before, that is its next
\* occurrence.
LEMMA NextOccurrenceByDays ==
    ASSUME NEW sched \in Schedule, NEW t \in Nat, EvenAhead(t),
           NEW k \in 0 .. 34, k >= 1 \/ sched.time > TimeOfDay(Local(t)),
           Shows(sched, InDays(Local(t), k, sched.time)),
           NotShownBefore(sched, Local(t), k)
    PROVE  IsNextOccurrence(sched, t, Ahead(sched, t, k))
<1>1. /\ Ahead(sched, t, k) > t
      /\ OccursAt(sched, Ahead(sched, t, k))
  BY AheadIsShown, OccursAtShows
<1> QED
  BY <1>1, NoOccurrenceBefore DEF IsNextOccurrence

-----------------------------------------------------------------------------
(***************************************************************************)
(* What next_invocation answers, when the clock is not changed in the five *)
(* weeks to come.                                                          *)
(***************************************************************************)

\* job.rs:27: a daily job is due at its first occurrence.
THEOREM DailyIsNext ==
    ASSUME NEW sched \in Schedule, sched.kind = "daily",
           NEW t \in Nat, EvenAhead(t)
    PROVE  IsNextOccurrence(sched, t, NextInvocation(sched, t))
<1>1. /\ sched.time \in Nat /\ sched.time < DAY
      /\ Local(t) \in Nat /\ TimeOfDay(Local(t)) \in Nat /\ DAY \in Nat
  BY SchedFields, LocalClock DEF DAY
<1>2. PICK k \in 0 .. 34 :
         k = IF sched.time > TimeOfDay(Local(t)) THEN 0 ELSE 1
  OBVIOUS
<1>3. NextInvocation(sched, t) = Ahead(sched, t, k)
  BY <1>1, <1>2 DEF NextInvocation, UntilNext, UntilTime, Ahead
<1>4. Shows(sched, InDays(Local(t), k, sched.time))
  <2>1. k \in Nat
    OBVIOUS
  <2>2. TimeOfDay(InDays(Local(t), k, sched.time)) = sched.time
    BY <1>1, <2>1, InDaysClock
  <2> QED
    BY <2>2 DEF Shows
<1>5. NotShownBefore(sched, Local(t), k)
  BY <1>1, <1>2 DEF NotShownBefore
<1>6. k >= 1 \/ sched.time > TimeOfDay(Local(t))
  BY <1>1, <1>2
<1> QED
  BY <1>3, <1>4, <1>5, <1>6, NextOccurrenceByDays

\* job.rs:28-43: a weekly job is due at its first occurrence, but a day after
\* it when it is asked about on another weekday, past its time of day.
THEOREM WeeklyIsNextOrDayLate ==
    ASSUME NEW sched \in Schedule, sched.kind = "weekly",
           NEW t \in Nat, EvenAhead(t)
    PROVE  IsNextOccurrence(sched, t,
              IF /\ Weekday(Local(t)) # sched.on
                 /\ sched.time <= TimeOfDay(Local(t))
              THEN NextInvocation(sched, t) - DAY
              ELSE NextInvocation(sched, t))
<1> DEFINE l == Local(t)
           now == TimeOfDay(l)
           today == Weekday(l)
           k == DaysToWeekly(sched, l)
<1>1. /\ sched.time \in Nat /\ sched.time < DAY
      /\ l \in Nat /\ now \in Nat
      /\ today \in 0 .. 6 /\ sched.on \in 0 .. 6
  BY SchedFields, LocalClock
<1>2. NextInvocation(sched, t) = t + UntilWeekly(sched.on, sched.time, l)
  BY DEF NextInvocation, UntilNext
<1>3. (IF today # sched.on /\ sched.time <= now
       THEN NextInvocation(sched, t) - DAY ELSE NextInvocation(sched, t))
      = Ahead(sched, t, k)
  BY <1>1, <1>2
     DEF UntilWeekly, UntilTime, Ahead, DaysToWeekly, DaysTo, DAY
<1>4. IsNextOccurrence(sched, t, Ahead(sched, t, k))
  BY <1>1, WeekdayComesRound, NextOccurrenceByDays
<1> QED
  BY <1>3, <1>4

\* The answer of a monthly job but for the day by which two of the arms of
\* job.rs:57-70 have it late or early.
OnTheDay(sched, t) ==
    IF /\ DayOfMonth(Local(t)) < sched.on
       /\ sched.time <= TimeOfDay(Local(t))
    THEN NextInvocation(sched, t) - DAY
    ELSE IF /\ DayOfMonth(Local(t)) > sched.on
            /\ sched.time > TimeOfDay(Local(t))
    THEN NextInvocation(sched, t) + DAY
    ELSE NextInvocation(sched, t)

\* That is what the arms of job.rs:44-71 add up to, whatever the clock does.
LEMMA MonthlyDays ==
    ASSUME NEW sched \in Schedule, sched.kind = "monthly", NEW t \in Nat
    PROVE  OnTheDay(sched, t) = Ahead(sched, t, DaysToDay(sched, Local(t)))
<1> DEFINE l == Local(t)
           now == TimeOfDay(l)
           today == DayOfMonth(l)
           hours == UntilTime(sched.time, l)
           k == DaysToDay(sched, l)
<1>1. /\ sched.time \in Nat /\ sched.time < 86400
      /\ sched.on \in Nat /\ sched.on >= 1
      /\ l \in Nat /\ now \in Nat /\ now < 86400
  BY SchedFields, LocalClock DEF DAY
<1>2. /\ today \in Nat /\ DaysInMonth(l) \in Nat /\ today <= DaysInMonth(l)
  BY <1>1, MonthRanges
<1>3. NextInvocation(sched, t) = t + UntilMonthly(sched.on, sched.time, l)
  BY DEF NextInvocation, UntilNext
<1>4. k \in 0 .. 31
  BY <1>1, DaysToDayRange
<1>5. hours = IF sched.time > now THEN sched.time - now
              ELSE 86400 + (sched.time - now)
  BY DEF UntilTime, DAY
<1>6. Ahead(sched, t, k) = t + (sched.time - now) + 86400 * k
  BY <1>1, <1>4 DEF Ahead, DAY
<1>7. CASE today = sched.on /\ sched.time > now
  <2>1. UntilMonthly(sched.on, sched.time, l) = hours /\ k = 0
    BY <1>1, <1>2, <1>7 DEF UntilMonthly, DaysToDay
  <2> QED
    BY <1>1, <1>2, <1>3, <1>5, <1>6, <1>7, <2>1 DEF OnTheDay
<1>8. CASE today < sched.on
  <2>1. UntilMonthly(sched.on, sched.time, l)
           = hours + 86400 * (sched.on - today)
    BY <1>1, <1>2, <1>8 DEF UntilMonthly, DAY
  <2>2. k = sched.on - today
    BY <1>1, <1>2, <1>8 DEF DaysToDay
  <2> QED
    BY <1>1, <1>2, <1>3, <1>5, <1>6, <1>8, <2>1, <2>2 DEF OnTheDay, DAY
<1>9. CASE today > sched.on \/ (today = sched.on /\ sched.time <= now)
  <2>1. UntilMonthly(sched.on, sched.time, l)
           = hours + 86400 * (DaysInMonth(l) - today + sched.on - 1)
    BY <1>1, <1>2, <1>9 DEF UntilMonthly, DAY
  <2>2. k = DaysInMonth(l) - today + sched.on
    BY <1>1, <1>2, <1>9 DEF DaysToDay
  <2> QED
    BY <1>1, <1>2, <1>3, <1>5, <1>6, <1>9, <2>1, <2>2 DEF OnTheDay, DAY
<1> QED
  BY <1>1, <1>2, <1>7, <1>8, <1>9

\* job.rs:44-71: a monthly job whose day every month has is due at its first
\* occurrence, but for the day that OnTheDay corrects.
THEOREM MonthlyIsNextOrDayOff ==
    ASSUME NEW sched \in Schedule, sched.kind = "monthly", sched.on <= 28,
           NEW t \in Nat, EvenAhead(t)
    PROVE  IsNextOccurrence(sched, t, OnTheDay(sched, t))
<1> DEFINE k == DaysToDay(sched, Local(t))
<1>1. Local(t) \in Nat /\ ~(sched.on > 28)
  BY SchedFields, LocalRange
<1>2. k \in 0 .. 34 /\ (k >= 1 \/ sched.time > TimeOfDay(Local(t)))
  BY <1>1, DaysToDayRange
<1>3. Shows(sched, InDays(Local(t), k, sched.time))
  BY <1>1, DayComesRound
<1>4. NotShownBefore(sched, Local(t), k)
  BY <1>1, DayComesRound
<1> QED
  BY <1>2, <1>3, <1>4, NextOccurrenceByDays, MonthlyDays

\* job.rs:57-70: in a month that lacks its day, a monthly job runs over into the
\* month after by as many days as the month is short, and passes over no
\* occurrence.
THEOREM MonthlyRunsOver ==
    ASSUME NEW sched \in Schedule, sched.kind = "monthly",
           NEW t \in Nat, EvenAhead(t)
    PROVE  LET shown == Local(OnTheDay(sched, t)) IN
           \/ IsNextOccurrence(sched, t, OnTheDay(sched, t))
           \/ /\ TimeOfDay(shown) = sched.time
              /\ DayOfMonth(shown)
                    = sched.on - DaysInMonth(shown - DAY * DayOfMonth(shown))
              /\ \A r \in NextDays(sched, t) :
                    r < OnTheDay(sched, t) => ~OccursAt(sched, r)
<1> DEFINE k == DaysToDay(sched, Local(t))
           shown == InDays(Local(t), k, sched.time)
<1>1. Local(t) \in Nat /\ sched.time \in Nat /\ sched.time < DAY
  BY SchedFields, LocalRange
<1>2. k \in 0 .. 34 /\ (k >= 1 \/ sched.time > TimeOfDay(Local(t)))
  BY <1>1, DaysToDayRange
<1>3. /\ OnTheDay(sched, t) = Ahead(sched, t, k)
      /\ Local(OnTheDay(sched, t)) = shown
  BY <1>2, MonthlyDays, AheadIsShown
<1>4. /\ \/ Shows(sched, shown)
         \/ DayOfMonth(shown)
               = sched.on - DaysInMonth(shown - DAY * DayOfMonth(shown))
      /\ NotShownBefore(sched, Local(t), k)
  BY <1>1, DayComesRound
<1>5. TimeOfDay(shown) = sched.time
  <2>1. k \in Nat
    BY <1>2
  <2> HIDE DEF k
  <2> QED
    BY <1>1, <2>1, InDaysClock
<1>6. \A r \in NextDays(sched, t) :
         r < Ahead(sched, t, k) => ~OccursAt(sched, r)
  BY <1>2, <1>4, NoOccurrenceBefore
<1>7. Shows(sched, shown) => IsNextOccurrence(sched, t, Ahead(sched, t, k))
  BY <1>2, <1>4, NextOccurrenceByDays
<1> HIDE DEF k, shown
<1> QED
  BY <1>3, <1>4, <1>5, <1>6, <1>7

\* Asked when its day is past and its time of day to come, a monthly job
\* answers with the day before its own, which is not its day.
LEMMA DayEarlyIsOff ==
    ASSUME NEW sched \in Schedule, sched.kind = "monthly",
           NEW t \in Nat, EvenAhead(t),
           DayOfMonth(Local(t)) > sched.on, sched.time > TimeOfDay(Local(t))
    PROVE  ~OccursAt(sched, NextInvocation(sched, t))
<1> DEFINE l == Local(t)
           k == DaysToDay(sched, l)
<1>1. /\ sched.time \in Nat /\ sched.time < DAY
      /\ sched.on \in Nat /\ sched.on >= 1
      /\ l \in Nat /\ TimeOfDay(l) \in Nat
  BY SchedFields, LocalClock
<1>2. /\ DayOfMonth(l) \in Nat /\ DaysInMonth(l) \in Nat
      /\ DayOfMonth(l) <= DaysInMonth(l)
  BY <1>1, MonthRanges
<1>3. k \in 0 .. 31 /\ k - 1 \in 0 .. 34
  <2>1. k = DaysInMonth(l) - DayOfMonth(l) + sched.on
    BY <1>1, <1>2 DEF DaysToDay
  <2> QED
    BY <1>1, <1>2, <2>1, DaysToDayRange
<1>4. NextInvocation(sched, t) = Ahead(sched, t, k - 1)
  <2>1. NextInvocation(sched, t) + DAY = Ahead(sched, t, k)
    BY <1>1, <1>2, MonthlyDays DEF OnTheDay
  <2>2. NextInvocation(sched, t) \in Nat
    BY NextInvocationLater
  <2> QED
    BY <1>1, <1>3, <2>1, <2>2 DEF Ahead, DAY
<1>5. NotShownBefore(sched, l, k)
  BY <1>1, DayComesRound
<1>6. ~Shows(sched, InDays(l, k - 1, sched.time))
  BY <1>3, <1>5 DEF NotShownBefore
<1>7. Local(Ahead(sched, t, k - 1)) = InDays(l, k - 1, sched.time)
  BY <1>3, AheadIsShown
<1> QED
  BY <1>4, <1>6, <1>7, OccursAtShows

\* Asked at one of its own occurrences, a job whose day every month has answers
\* with the next one: the arms that are a day off are for other days.
THEOREM NextAfterOwnOccurrence ==
    ASSUME NEW sched \in Schedule, sched.on <= 28,
           NEW t \in Nat, EvenAhead(t), OccursAt(sched, t)
    PROVE  IsNextOccurrence(sched, t, NextInvocation(sched, t))
<1>1. /\ sched.kind = "weekly" => Weekday(Local(t)) = sched.on
      /\ sched.kind = "monthly" => DayOfMonth(Local(t)) = sched.on
  BY DEF OccursAt
<1>2. sched.kind \in { "daily", "weekly", "monthly" }
  BY SchedFields
<1>3. CASE sched.kind = "daily"
  BY <1>3, DailyIsNext
<1>4. CASE sched.kind = "weekly"
  BY <1>1, <1>4, WeeklyIsNextOrDayLate
<1>5. CASE sched.kind = "monthly"
  <2>1. DayOfMonth(Local(t)) \in Nat /\ DayOfMonth(Local(t)) = sched.on
    BY <1>1, <1>5, LocalRange, MonthRanges
  <2>2. OnTheDay(sched, t) = NextInvocation(sched, t)
    BY <2>1 DEF OnTheDay
  <2> QED
    BY <1>5, <2>2, MonthlyIsNextOrDayOff
<1> QED
  BY <1>2, <1>3, <1>4, <1>5

-----------------------------------------------------------------------------
(***************************************************************************)
(* next_job.  Induction over the list is made of the well-foundedness of   *)
(* the numbers: in the set of those that lack a property, a least one.     *)
(***************************************************************************)

\* The order of the numbers, as a relation.
NatLess == { p \in Nat \X Nat : p[1] < p[2] }

\* Every nonempty set of numbers has a least one.
LEMMA LeastOfNat ==
    ASSUME NEW T, T \subseteq Nat, T # {}
    PROVE  \E x \in T : \A y \in T : x <= y
<1>1. IsWellFoundedOn(NatLess, Nat)
  <2>1. IsWellFoundedOn(OpToRel(<, Nat), Nat)
    BY NatLessThanWellFounded
  <2>2. NatLess \cap (Nat \X Nat) \subseteq OpToRel(<, Nat)
    BY DEF NatLess, OpToRel
  <2> QED
    BY <2>1, <2>2, IsWellFoundedOnSubrelation
<1>2. PICK x \in T : \A y \in T : << y, x >> \notin NatLess
  BY <1>1, WFMin
<1>3. ASSUME NEW y \in T PROVE x <= y
  <2>1. x \in Nat /\ y \in Nat /\ << y, x >> \notin NatLess
    BY <1>2
  <2>2. << y, x >> \in NatLess <=> y < x
    BY <2>1 DEF NatLess
  <2> QED
    BY <2>1, <2>2
<1> QED
  BY <1>3

\* Induction over the numbers, for the set of those that have a property.
LEMMA AllOfNat ==
    ASSUME NEW S, 0 \in S, \A n \in Nat : n \in S => n + 1 \in S
    PROVE  Nat \subseteq S
<1> SUFFICES ASSUME NEW m \in Nat, m \notin S PROVE FALSE
  OBVIOUS
<1>1. PICK x \in Nat \ S : \A y \in Nat \ S : x <= y
  <2>1. Nat \ S \subseteq Nat /\ Nat \ S # {}
    OBVIOUS
  <2> QED
    BY <2>1, LeastOfNat
<1>2. x # 0 /\ x - 1 \in Nat /\ x - 1 \in S
  BY <1>1
<1> QED
  BY <1>1, <1>2

\* Among the first n jobs, j is the last of those that are due first.
IsBestOf(j, n, t) ==
    /\ j \in 1 .. n
    /\ \A i \in 1 .. n :
          /\ NextInvocation(Jobs[j], t) <= NextInvocation(Jobs[i], t)
          /\ i > j => NextInvocation(Jobs[j], t) < NextInvocation(Jobs[i], t)

\* The closure of the fold: of the candidate a and the next job n, the one kept.
Kept(a, n, t) ==
    IF NextInvocation(Jobs[a], t) < NextInvocation(Jobs[n], t) THEN a ELSE n

\* One step of the fold (job.rs:87-93).
LEMMA KeptIsBest ==
    ASSUME NEW n \in Nat, n + 1 \in JobIndex, NEW t \in Nat,
           \A i \in JobIndex : NextInvocation(Jobs[i], t) \in Nat,
           NEW a, IsBestOf(a, n, t)
    PROVE  IsBestOf(Kept(a, n + 1, t), n + 1, t)
<1> DEFINE next(i) == NextInvocation(Jobs[i], t)
<1>1. /\ a \in 1 .. n
      /\ \A i \in 1 .. n : next(a) <= next(i) /\ (i > a => next(a) < next(i))
  BY DEF IsBestOf
<1>2. \A i \in 1 .. n + 1 : next(i) \in Nat
  BY JobsAssumption DEF JobIndex
<1> HIDE DEF next
<1>3. CASE next(a) < next(n + 1)
  <2>1. Kept(a, n + 1, t) = a
    BY <1>3 DEF Kept, next
  <2>2. \A i \in 1 .. n + 1 : next(a) <= next(i) /\ (i > a => next(a) < next(i))
    BY <1>1, <1>2, <1>3
  <2> QED
    BY <1>1, <2>1, <2>2 DEF IsBestOf, next
<1>4. CASE ~(next(a) < next(n + 1))
  <2>1. Kept(a, n + 1, t) = n + 1
    BY <1>4 DEF Kept, next
  <2>2. \A i \in 1 .. n + 1 : next(n + 1) <= next(i) /\ ~(i > n + 1)
    BY <1>1, <1>2, <1>4
  <2> QED
    BY <2>1, <2>2 DEF IsBestOf, next
<1> QED
  BY <1>3, <1>4

\* At most one job of the first n is the last of those that are due first.
LEMMA BestIsUnique ==
    ASSUME NEW n \in JobIndex, NEW t \in Nat,
           \A i \in JobIndex : NextInvocation(Jobs[i], t) \in Nat,
           NEW a, NEW b, IsBestOf(a, n, t), IsBestOf(b, n, t)
    PROVE  a = b
<1>1. n \in Nat /\ a \in 1 .. n /\ b \in 1 .. n /\ 1 .. n \subseteq JobIndex
  BY JobsAssumption DEF IsBestOf, JobIndex
<1>2. a \in Int /\ b \in Int
      /\ NextInvocation(Jobs[a], t) \in Nat /\ NextInvocation(Jobs[b], t) \in Nat
  BY <1>1
<1>3. /\ ~(a > b) /\ ~(b > a)
  BY <1>1, <1>2 DEF IsBestOf
<1> QED
  BY <1>2, <1>3

\* Some job of the first n is: the fold finds it, by induction over the list.
LEMMA BestExists ==
    ASSUME NEW t \in Nat,
           \A i \in JobIndex : NextInvocation(Jobs[i], t) \in Nat
    PROVE  \A n \in JobIndex : \E j : IsBestOf(j, n, t)
<1> DEFINE S == { n \in Nat : n + 1 \in JobIndex =>
                                 \E j : IsBestOf(j, n + 1, t) }
<1>1. 0 \in S
  <2>1. 1 \in JobIndex => IsBestOf(1, 1, t)
    BY DEF IsBestOf
  <2> QED
    BY <2>1
<1>2. ASSUME NEW n \in Nat, n \in S PROVE n + 1 \in S
  <2> SUFFICES ASSUME n + 1 + 1 \in JobIndex
               PROVE  \E j : IsBestOf(j, n + 1 + 1, t)
    OBVIOUS
  <2>1. n + 1 \in Nat /\ n + 1 \in JobIndex
    BY JobsAssumption DEF JobIndex
  <2>2. PICK a : IsBestOf(a, n + 1, t)
    BY <1>2, <2>1
  <2>3. IsBestOf(Kept(a, n + 1 + 1, t), n + 1 + 1, t)
    BY <2>1, <2>2, KeptIsBest
  <2> QED
    BY <2>3
<1> HIDE DEF S
<1>3. Nat \subseteq S
  BY <1>1, <1>2, AllOfNat
<1>4. ASSUME NEW n \in JobIndex PROVE \E j : IsBestOf(j, n, t)
  <2>1. n - 1 \in Nat /\ (n - 1) + 1 = n
    BY JobsAssumption DEF JobIndex
  <2>2. n - 1 \in S
    BY <1>3, <2>1
  <2> QED
    BY <2>1, <2>2 DEF S
<1> QED
  BY <1>4

\* After the first n jobs, the candidate of the fold is the last of those of them
\* that are due first.
LEMMA FoldIsBest ==
    ASSUME NEW t \in Nat, Jobs # << >>,
           \A i \in JobIndex : NextInvocation(Jobs[i], t) \in Nat
    PROVE  IsBestOf(NextJobFold(t), Len(Jobs), t)
<1> DEFINE of(best) == [n \in JobIndex |->
                          IF n = 1 THEN 1 ELSE Kept(best[n - 1], n, t)]
           candidate == CHOOSE best : best = of(best)
           winner == [n \in JobIndex |-> CHOOSE j : IsBestOf(j, n, t)]
           S == { n \in Nat : n + 1 \in JobIndex =>
                               IsBestOf(candidate[n + 1], n + 1, t) }
<1>1. /\ Len(Jobs) \in Nat /\ Len(Jobs) \in JobIndex /\ 1 \in JobIndex
      /\ JobIndex = 1 .. Len(Jobs)
  BY JobsAssumption DEF JobIndex
<1>2. \A n \in JobIndex : IsBestOf(winner[n], n, t)
  BY BestExists
<1>3. winner = of(winner)
  <2>1. ASSUME NEW n \in JobIndex
        PROVE  winner[n] = IF n = 1 THEN 1 ELSE Kept(winner[n - 1], n, t)
    <3> HIDE DEF winner
    <3>1. CASE n = 1
      BY <1>2, <3>1, <1>1 DEF IsBestOf
    <3>2. CASE n # 1
      <4>1. n - 1 \in Nat /\ n - 1 \in JobIndex /\ (n - 1) + 1 = n
        BY <1>1, <3>2
      <4>2. IsBestOf(Kept(winner[n - 1], n, t), n, t)
        BY <1>2, <4>1, KeptIsBest
      <4> QED
        BY <1>2, <3>2, <4>2, BestIsUnique
    <3> QED
      BY <3>1, <3>2
  <2>2. winner = [n \in JobIndex |-> winner[n]]
    OBVIOUS
  <2> HIDE DEF winner
  <2>3. of(winner) = [n \in JobIndex |-> winner[n]]
    BY <2>1
  <2> QED
    BY <2>2, <2>3
<1>4. candidate = of(candidate)
  BY <1>3
<1> HIDE DEF candidate, winner
<1>5. /\ candidate[1] = 1
      /\ \A n \in Nat : n + 1 \in JobIndex /\ n # 0 =>
            candidate[n + 1] = Kept(candidate[n], n + 1, t)
  <2>1. \A n \in JobIndex :
          candidate[n] = IF n = 1 THEN 1 ELSE Kept(candidate[n - 1], n, t)
    BY <1>4
  <2>2. \A n \in Nat : n # 0 => n + 1 # 1 /\ (n + 1) - 1 = n
    OBVIOUS
  <2> QED
    BY <1>1, <2>1, <2>2
<1>6. 0 \in S
  BY <1>1, <1>5 DEF IsBestOf
<1>7. ASSUME NEW n \in Nat, n \in S PROVE n + 1 \in S
  <2> SUFFICES ASSUME n + 1 + 1 \in JobIndex
               PROVE  IsBestOf(candidate[n + 1 + 1], n + 1 + 1, t)
    OBVIOUS
  <2>1. n + 1 \in Nat /\ n + 1 \in JobIndex /\ n + 1 # 0
    BY <1>1
  <2>2. IsBestOf(Kept(candidate[n + 1], n + 1 + 1, t), n + 1 + 1, t)
    BY <1>7, <2>1, KeptIsBest
  <2> QED
    BY <1>5, <2>1, <2>2
<1> HIDE DEF S
<1>8. Nat \subseteq S
  BY <1>6, <1>7, AllOfNat
<1>9. IsBestOf(candidate[Len(Jobs)], Len(Jobs), t)
  <2>1. Len(Jobs) - 1 \in S /\ (Len(Jobs) - 1) + 1 = Len(Jobs)
    BY <1>1, <1>8
  <2> QED
    BY <1>1, <2>1 DEF S
<1>10. NextJobFold(t) = candidate[Len(Jobs)]
  BY DEF NextJobFold, candidate, Kept
<1> QED
  BY <1>9, <1>10

\* next_job answers with exactly one job of every nonempty list: the last of those
\* that are due first (job.rs:84-94).
THEOREM NextJobIsTheFold ==
    ASSUME Jobs # << >>, NEW t \in Nat
    PROVE  /\ NextJobFold(t) \in JobIndex
           /\ \A j \in JobIndex : IsNextJob(j, t) <=> j = NextJobFold(t)
<1>1. /\ Len(Jobs) \in Nat /\ Len(Jobs) \in JobIndex /\ JobIndex = 1 .. Len(Jobs)
      /\ \A i \in JobIndex : Jobs[i] \in Schedule
  BY JobsAssumption DEF JobIndex
<1>2. \A i \in JobIndex : NextInvocation(Jobs[i], t) \in Nat
  BY <1>1, NextInvocationLater
<1>3. IsBestOf(NextJobFold(t), Len(Jobs), t)
  BY <1>2, FoldIsBest
<1>4. \A j \in JobIndex : IsNextJob(j, t) <=> IsBestOf(j, Len(Jobs), t)
  BY <1>1 DEF IsNextJob, IsBestOf
<1>5. \A j : IsBestOf(j, Len(Jobs), t) => j = NextJobFold(t)
  BY <1>1, <1>2, <1>3, BestIsUnique
<1> QED
  BY <1>1, <1>3, <1>4, <1>5 DEF IsBestOf

=============================================================================
