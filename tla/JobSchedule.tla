---------------------------- MODULE JobSchedule -----------------------------
(***************************************************************************)
(* backup-controller/src/job.rs: when a job is due, and which job is next. *)
(*                                                                         *)
(* A job is a record with a "kind" (the variant of enum Schedule), a       *)
(* "time" of day in seconds and an "on": the weekday of a weekly job       *)
(* (0 = Sunday), the day of the month of a monthly one, 0 for a daily one. *)
(* The command a job carries is the business of BackupController.          *)
(*                                                                         *)
(* A definition commented "Mutant of D" is not part of the model: D with   *)
(* that body instead is a bug that a property must notice.                 *)
(***************************************************************************)
EXTENDS Calendar, Sequences

CONSTANTS
    Jobs,           \* the job list of main.rs, a sequence of jobs
    SummerStart,    \* the instant local time moves one hour ahead ...
    SummerEnd       \* ... and the instant it moves back

Schedule ==
         [kind : {"daily"},   time : 0 .. DAY - 1, on : {0}]
    \cup [kind : {"weekly"},  time : 0 .. DAY - 1, on : 0 .. 6]
    \cup [kind : {"monthly"}, time : 0 .. DAY - 1, on : 1 .. 31]

JobIndex == DOMAIN Jobs

ASSUME JobsAssumption == Jobs \in Seq(Schedule)

ASSUME SummerAssumption ==
    /\ SummerStart \in Nat
    /\ SummerEnd \in Nat

-----------------------------------------------------------------------------
\* chrono::Local: what the clock on the wall shows at instant t.
Local(t) == IF SummerStart <= t /\ t < SummerEnd THEN t + HOUR ELSE t

\* Mutant of UntilTime: "time >= after.time()".
UntilTimeInclusive(time, after) ==
    IF time >= TimeOfDay(after)
    THEN time - TimeOfDay(after)
    ELSE DAY + (time - TimeOfDay(after))

\* The closure time_until_invocation_tomorrow: seconds until the clock next
\* shows "time", today if that is still to come, else tomorrow.
UntilTime(time, after) ==
    IF time > TimeOfDay(after)
    THEN time - TimeOfDay(after)
    ELSE DAY + (time - TimeOfDay(after))

\* Mutant of UntilWeekly: the job's own weekday is always a week away.
UntilWeeklyNeverToday(weekday, time, after) ==
    LET hours == UntilTime(time, after)
        today == Weekday(after)
    IN  IF today < weekday
        THEN hours + DAY * (weekday - today)
        ELSE hours + DAY * (7 - (today - weekday) - 1)

\* Mutant of UntilWeekly: the days are counted from tomorrow throughout.
UntilWeeklyFromTomorrow(weekday, time, after) ==
    LET hours == UntilTime(time, after)
        today == Weekday(after)
    IN  IF today = weekday /\ time > TimeOfDay(after) THEN hours
        ELSE IF today < weekday
        THEN hours + DAY * (weekday - today - 1)
        ELSE hours + DAY * (7 - (today - weekday) - 1)

\* The arms of Schedule::Weekly.
UntilWeekly(weekday, time, after) ==
    LET hours == UntilTime(time, after)
        today == Weekday(after)
    IN  CASE today = weekday /\ time > TimeOfDay(after) -> hours
          [] today = weekday /\ time <= TimeOfDay(after) ->
                hours + DAY * (7 - (today - weekday) - 1)
          [] today < weekday -> hours + DAY * (weekday - today)
          [] today > weekday -> hours + DAY * (7 - (today - weekday))

\* Mutant of UntilMonthly: next month without the length of this one.
UntilMonthlySameMonth(dayOfMonth, time, after) ==
    UntilTime(time, after) + DAY * (dayOfMonth - DayOfMonth(after))

\* Mutant of UntilMonthly: the job's own day is always a month away.
UntilMonthlyNeverToday(dayOfMonth, time, after) ==
    LET hours == UntilTime(time, after)
        today == DayOfMonth(after)
    IN  IF today < dayOfMonth
        THEN hours + DAY * (dayOfMonth - today)
        ELSE hours + DAY * (DaysInMonth(after) - today + dayOfMonth - 1)

\* Mutant of UntilMonthly: every month has thirty days.
UntilMonthlyThirtyDays(dayOfMonth, time, after) ==
    LET hours == UntilTime(time, after)
        today == DayOfMonth(after)
    IN  IF today = dayOfMonth /\ time > TimeOfDay(after) THEN hours
        ELSE IF today < dayOfMonth
        THEN hours + DAY * (dayOfMonth - today)
        ELSE hours + DAY * (30 - today + dayOfMonth - 1)

\* The arms of Schedule::Monthly.
UntilMonthly(dayOfMonth, time, after) ==
    LET hours     == UntilTime(time, after)
        today     == DayOfMonth(after)
        nextMonth == hours + DAY * (DaysInMonth(after) - today + dayOfMonth - 1)
    IN  CASE today = dayOfMonth /\ time > TimeOfDay(after) -> hours
          [] today = dayOfMonth /\ time <= TimeOfDay(after) -> nextMonth
          [] today < dayOfMonth -> hours + DAY * (dayOfMonth - today)
          [] today > dayOfMonth -> nextMonth

UntilNext(job, after) ==
    CASE job.kind = "daily"   -> UntilTime(job.time, after)
      [] job.kind = "weekly"  -> UntilWeekly(job.on, job.time, after)
      [] job.kind = "monthly" -> UntilMonthly(job.on, job.time, after)

\* Mutant of NextInvocation: the decision is made on the instant in UTC.
NextInvocationUtc(job, t) == t + UntilNext(job, t)

\* Job::next_invocation.  The decision is made on local time, the delta is
\* added to the instant.
NextInvocation(job, t) == t + UntilNext(job, Local(t))

\* Job::is_due_within, at the instant t that Local::now() returns.
IsDueWithin(job, t, delta) == NextInvocation(job, t) < t + delta

\* Mutant of IsNextJob: the first of the jobs that are due first wins.
IsNextJobFirst(j, t) ==
    \A i \in JobIndex :
        /\ NextInvocation(Jobs[j], t) <= NextInvocation(Jobs[i], t)
        /\ i < j => NextInvocation(Jobs[j], t) < NextInvocation(Jobs[i], t)

\* next_job: the fold keeps the earlier candidate only when it is strictly
\* earlier, so the last of the jobs that are due first wins.
IsNextJob(j, t) ==
    \A i \in JobIndex :
        /\ NextInvocation(Jobs[j], t) <= NextInvocation(Jobs[i], t)
        /\ i > j => NextInvocation(Jobs[j], t) < NextInvocation(Jobs[i], t)

\* next_job as it is written: a fold over the list that starts with its head.
\* candidate[n] is what is left after the first n jobs.
NextJobFold(t) ==
    LET candidate[n \in JobIndex] ==
            IF n = 1 THEN 1
            ELSE LET a == candidate[n - 1] IN
                 IF NextInvocation(Jobs[a], t) < NextInvocation(Jobs[n], t)
                 THEN a ELSE n
    IN  candidate[Len(Jobs)]

-----------------------------------------------------------------------------
(***************************************************************************)
(* What a schedule means, independently of the arithmetic above.           *)
(***************************************************************************)

\* The instant t is one at which the job's schedule says it is due.
OccursAt(job, t) ==
    LET local == Local(t) IN
    /\ TimeOfDay(local) = job.time
    /\ job.kind = "weekly"  => Weekday(local) = job.on
    /\ job.kind = "monthly" => DayOfMonth(local) = job.on

\* The instants after t, at most two months ahead, at which the clock shows the
\* time of the job when no change of the clock intervenes.
NextDays(job, t) ==
    { s \in { t - TimeOfDay(Local(t)) + job.time + DAY * n : n \in 0 .. 62 } :
        s > t }

\* The first occurrence of the job after t (between two clock changes).
IsNextOccurrence(job, t, s) ==
    /\ s > t
    /\ OccursAt(job, s)
    /\ \A r \in NextDays(job, t) : r < s => ~OccursAt(job, r)

=============================================================================
