--------------------------- MODULE ScheduleChain ----------------------------
(***************************************************************************)
(* One job of the list, asked for its next invocation at an arbitrary      *)
(* instant and then again at the instant it answered, which is how the     *)
(* executor uses it when nothing else happens.  The properties compare     *)
(* next_invocation with the meaning of the schedule.                       *)
(***************************************************************************)
EXTENDS JobSchedule, JobTests

CONSTANTS
    Asked,      \* the instants at which the chain may start
    Horizon     \* bound: no invocation is asked for after this instant

ASSUME ChainAssumption == Asked \subseteq Nat /\ Horizon \in Nat

VARIABLES
    job,        \* the index of the job
    after,      \* the argument of next_invocation
    due         \* its result

vars == << job, after, due >>

TypeOK ==
    /\ job \in JobIndex
    /\ after \in Nat
    /\ due \in Nat

Init ==
    /\ job \in JobIndex
    /\ after \in Asked
    /\ due = NextInvocation(Jobs[job], after)

AskAgain ==
    /\ due <= Horizon
    /\ after' = due
    /\ due' = NextInvocation(Jobs[job], due)
    /\ UNCHANGED job

Next == AskAgain

Spec == Init /\ [][Next]_vars

-----------------------------------------------------------------------------
\* The two things the branches of next_invocation tell apart.
TimeIsPast == Jobs[job].time <= TimeOfDay(Local(after))

Today ==
    IF Jobs[job].kind = "weekly" THEN Weekday(Local(after))
    ELSE IF Jobs[job].kind = "monthly" THEN DayOfMonth(Local(after))
    ELSE 0

IsOccurrence(s) == IsNextOccurrence(Jobs[job], after, s)

-----------------------------------------------------------------------------
\* A daily job is due at the first instant after the one asked about at which
\* the clock shows its time (job.rs, Schedule::Daily).
DailyExact == Jobs[job].kind = "daily" => IsOccurrence(due)

\* A weekly job is due at its first occurrence, except that it is put off by
\* one day when it is asked about on another weekday after its time of day:
\* the hours already reach into tomorrow and the days are counted from today.
WeeklyExactOrDayLate ==
    Jobs[job].kind = "weekly" =>
        IF Today # Jobs[job].on /\ TimeIsPast
        THEN IsOccurrence(due - DAY)
        ELSE IsOccurrence(due)

\* A monthly job whose day every month has is due at its first occurrence,
\* except one day late when its day is still to come and its time of day is
\* past, and one day early when its day is past and its time of day is still to
\* come.
MonthlyExactOrDayOff ==
    Jobs[job].kind = "monthly" /\ Jobs[job].on <= 28 =>
        IF Today < Jobs[job].on /\ TimeIsPast
        THEN IsOccurrence(due - DAY)
        ELSE IF Today > Jobs[job].on /\ ~TimeIsPast
        THEN ~OccursAt(Jobs[job], due) /\ IsOccurrence(due + DAY)
        ELSE IsOccurrence(due)

\* In a month that lacks the day of a monthly job, the job runs in the month
\* after, by as many days late as the month is short, and no occurrence is
\* passed over on the way; but for the day by which MonthlyExactOrDayOff has
\* it late or early (job.rs:56, 63).
MonthEndRunsOver ==
    Jobs[job].kind = "monthly" =>
        LET day == IF Today < Jobs[job].on /\ TimeIsPast THEN due - DAY
                   ELSE IF Today > Jobs[job].on /\ ~TimeIsPast THEN due + DAY
                   ELSE due
            shown == Local(day)
            monthBefore == shown - DAY * DayOfMonth(shown)
        IN  \/ IsOccurrence(day)
            \/ /\ TimeOfDay(shown) = Jobs[job].time
               /\ DayOfMonth(shown) = Jobs[job].on - DaysInMonth(monthBefore)
               /\ \A r \in NextDays(Jobs[job], after) :
                     r < day => ~OccursAt(Jobs[job], r)

\* Once a job that every month has is asked about at one of its own
\* occurrences, every later answer is the next occurrence: an executor that
\* runs a job on time and plans before anything else happens never drifts off
\* its schedule.
StaysOnSchedule ==
    [][OccursAt(Jobs[job], due) /\ Jobs[job].on <= 28
            => IsOccurrence(due)']_vars

-----------------------------------------------------------------------------
\* The fold of next_job picks, among the jobs that are due first, the one that
\* comes last in the list: on a tie the earlier entries of main.rs lose
\* (job.rs:84-94).
NextJobIsLastOfTheFirst ==
    IsNextJob(job, after) <=> job = NextJobFold(after)

\* The schedule answers what the unit tests of job.rs expect of it
\* (job.rs:105-337).
AgreesWithTests ==
    \A test \in UnitTests :
        Jobs[job] = test.job /\ after = test.after => due = test.due

-----------------------------------------------------------------------------
\* A job is due on its own weekday or day of the month, at its time.  The test
\* weekly_job_lt (job.rs:188) expects the Monday asked for; the comments of the
\* monthly branches say "Not yet, but it's coming up!" (job.rs:62) and "It's
\* next month!" (job.rs:65).
DueOnItsDay == OccursAt(Jobs[job], due)

=============================================================================
