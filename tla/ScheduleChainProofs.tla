------------------------- MODULE ScheduleChainProofs ------------------------
(***************************************************************************)
(* What the runs of ScheduleChain check for a list of jobs and a few days, *)
(* for every list, every instant and every change of the clock: wherever   *)
(* the five weeks to come are without such a change, the daily, the weekly *)
(* and the monthly schedule, the ends of the months included.              *)
(***************************************************************************)
EXTENDS ScheduleChain, JobScheduleProofs

\* The answer always belongs to the question asked last, and no question is
\* older than the first one.
ChainInv ==
    /\ TypeOK
    /\ due = NextInvocation(Jobs[job], after)
    /\ \E first \in Asked : first <= after

\* Every index of the list is that of a schedule.
LEMMA JobsAreScheduled ==
    ASSUME NEW j \in JobIndex
    PROVE  Jobs[j] \in Schedule
BY JobsAssumption DEF JobIndex

\* The chain always holds the answer to the question it holds: due is the
\* next_invocation of the job at after.
LEMMA ChainInvariant == Spec => []ChainInv
<1>1. ASSUME Init
      PROVE  ChainInv
  <2>1. /\ Jobs[job] \in Schedule /\ after \in Nat /\ after \in Asked
        /\ due = NextInvocation(Jobs[job], after)
    BY <1>1, ChainAssumption, JobsAreScheduled DEF Init
  <2>2. due \in Nat /\ after <= after
    BY <2>1, NextInvocationLater
  <2> QED
    BY <1>1, <2>1, <2>2 DEF Init, ChainInv, TypeOK
<1>2. ChainInv /\ [Next]_vars => ChainInv'
  <2> SUFFICES ASSUME ChainInv, [Next]_vars
               PROVE  ChainInv'
    OBVIOUS
  <2>1. CASE AskAgain
    <3>1. Jobs[job] \in Schedule /\ after \in Nat /\ due \in Nat
      BY JobsAreScheduled DEF ChainInv, TypeOK
    <3>2. NextInvocation(Jobs[job], due) \in Nat /\ due > after
      BY <3>1, NextInvocationLater DEF ChainInv
    <3>3. \E first \in Asked : first <= due
      BY <3>1, <3>2, ChainAssumption DEF ChainInv
    <3> QED
      BY <2>1, <3>1, <3>2, <3>3 DEF AskAgain, ChainInv, TypeOK
  <2>2. CASE UNCHANGED vars
    BY <2>2 DEF vars, ChainInv, TypeOK
  <2> QED
    BY <2>1, <2>2 DEF Next
<1> QED
  BY <1>1, <1>2, PTL DEF Spec

\* What the properties of the chain speak of, while ChainInv holds.
LEMMA ChainFacts ==
    ASSUME ChainInv
    PROVE  /\ Jobs[job] \in Schedule
           /\ after \in Nat /\ due \in Nat
           /\ due = NextInvocation(Jobs[job], after)
           /\ Jobs[job].time \in Nat
           /\ TimeOfDay(Local(after)) \in Nat
           /\ DayOfMonth(Local(after)) \in Nat
           /\ Jobs[job].kind = "monthly" => Jobs[job].on \in Nat
<1>1. /\ Jobs[job] \in Schedule
      /\ after \in Nat /\ due \in Nat
      /\ due = NextInvocation(Jobs[job], after)
  BY JobsAreScheduled DEF ChainInv, TypeOK
<1>2. Local(after) \in Nat /\ TimeOfDay(Local(after)) \in Nat
  BY <1>1, LocalClock
<1>3. DayOfMonth(Local(after)) \in Nat
  BY <1>2, MonthRanges
<1> QED
  BY <1>1, <1>2, <1>3, SchedFields

\* Every daily job of every list is due at its first occurrence, whenever it is
\* asked about five weeks before a change of the clock or earlier.
THEOREM DailyAlwaysExact == Spec => [](EvenAhead(after) => DailyExact)
<1>1. ChainInv => (EvenAhead(after) => DailyExact)
  BY ChainFacts, DailyIsNext DEF DailyExact, IsOccurrence
<1> QED
  BY <1>1, ChainInvariant, PTL

\* Every weekly job is due at its first occurrence, or a day later when asked
\* about past its time on another day, five weeks before a change of the clock
\* or earlier.
THEOREM WeeklyAlwaysExactOrDayLate ==
    Spec => [](EvenAhead(after) => WeeklyExactOrDayLate)
<1>1. ASSUME ChainInv, EvenAhead(after), Jobs[job].kind = "weekly"
      PROVE  WeeklyExactOrDayLate
  <2>1. Today = Weekday(Local(after))
    BY <1>1 DEF Today
  <2>2. IsNextOccurrence(Jobs[job], after,
           IF /\ Weekday(Local(after)) # Jobs[job].on
              /\ Jobs[job].time <= TimeOfDay(Local(after))
           THEN due - DAY ELSE due)
    BY <1>1, ChainFacts, WeeklyIsNextOrDayLate
  <2> QED
    BY <1>1, <2>1, <2>2 DEF WeeklyExactOrDayLate, IsOccurrence, TimeIsPast
<1>2. ChainInv => (EvenAhead(after) => WeeklyExactOrDayLate)
  BY <1>1 DEF WeeklyExactOrDayLate
<1> QED
  BY <1>2, ChainInvariant, PTL

\* The two conditions under which the properties have a monthly answer late or
\* early are those of OnTheDay.
LEMMA OnTheDayIsCorrected ==
    ASSUME ChainInv, Jobs[job].kind = "monthly"
    PROVE  /\ Today = DayOfMonth(Local(after))
           /\ TimeIsPast <=> ~(Jobs[job].time > TimeOfDay(Local(after)))
           /\ OnTheDay(Jobs[job], after)
                 = IF Today < Jobs[job].on /\ TimeIsPast THEN due - DAY
                   ELSE IF Today > Jobs[job].on /\ ~TimeIsPast THEN due + DAY
                   ELSE due
<1>1. Today = DayOfMonth(Local(after))
  BY DEF Today
<1>2. TimeIsPast <=> Jobs[job].time <= TimeOfDay(Local(after))
  BY DEF TimeIsPast
<1> QED
  BY <1>1, <1>2, ChainFacts DEF OnTheDay

\* Every monthly job whose day every month has is due at its first occurrence,
\* but a day late when its day is to come and its time of day past, a day early
\* the other way round; five weeks before a change of the clock or earlier.
THEOREM MonthlyAlwaysExactOrDayOff ==
    Spec => [](EvenAhead(after) => MonthlyExactOrDayOff)
<1>1. ASSUME ChainInv, EvenAhead(after),
             Jobs[job].kind = "monthly", Jobs[job].on <= 28
      PROVE  MonthlyExactOrDayOff
  <2>1. IsOccurrence(OnTheDay(Jobs[job], after))
    BY <1>1, ChainFacts, MonthlyIsNextOrDayOff DEF IsOccurrence
  <2>2. Today > Jobs[job].on /\ ~TimeIsPast => ~OccursAt(Jobs[job], due)
    BY <1>1, ChainFacts, OnTheDayIsCorrected, DayEarlyIsOff
  <2> QED
    BY <1>1, <2>1, <2>2, OnTheDayIsCorrected DEF MonthlyExactOrDayOff
<1>2. ChainInv => (EvenAhead(after) => MonthlyExactOrDayOff)
  BY <1>1 DEF MonthlyExactOrDayOff
<1> QED
  BY <1>2, ChainInvariant, PTL

\* A monthly job on any day, the 29th, 30th and 31st too, is due at its first
\* occurrence or, when the month lacks its day, runs over into the month after
\* by as many days as the month is short, with no occurrence passed over; but
\* for the same day late or early.
THEOREM MonthEndAlwaysRunsOver ==
    Spec => [](EvenAhead(after) => MonthEndRunsOver)
<1>1. ASSUME ChainInv, EvenAhead(after), Jobs[job].kind = "monthly"
      PROVE  MonthEndRunsOver
  <2> DEFINE day == OnTheDay(Jobs[job], after)
             shown == Local(day)
  <2>1. \/ IsOccurrence(day)
        \/ /\ TimeOfDay(shown) = Jobs[job].time
           /\ DayOfMonth(shown)
                 = Jobs[job].on - DaysInMonth(shown - DAY * DayOfMonth(shown))
           /\ \A r \in NextDays(Jobs[job], after) :
                 r < day => ~OccursAt(Jobs[job], r)
    BY <1>1, ChainFacts, MonthlyRunsOver DEF IsOccurrence
  <2>2. day = IF Today < Jobs[job].on /\ TimeIsPast THEN due - DAY
              ELSE IF Today > Jobs[job].on /\ ~TimeIsPast THEN due + DAY
              ELSE due
    BY <1>1, OnTheDayIsCorrected
  <2> HIDE DEF day
  <2> QED
    BY <2>1, <2>2 DEF MonthEndRunsOver
<1>2. ChainInv => (EvenAhead(after) => MonthEndRunsOver)
  BY <1>1 DEF MonthEndRunsOver
<1> QED
  BY <1>2, ChainInvariant, PTL

\* With no change of the clock from the first question to five weeks after the
\* last one, an executor that runs a job on time and plans before anything else
\* happens never drifts off the schedule.
THEOREM StaysAlwaysOnSchedule ==
    ASSUME \A first \in Asked, t \in Nat :
              first <= t /\ t <= Horizon => EvenAhead(t)
    PROVE  Spec => StaysOnSchedule
<1>1. ASSUME ChainInv, Next, OccursAt(Jobs[job], due), Jobs[job].on <= 28
      PROVE  IsOccurrence(due)'
  <2>1. job' = job /\ after' = due /\ due' = NextInvocation(Jobs[job], due)
    BY <1>1 DEF Next, AskAgain
  <2>2. EvenAhead(due)
    <3>1. due > after
      BY <1>1, ChainFacts, NextInvocationLater
    <3>2. PICK first \in Asked : first <= after
      BY <1>1 DEF ChainInv
    <3>3. first \in Nat /\ due \in Nat /\ after \in Nat /\ due <= Horizon
      BY <1>1, ChainFacts, ChainAssumption DEF Next, AskAgain
    <3>4. first <= due
      BY <3>1, <3>2, <3>3
    <3> QED
      BY <3>3, <3>4
  <2>3. IsNextOccurrence(Jobs[job], due, NextInvocation(Jobs[job], due))
    BY <1>1, <2>2, ChainFacts, NextAfterOwnOccurrence
  <2> QED
    BY <2>1, <2>3 DEF IsOccurrence
<1>2. ChainInv /\ [Next]_vars =>
         [OccursAt(Jobs[job], due) /\ Jobs[job].on <= 28
            => IsOccurrence(due)']_vars
  BY <1>1
<1> QED
  BY <1>2, ChainInvariant, PTL DEF Spec, StaysOnSchedule

\* In every list there is one next job at every instant: the one the fold finds.
THEOREM NextJobAlwaysLastOfTheFirst == Spec => []NextJobIsLastOfTheFirst
<1>1. ASSUME ChainInv PROVE NextJobIsLastOfTheFirst
  <2>1. job \in JobIndex /\ after \in Nat /\ Jobs # << >>
    BY <1>1, JobsAssumption DEF ChainInv, TypeOK, JobIndex
  <2> QED
    BY <2>1, NextJobIsTheFold DEF NextJobIsLastOfTheFirst
<1> QED
  BY <1>1, ChainInvariant, PTL

-----------------------------------------------------------------------------
\* The unit tests about daily and weekly jobs expect what next_invocation answers.
LEMMA DailyAndWeeklyTests ==
    ASSUME NEW test \in { daily_job_lt, daily_job_gt, daily_job_eq,
                          weekly_job_lt_sameday, weekly_job_lt, weekly_job_gt,
                          weekly_job_eq }
    PROVE  test.due = test.after + UntilNext(test.job, test.after)
<1> USE DEF Expect, Daily, Weekly, Monday, Sunday, At, AtSecond, March,
            UntilNext, UntilTime, UntilWeekly, TimeOfDay, Weekday, DayOf, DAY
<1>1. CASE test = daily_job_lt
  BY <1>1 DEF daily_job_lt
<1>2. CASE test = daily_job_gt
  BY <1>2 DEF daily_job_gt
<1>3. CASE test = daily_job_eq
  BY <1>3 DEF daily_job_eq
<1>4. CASE test = weekly_job_lt_sameday
  BY <1>4 DEF weekly_job_lt_sameday
<1>5. CASE test = weekly_job_lt
  BY <1>5 DEF weekly_job_lt
<1>6. CASE test = weekly_job_gt
  BY <1>6 DEF weekly_job_gt
<1>7. CASE test = weekly_job_eq
  BY <1>7 DEF weekly_job_eq
<1> HIDE DEF Expect, Daily, Weekly, Monday, Sunday, At, AtSecond, March,
             UntilNext, UntilTime, UntilWeekly, TimeOfDay, Weekday, DayOf, DAY
<1> QED
  BY <1>1, <1>2, <1>3, <1>4, <1>5, <1>6, <1>7

\* So do those about monthly jobs.
LEMMA MonthlyTests ==
    ASSUME NEW test \in { monthly_job_lt_sameday, monthly_job_lt,
                          monthly_job_gt, monthly_job_eq }
    PROVE  test.due = test.after + UntilNext(test.job, test.after)
<1> USE DEF Expect, Monthly, At, AtSecond, March, April,
            UntilNext, UntilTime, UntilMonthly, TimeOfDay, DayOf, DAY,
            DayOfMonth, DaysInMonth, DayOfYear, YearOfCycle, Month, MonthStart
<1>1. CASE test = monthly_job_lt_sameday
  BY <1>1 DEF monthly_job_lt_sameday
<1>2. CASE test = monthly_job_lt
  BY <1>2 DEF monthly_job_lt
<1>3. CASE test = monthly_job_gt
  BY <1>3 DEF monthly_job_gt
<1>4. CASE test = monthly_job_eq
  BY <1>4 DEF monthly_job_eq
<1> HIDE DEF Expect, Monthly, At, AtSecond, March, April,
             UntilNext, UntilTime, UntilMonthly, TimeOfDay, DayOf, DAY,
             DayOfMonth, DaysInMonth, DayOfYear, YearOfCycle, Month, MonthStart
<1> QED
  BY <1>1, <1>2, <1>3, <1>4

\* In every list and zone whose clocks show the instants of the unit tests
\* unchanged, the answers are those the tests expect.
THEOREM AlwaysAgreesWithTests ==
    ASSUME \A test \in UnitTests : Local(test.after) = test.after
    PROVE  Spec => []AgreesWithTests
<1>1. ASSUME ChainInv, NEW test \in UnitTests,
             Jobs[job] = test.job, after = test.after
      PROVE  due = test.due
  <2>1. due = test.after + UntilNext(test.job, test.after)
    BY <1>1, ChainFacts DEF NextInvocation
  <2> QED
    BY <2>1, DailyAndWeeklyTests, MonthlyTests DEF UnitTests
<1>2. ChainInv => AgreesWithTests
  BY <1>1 DEF AgreesWithTests
<1> QED
  BY <1>2, ChainInvariant, PTL

=============================================================================
