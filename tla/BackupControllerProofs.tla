----------------------- MODULE BackupControllerProofs ----------------------
(***************************************************************************)
(* Safety of the backup controller for every list of jobs, every clock     *)
(* change and every environment.                                           *)
(***************************************************************************)
EXTENDS BackupController, JobScheduleProofs

\* What the environment adds to the clock is never negative.
LEMMA EnvironmentNat ==
    /\ BootInstants \subseteq Nat /\ Delays \subseteq Nat
    /\ Lateness \subseteq Nat /\ SpuriousLeads \subseteq Nat
    /\ Durations \subseteq Nat /\ ReportTimes \subseteq Nat
    /\ RebootGaps \subseteq Nat /\ MaxReboots \in Nat
BY EnvironmentAssumption

\* The list has a head (next_job starts its fold with it) and holds schedules.
LEMMA JobIndexFacts ==
    /\ 1 \in JobIndex
    /\ \A j \in JobIndex : Jobs[j] \in Schedule
BY JobsAssumption, EnvironmentAssumption DEF JobIndex

\* Letting time pass keeps the clock a number that never runs backwards.
LEMMA ClockAdvances ==
    ASSUME now \in Nat
    PROVE  /\ \A S \in SUBSET Nat : Elapse(S) => now' \in Nat /\ now' >= now
           /\ \A t \in Nat : SleepTo(t) => now' \in Nat /\ now' >= t
BY EnvironmentNat DEF Elapse, SleepTo

\* The controller starts with nothing planned and nothing run.
LEMMA InitIInv == Init => IInv
<1> SUFFICES ASSUME Init
             PROVE  IInv
  OBVIOUS
<1>1. now \in Nat /\ 0 \in 0 .. MaxReboots
  BY EnvironmentNat DEF Init
<1>2. pc = "firstMinute" /\ pc \in PC
  BY DEF Init, PC
<1>3. /\ lastDue = [j \in JobIndex |-> 0]
      /\ nextJob \in JobIndex
  BY JobIndexFacts DEF Init, Never
<1>4. TypeOK
  <2>1. caffeinated \in BOOLEAN /\ spurious \in BOOLEAN
    BY DEF Init
  <2>2. lastDue \in [JobIndex -> Nat]
    BY <1>3
  <2>3. dueAt \in Nat /\ upSince \in Nat /\ reboots \in 0 .. MaxReboots
    BY <1>1 DEF Init, Never
  <2> QED
    BY <1>1, <1>2, <1>3, <2>1, <2>2, <2>3 DEF TypeOK
<1> QED
  BY <1>1, <1>2, <1>3, <1>4 DEF IInv, Planned

\* Every step of the program and of its environment preserves IInv: a plan is
\* for later than anything that ran, and the clock passes the due instant
\* before the job starts.
LEMMA NextIInv == IInv /\ [Next]_vars => IInv'
<1> SUFFICES ASSUME IInv, [Next]_vars
             PROVE  IInv'
  OBVIOUS
<1> USE DEF IInv, TypeOK, PC, Planned, machine, plan, history
<1>0. /\ now \in Nat
      /\ waketime \in Int /\ waketime = dueAt - 15
  BY DEF waketime, WAKEUP_BUFFER
<1>1. CASE FirstMinute
  <2>1. now' \in Nat /\ now' >= now
    BY <1>1, ClockAdvances DEF FirstMinute, GRACE
  <2> QED
    BY <1>1, <2>1 DEF FirstMinute
<1>2. CASE Plan
  <2>1. now' \in Nat /\ now' >= now
    BY <1>2, ClockAdvances, EnvironmentNat DEF Plan
  <2>2. /\ nextJob' \in JobIndex
        /\ dueAt' \in Nat /\ dueAt' > now
    BY <1>2, JobIndexFacts, NextInvocationLater DEF Plan
  <2> QED
    BY <1>2, <2>1, <2>2 DEF Plan
<1>3. CASE Suspend \/ StayAwake \/ HibernateTooLate
  BY <1>0, <1>3 DEF Suspend, StayAwake, HibernateTooLate, waketime
<1>4. CASE WakeUp
  <2>1. waketime \in Nat
    BY <1>0, <1>4 DEF WakeUp
  <2>2. now' \in Nat /\ now' >= now
    BY <1>0, <1>4, <2>1, ClockAdvances DEF WakeUp
  <2> QED
    BY <1>4, <2>2 DEF WakeUp
<1>5. CASE DueSoon \/ NotDueSoon
  <2>1. now' \in Nat /\ now' >= now
    BY <1>5, ClockAdvances, EnvironmentNat DEF DueSoon, NotDueSoon
  <2> QED
    BY <1>5, <2>1 DEF DueSoon, NotDueSoon
<1>6. CASE SitOut
  <2>1. now' \in Nat /\ now' >= now
    BY <1>6, ClockAdvances DEF SitOut, GRACE
  <2> QED
    BY <1>6, <2>1 DEF SitOut
<1>7. CASE SleepUntilDue \/ SleepUntilTooLate
  <2>1. CASE SleepUntilDue
    <3>1. now' \in Nat /\ now' >= dueAt
      BY <2>1, ClockAdvances DEF SleepUntilDue
    <3> QED
      BY <2>1, <3>1 DEF SleepUntilDue
  <2> QED
    BY <1>7, <2>1 DEF SleepUntilTooLate
<1>8. CASE StartJob
  BY <1>8 DEF StartJob
<1>9. CASE FinishJob \/ Report
  <2>1. now' \in Nat /\ now' >= now
    BY <1>9, ClockAdvances, EnvironmentNat DEF FinishJob, Report
  <2> QED
    BY <1>9, <2>1 DEF FinishJob, Report
<1>10. CASE Fail \/ ReportHangs
  BY <1>10 DEF Fail, ReportHangs
<1>11. CASE SpuriousWakeUp
  <2>1. now' \in Nat /\ now' >= now
    BY <1>11, JobIndexFacts, NextInvocationLater, EnvironmentNat, <1>0
       DEF SpuriousWakeUp
  <2> QED
    BY <1>11, <2>1 DEF SpuriousWakeUp
<1>12. CASE Caffeinate
  BY <1>12 DEF Caffeinate, waketime
<1>13. CASE Reboot
  <2>1. now' \in Nat /\ now' >= now
    BY <1>13, ClockAdvances, EnvironmentNat DEF Reboot
  <2>2. reboots' \in 0 .. MaxReboots
    BY <1>13, EnvironmentNat DEF Reboot
  <2>3. nextJob' \in JobIndex /\ dueAt' \in Nat
    BY <1>13, JobIndexFacts DEF Reboot, Never
  <2>4. spurious' \in BOOLEAN /\ caffeinated' \in BOOLEAN
    BY <1>13 DEF Reboot
  <2>5. lastDue' = lastDue /\ upSince' = upSince /\ pc' = "firstMinute"
    BY <1>13 DEF Reboot
  <2>6. TypeOK'
    BY <2>1, <2>2, <2>3, <2>4, <2>5
  <2> QED
    BY <2>1, <2>5, <2>6
<1>14. CASE UNCHANGED vars
  BY <1>14 DEF vars, waketime
<1> QED
  BY <1>1, <1>2, <1>3, <1>4, <1>5, <1>6, <1>7, <1>8, <1>9, <1>10, <1>11,
     <1>12, <1>13, <1>14 DEF Next, Program, Environment

\* IInv holds in every reachable state, for every job list, every clock change
\* and every environment.
THEOREM InductiveInvariant == Spec => []IInv
BY InitIInv, NextIInv, PTL DEF Spec

\* The controller's state stays well formed: in particular the clock readings
\* it computes with never leave the naturals.
THEOREM TypeCorrect == Spec => []TypeOK
<1>1. IInv => TypeOK
  BY DEF IInv
<1> QED
  BY <1>1, InductiveInvariant, PTL

\* No job runs before the instant it was planned for.
THEOREM NeverStartsEarly == Spec => []NeverEarly
<1>1. IInv => NeverEarly
  BY DEF IInv, NeverEarly, TypeOK
<1> QED
  BY <1>1, InductiveInvariant, PTL

\* Every start of a job is for a later instant than its last one.
THEOREM StartsAlwaysAdvance == Spec => StartsAdvance
<1>1. IInv => [pc = "start" /\ pc' = "running" => dueAt > lastDue[nextJob]]_vars
  BY DEF IInv, TypeOK, Planned
<1> QED
  BY <1>1, InductiveInvariant, PTL DEF StartsAdvance

-----------------------------------------------------------------------------
\* The controller starts as a runner that is awake and has run nothing.
LEMMA InitRunner == Init => Runner!Init
BY EnvironmentNat DEF Init, Runner!Init, RunningJob, Never

\* Every step of the controller is a step of the runner or leaves it as it is.
LEMMA NextRunner == IInv /\ IInv' /\ [Next]_vars => [Runner!Next]_(Runner!vars)
<1> SUFFICES ASSUME IInv, IInv', [Next]_vars
             PROVE  Runner!Next \/ UNCHANGED Runner!vars
  OBVIOUS
<1> USE DEF RunningJob, machine, plan, history
<1>0. /\ now \in Nat /\ now' \in Nat /\ dueAt \in Nat
      /\ waketime \in Int
      /\ nextJob \in JobIndex /\ 0 \notin JobIndex
      /\ lastDue \in [JobIndex -> Nat]
  <2>1. 0 \notin JobIndex
    BY JobsAssumption DEF JobIndex
  <2> QED
    BY <2>1 DEF IInv, TypeOK, waketime, WAKEUP_BUFFER
<1>1. CASE FirstMinute \/ Plan \/ DueSoon \/ NotDueSoon \/ SitOut
  <2>1. now' >= now
    BY <1>0, <1>1, ClockAdvances, EnvironmentNat
       DEF FirstMinute, Plan, DueSoon, NotDueSoon, SitOut, GRACE
  <2>2. Runner!Pass
    BY <1>0, <1>1, <2>1
       DEF FirstMinute, Plan, DueSoon, NotDueSoon, SitOut, Runner!Pass
  <2> QED
    BY <2>2 DEF Runner!Next
<1>2. CASE Suspend
  <2>1. Runner!Sleep
    BY <1>2 DEF Suspend, Runner!Sleep
  <2> QED
    BY <2>1 DEF Runner!Next
<1>3. CASE WakeUp
  <2>1. waketime \in Nat /\ now <= waketime
    BY <1>0, <1>3 DEF WakeUp, IInv
  <2>2. now' >= now
    BY <1>0, <1>3, <2>1, ClockAdvances DEF WakeUp
  <2>3. Runner!Wake
    BY <1>0, <1>3, <2>2 DEF WakeUp, Runner!Wake
  <2> QED
    BY <2>3 DEF Runner!Next
<1>4. CASE SpuriousWakeUp
  <2>1. now' >= now
    BY <1>0, <1>4, JobIndexFacts, NextInvocationLater, EnvironmentNat
       DEF SpuriousWakeUp
  <2>2. Runner!Wake
    BY <1>0, <1>4, <2>1 DEF SpuriousWakeUp, Runner!Wake
  <2> QED
    BY <2>2 DEF Runner!Next
<1>5. CASE SleepUntilDue
  <2>1. now' >= now
    BY <1>0, <1>5, ClockAdvances DEF SleepUntilDue
  <2>2. Runner!Pass
    BY <1>0, <1>5, <2>1 DEF SleepUntilDue, Runner!Pass
  <2> QED
    BY <2>2 DEF Runner!Next
<1>6. CASE StartJob
  <2>1. lastDue[nextJob] < dueAt /\ dueAt <= now
    BY <1>6 DEF StartJob, IInv, Planned
  <2>2. Runner!Start(nextJob)
    BY <1>0, <1>6, <2>1 DEF StartJob, Runner!Start
  <2> QED
    BY <1>0, <2>2 DEF Runner!Next
<1>7. CASE FinishJob
  <2>1. now' >= now
    BY <1>0, <1>7, ClockAdvances, EnvironmentNat DEF FinishJob
  <2>2. Runner!Pass
    BY <1>0, <1>7, <2>1 DEF FinishJob, Runner!Pass
  <2> QED
    BY <2>2 DEF Runner!Next
<1>8. CASE Report \/ (Fail /\ pc = "report")
  <2>1. now' >= now
    BY <1>0, <1>8, ClockAdvances, EnvironmentNat DEF Report, Fail
  <2>2. Runner!End
    BY <1>0, <1>8, <2>1 DEF Report, Fail, Runner!End
  <2> QED
    BY <2>2 DEF Runner!Next
<1>9. CASE Reboot
  <2>1. now' >= now
    BY <1>0, <1>9, ClockAdvances, EnvironmentNat DEF Reboot
  <2>2. CASE pc \in { "running", "report", "stuck" }
    <3>1. Runner!End
      BY <1>0, <1>9, <2>1, <2>2 DEF Reboot, Runner!End
    <3> QED
      BY <3>1 DEF Runner!Next
  <2>3. CASE pc \notin { "running", "report", "stuck" }
    <3>1. Runner!Wake
      BY <1>0, <1>9, <2>1, <2>3 DEF Reboot, Runner!Wake
    <3> QED
      BY <3>1 DEF Runner!Next
  <2> QED
    BY <2>2, <2>3
<1>10. CASE \/ StayAwake \/ HibernateTooLate \/ SleepUntilTooLate
            \/ (Fail /\ pc # "report") \/ ReportHangs \/ Caffeinate
            \/ UNCHANGED vars
  BY <1>0, <1>10
     DEF StayAwake, HibernateTooLate, SleepUntilTooLate, Fail, ReportHangs,
         Caffeinate, vars, Runner!vars
<1> QED
  BY <1>1, <1>2, <1>3, <1>4, <1>5, <1>6, <1>7, <1>8, <1>9, <1>10
     DEF Next, Program, Environment

\* The controller implements the runner: whatever the job list, the clock
\* changes and the environment, jobs run one at a time, on a machine that stays
\* awake for them, at or after an instant that is later than their last one.
THEOREM ControllerImplementsRunner == Spec => ImplementsRunner
BY InductiveInvariant, InitRunner, NextRunner, PTL
   DEF Spec, Runner!Spec, ImplementsRunner

-----------------------------------------------------------------------------
\* Two instants less than a wakeup buffer apart, the later one not right after
\* midnight, are on the same day.
LEMMA SameDay ==
    ASSUME NEW t \in Nat, NEW s \in Nat,
           s - WAKEUP_BUFFER < t, t < s, TimeOfDay(s) >= WAKEUP_BUFFER
    PROVE  /\ DayOf(t) = DayOf(s)
           /\ TimeOfDay(t) = TimeOfDay(s) - (s - t)
           /\ TimeOfDay(t) \in Nat
BY DEF DayOf, TimeOfDay, WAKEUP_BUFFER, DAY

\* Asked shortly before one of its occurrences, a job of any kind answers with
\* that occurrence: the inexact branches of next_invocation are all about
\* other days than today.
LEMMA ConfirmedShortlyBefore ==
    ASSUME NEW job \in Schedule, NEW t \in Nat, NEW s \in Nat,
           s - WAKEUP_BUFFER < t, t < s, Local(s) = Local(t) + (s - t),
           OccursAt(job, s), job.time >= WAKEUP_BUFFER
    PROVE  NextInvocation(job, t) = s
<1> DEFINE l == Local(t)
           shown == Local(s)
<1>1. l \in Nat /\ shown \in Nat /\ shown - l = s - t
  BY LocalRange
<1>2. /\ TimeOfDay(shown) = job.time
      /\ job.kind = "weekly" => Weekday(shown) = job.on
      /\ job.kind = "monthly" => DayOfMonth(shown) = job.on
  BY DEF OccursAt
<1> HIDE DEF l, shown
<1>3. /\ DayOf(l) = DayOf(shown)
      /\ TimeOfDay(l) = job.time - (s - t)
      /\ TimeOfDay(l) \in Nat
  <2>1. shown - WAKEUP_BUFFER < l /\ l < shown
    BY <1>1 DEF WAKEUP_BUFFER
  <2> QED
    BY <1>1, <1>2, <2>1, SameDay
<1>4. job.time \in Nat /\ job.kind \in { "daily", "weekly", "monthly" }
  BY SchedFields
<1>5. job.time > TimeOfDay(l) /\ UntilTime(job.time, l) = s - t
  BY <1>3, <1>4 DEF UntilTime
<1>6. CASE job.kind = "daily"
  BY <1>5, <1>6 DEF NextInvocation, UntilNext, l
<1>7. CASE job.kind = "weekly"
  <2>1. Weekday(l) = job.on /\ job.on \in 0 .. 6
    BY <1>2, <1>3, <1>7 DEF Weekday, Schedule
  <2>2. UntilWeekly(job.on, job.time, l) = s - t
    BY <1>3, <1>4, <1>5, <2>1 DEF UntilWeekly
  <2> QED
    BY <1>7, <2>2 DEF NextInvocation, UntilNext, l
<1>8. CASE job.kind = "monthly"
  <2>1. DayOfMonth(l) = job.on /\ job.on \in 1 .. 31
    BY <1>2, <1>3, <1>8 DEF DayOfMonth, Schedule
  <2>2. UntilMonthly(job.on, job.time, l) = s - t
    BY <1>3, <1>4, <1>5, <2>1 DEF UntilMonthly
  <2> QED
    BY <1>8, <2>2 DEF NextInvocation, UntilNext, l
<1> QED
  BY <1>4, <1>6, <1>7, <1>8

\* With no job in the first seconds of a day and no change of the clock in the
\* seconds before one is due, a machine that is awake just before a planned
\* occurrence runs the job: the recheck of is_due_within never takes that
\* wakeup for a spurious one.
THEOREM RecheckAlwaysConfirms ==
    ASSUME \A j \in JobIndex : Jobs[j].time >= WAKEUP_BUFFER
    PROVE  Spec => [](EvenUntil(now, dueAt) => RecheckConfirms)
<1>1. ASSUME TypeOK, EvenUntil(now, dueAt), waketime < now, now < dueAt
      PROVE  Local(dueAt) = Local(now) + (dueAt - now)
  <2>1. now \in Nat /\ dueAt \in Nat
    BY <1>1 DEF TypeOK
  <2>2. Local(dueAt) - dueAt = Local(now) - now
    BY <1>1, <2>1 DEF EvenUntil
  <2> QED
    BY <2>1, <2>2, LocalRange
<1>2. TypeOK => (EvenUntil(now, dueAt) => RecheckConfirms)
  BY <1>1, JobIndexFacts, ConfirmedShortlyBefore
     DEF TypeOK, RecheckConfirms, waketime
<1> QED
  BY <1>2, TypeCorrect, PTL

-----------------------------------------------------------------------------
\* Whatever the kind of a job, next_invocation answers with an instant of its
\* schedule or with one that is a day off.
LEMMA AnswersOnScheduleOrDayOff ==
    ASSUME NEW job \in Schedule, job.on <= 28, NEW t \in Nat, EvenAhead(t)
    PROVE  OnScheduleOrDayOff(job, NextInvocation(job, t))
<1> DEFINE s == NextInvocation(job, t)
<1>1. s \in Nat /\ DAY \in Nat
  BY NextInvocationLater DEF DAY
<1>2. job.kind \in { "daily", "weekly", "monthly" }
  BY SchedFields
<1>3. CASE job.kind = "daily"
  BY <1>3, DailyIsNext DEF IsNextOccurrence, OnScheduleOrDayOff
<1>4. CASE job.kind = "weekly"
  <2>1. OccursAt(job, s - DAY) \/ OccursAt(job, s)
    BY <1>4, WeeklyIsNextOrDayLate DEF IsNextOccurrence
  <2> QED
    BY <1>4, <2>1 DEF OnScheduleOrDayOff
<1>5. CASE job.kind = "monthly"
  <2>1. OccursAt(job, OnTheDay(job, t))
    BY <1>5, MonthlyIsNextOrDayOff DEF IsNextOccurrence
  <2>2. OnTheDay(job, t) \in { s, s - DAY, s + DAY }
    BY DEF OnTheDay
  <2> QED
    BY <1>5, <2>1, <2>2 DEF OnScheduleOrDayOff
<1> QED
  BY <1>2, <1>3, <1>4, <1>5

\* What RunsOnScheduleOrDayOff rests on: the plan at hand is on schedule too,
\* and the clock is not behind the first boot.
PlansOnSchedule ==
    /\ RunsOnScheduleOrDayOff
    /\ pc \in Planned => OnScheduleOrDayOff(Jobs[nextJob], dueAt)
    /\ \E boot \in BootInstants : boot <= now

\* No step of the controller runs the clock backwards.
LEMMA ClockNeverBack == IInv /\ [Next]_vars => now' >= now
<1> SUFFICES ASSUME IInv, [Next]_vars
             PROVE  now' >= now
  OBVIOUS
<1>1. /\ now \in Nat /\ dueAt \in Nat
      /\ waketime \in Int
  BY DEF IInv, TypeOK, waketime, WAKEUP_BUFFER
<1>2. CASE FirstMinute \/ SitOut
  BY <1>1, <1>2, ClockAdvances DEF FirstMinute, SitOut, GRACE
<1>3. CASE \/ Plan \/ DueSoon \/ NotDueSoon \/ FinishJob \/ Report \/ Reboot
  BY <1>1, <1>3, ClockAdvances, EnvironmentNat
     DEF Plan, DueSoon, NotDueSoon, FinishJob, Report, Reboot
<1>4. CASE WakeUp
  <2>1. waketime \in Nat /\ now <= waketime
    BY <1>1, <1>4 DEF WakeUp, IInv
  <2> QED
    BY <1>1, <1>4, <2>1, ClockAdvances DEF WakeUp
<1>5. CASE SleepUntilDue
  BY <1>1, <1>5, ClockAdvances DEF SleepUntilDue
<1>6. CASE SpuriousWakeUp
  BY <1>1, <1>6, JobIndexFacts, NextInvocationLater, EnvironmentNat
     DEF SpuriousWakeUp
<1>7. CASE \/ Suspend \/ StayAwake \/ HibernateTooLate \/ SleepUntilTooLate
           \/ StartJob \/ Fail \/ ReportHangs \/ Caffeinate \/ UNCHANGED vars
  BY <1>1, <1>7
     DEF Suspend, StayAwake, HibernateTooLate, SleepUntilTooLate, StartJob,
         Fail, ReportHangs, Caffeinate, vars
<1> QED
  BY <1>2, <1>3, <1>4, <1>5, <1>6, <1>7 DEF Next, Program, Environment

\* When no month lacks the day of a monthly job and the clock is not changed
\* from the first boot to five weeks after the last plan, every job that is
\* run, after whatever wakeups and reboots, is run for an instant of its
\* schedule or for the day by which next_invocation is off.
THEOREM RunsAlwaysOnScheduleOrDayOff ==
    ASSUME \A j \in JobIndex : Jobs[j].on <= 28,
           \A boot \in BootInstants, t \in Nat :
              boot <= t /\ t <= Horizon => EvenAhead(t)
    PROVE  Spec => []RunsOnScheduleOrDayOff
<1>1. ASSUME Init
      PROVE  PlansOnSchedule
  <2>1. now \in BootInstants /\ now <= now
    BY <1>1, EnvironmentNat DEF Init
  <2> QED
    BY <1>1, <2>1 DEF Init, PlansOnSchedule, RunsOnScheduleOrDayOff, Planned
<1>2. PlansOnSchedule /\ IInv /\ [Next]_vars => PlansOnSchedule'
  <2> SUFFICES ASSUME PlansOnSchedule, IInv, [Next]_vars
               PROVE  PlansOnSchedule'
    OBVIOUS
  <2> USE DEF plan, history, machine
  <2>1. \E boot \in BootInstants : boot <= now'
    <3>1. PICK boot \in BootInstants : boot <= now
      BY DEF PlansOnSchedule
    <3>2. boot \in Nat /\ now \in Nat /\ now' >= now
      BY ClockNeverBack, EnvironmentNat DEF IInv, TypeOK
    <3>3. now' \in Nat
      BY NextIInv DEF IInv, TypeOK
    <3> QED
      BY <3>1, <3>2, <3>3
  <2>2. CASE Plan
    <3>1. PICK j \in JobIndex :
             nextJob' = j /\ dueAt' = NextInvocation(Jobs[j], now)
      BY <2>2 DEF Plan
    <3>2. now \in Nat /\ now <= Horizon /\ EvenAhead(now)
      BY <2>2 DEF Plan, PlansOnSchedule, IInv, TypeOK
    <3>3. OnScheduleOrDayOff(Jobs[nextJob'], dueAt')
      BY <3>1, <3>2, JobIndexFacts, AnswersOnScheduleOrDayOff
    <3> QED
      BY <2>1, <2>2, <3>3 DEF Plan, PlansOnSchedule, RunsOnScheduleOrDayOff
  <2>3. CASE StartJob
    <3>1. /\ OnScheduleOrDayOff(Jobs[nextJob], dueAt)
          /\ lastDue' = [lastDue EXCEPT ![nextJob] = dueAt]
          /\ nextJob' = nextJob /\ dueAt' = dueAt
      BY <2>3 DEF StartJob, PlansOnSchedule, Planned
    <3>2. lastDue \in [JobIndex -> Nat] /\ nextJob \in JobIndex
      BY DEF IInv, TypeOK
    <3>3. RunsOnScheduleOrDayOff'
      BY <3>1, <3>2 DEF PlansOnSchedule, RunsOnScheduleOrDayOff
    <3> QED
      BY <2>1, <2>3, <3>1, <3>3 DEF StartJob, PlansOnSchedule, Planned
  <2>4. CASE ~Plan /\ ~StartJob
    <3>1. /\ lastDue' = lastDue
          /\ pc' \in Planned =>
                pc \in Planned /\ nextJob' = nextJob /\ dueAt' = dueAt
      BY <2>4
         DEF Next, Program, Environment, FirstMinute, Suspend, StayAwake,
             HibernateTooLate, WakeUp, DueSoon, NotDueSoon, SitOut,
             SleepUntilDue, SleepUntilTooLate, FinishJob, Report, Fail,
             ReportHangs, SpuriousWakeUp, Caffeinate, Reboot, vars, Planned
    <3> QED
      BY <2>1, <3>1 DEF PlansOnSchedule, RunsOnScheduleOrDayOff
  <2> QED
    BY <2>2, <2>3, <2>4
<1>3. PlansOnSchedule => RunsOnScheduleOrDayOff
  BY DEF PlansOnSchedule
<1> QED
  BY <1>1, <1>2, <1>3, InductiveInvariant, PTL DEF Spec

-----------------------------------------------------------------------------
(***************************************************************************)
(* A calm environment.                                                     *)
(***************************************************************************)

\* A delta of next_invocation is one to the time of the job and some whole days,
\* at most 31 in all.
LEMMA UntilNextByDays ==
    ASSUME NEW sched \in Schedule, NEW after \in Nat
    PROVE  \E n \in 0 .. 30 :
              UntilNext(sched, after) = UntilTime(sched.time, after) + DAY * n
<1> DEFINE hours == UntilTime(sched.time, after)
<1>1. /\ sched.time \in Nat /\ sched.time < DAY
      /\ sched.kind \in { "daily", "weekly", "monthly" }
      /\ TimeOfDay(after) \in Nat
  BY SchedFields, CalendarRanges
<1>2. hours \in Nat /\ hours >= 1
  BY <1>1, UntilTimeRange
<1>3. CASE sched.kind = "daily"
  <2>1. UntilNext(sched, after) = hours + DAY * 0
    BY <1>2, <1>3 DEF UntilNext, DAY
  <2> QED
    BY <2>1
<1>4. CASE sched.kind = "weekly"
  <2>1. sched.on \in 0 .. 6 /\ Weekday(after) \in 0 .. 6
    BY <1>4, SchedFields, CalendarRanges
  <2> HIDE DEF hours
  <2>2. \E n \in 0 .. 30 :
           UntilWeekly(sched.on, sched.time, after) = hours + DAY * n
    <3>1. hours = hours + DAY * 0
      BY <1>2 DEF DAY
    <3>2. CASE Weekday(after) = sched.on /\ sched.time > TimeOfDay(after)
      <4>1. UntilWeekly(sched.on, sched.time, after) = hours
        BY <1>1, <2>1, <3>2 DEF UntilWeekly, hours
      <4> QED
        BY <3>1, <4>1
    <3>3. CASE Weekday(after) = sched.on /\ sched.time <= TimeOfDay(after)
      <4>1. UntilWeekly(sched.on, sched.time, after) = hours + DAY * 6
        BY <1>1, <1>2, <2>1, <3>3 DEF UntilWeekly, hours
      <4> QED
        BY <4>1
    <3>4. CASE Weekday(after) < sched.on
      <4>1. UntilWeekly(sched.on, sched.time, after)
               = hours + DAY * (sched.on - Weekday(after))
        BY <1>1, <1>2, <2>1, <3>4 DEF UntilWeekly, hours
      <4> QED
        BY <2>1, <3>4, <4>1
    <3>5. CASE Weekday(after) > sched.on
      <4>1. UntilWeekly(sched.on, sched.time, after)
               = hours + DAY * (7 - (Weekday(after) - sched.on))
        BY <1>1, <1>2, <2>1, <3>5 DEF UntilWeekly, hours
      <4>2. 7 - (Weekday(after) - sched.on) \in 0 .. 30
        BY <2>1, <3>5
      <4> QED
        BY <4>1, <4>2
    <3> QED
      BY <1>1, <2>1, <3>2, <3>3, <3>4, <3>5
  <2> QED
    BY <1>4, <2>2 DEF UntilNext, hours
<1>5. CASE sched.kind = "monthly"
  <2> DEFINE today == DayOfMonth(after)
             last == DaysInMonth(after)
  <2>1. /\ sched.on \in 1 .. 31 /\ last \in 28 .. 31
        /\ today \in Nat /\ 1 <= today /\ today <= last
    <3>1. DaysInMonth(after) \in 28 .. 31
      BY MonthOfDay, LengthRange
    <3> QED
      BY <1>5, <3>1, SchedFields, MonthRanges
  <2> HIDE DEF hours, today, last
  <2>2. \E n \in 0 .. 30 :
           UntilMonthly(sched.on, sched.time, after) = hours + DAY * n
    <3>1. hours = hours + DAY * 0
      BY <1>2 DEF DAY
    <3>2. CASE today = sched.on /\ sched.time > TimeOfDay(after)
      <4>1. UntilMonthly(sched.on, sched.time, after) = hours
        BY <1>1, <2>1, <3>2 DEF UntilMonthly, hours, today
      <4> QED
        BY <3>1, <4>1
    <3>3. CASE today < sched.on
      <4>1. UntilMonthly(sched.on, sched.time, after)
               = hours + DAY * (sched.on - today)
        BY <1>1, <1>2, <2>1, <3>3 DEF UntilMonthly, hours, today
      <4>2. sched.on - today \in 0 .. 30
        BY <2>1, <3>3
      <4> QED
        BY <4>1, <4>2
    <3>4. CASE \/ today > sched.on
               \/ today = sched.on /\ sched.time <= TimeOfDay(after)
      <4>1. UntilMonthly(sched.on, sched.time, after)
               = hours + DAY * (last - today + sched.on - 1)
        BY <1>1, <1>2, <2>1, <3>4 DEF UntilMonthly, hours, today, last
      <4>2. last - today + sched.on - 1 \in 0 .. 30
        BY <2>1, <3>4
      <4> QED
        BY <4>1, <4>2
    <3> QED
      BY <1>1, <2>1, <3>2, <3>3, <3>4
  <2> QED
    BY <1>5, <2>2 DEF UntilNext, hours
<1> QED
  BY <1>1, <1>3, <1>4, <1>5

\* When the time that UntilTime gives is over, the clock shows the time.
LEMMA UntilTimeShows ==
    ASSUME NEW time \in Nat, time < DAY, NEW l \in Nat, NEW n \in Nat
    PROVE  TimeOfDay(l + UntilTime(time, l) + DAY * n) = time
BY DEF UntilTime, TimeOfDay, DAY

\* The clock shows a time at no later instant, up to a day, than at the one
\* UntilTime gives.
LEMMA FirstShown ==
    ASSUME NEW time \in Nat, time < DAY, NEW l \in Nat, NEW y \in Nat,
           1 <= y, y <= DAY, TimeOfDay(l + y) = time
    PROVE  y = UntilTime(time, l)
BY DEF UntilTime, TimeOfDay, DAY

\* What the clock shows runs on with time, but for an hour when it is changed.
LEMMA ChangedBetween ==
    ASSUME NEW s \in Nat, NEW t \in Nat, s <= t
    PROVE  \/ Local(t) = Local(s) + (t - s)
           \/ /\ Local(t) = Local(s) + (t - s) + HOUR
              /\ s < SummerStart /\ SummerStart <= t
           \/ /\ Local(t) = Local(s) + (t - s) - HOUR
              /\ s < SummerEnd /\ SummerEnd <= t
BY SummerAssumption DEF Local, HOUR

\* A job that the clock is going to show on the day it shows now is due then.
LEMMA DueToday ==
    ASSUME NEW job \in Schedule, NEW l \in Nat, NEW y \in Nat,
           Shows(job, l + y), DayOf(l + y) = DayOf(l), job.time > TimeOfDay(l)
    PROVE  UntilNext(job, l) = job.time - TimeOfDay(l)
<1>1. /\ job.time \in Nat /\ TimeOfDay(l) \in Nat
      /\ job.kind \in { "daily", "weekly", "monthly" }
  BY SchedFields, CalendarRanges
<1>2. UntilTime(job.time, l) = job.time - TimeOfDay(l)
  BY <1>1 DEF UntilTime
<1>3. CASE job.kind = "daily"
  BY <1>2, <1>3 DEF UntilNext
<1>4. CASE job.kind = "weekly"
  <2>1. Weekday(l) = job.on /\ job.on \in 0 .. 6
    BY <1>4, SchedFields DEF Shows, Weekday
  <2>2. UntilWeekly(job.on, job.time, l) = UntilTime(job.time, l)
    BY <1>1, <1>2, <2>1 DEF UntilWeekly
  <2> QED
    BY <1>2, <1>4, <2>2 DEF UntilNext
<1>5. CASE job.kind = "monthly"
  <2>1. DayOfMonth(l) = job.on /\ job.on \in 1 .. 31
    BY <1>5, SchedFields DEF Shows, DayOfMonth
  <2>2. UntilMonthly(job.on, job.time, l) = UntilTime(job.time, l)
    BY <1>1, <1>2, <2>1 DEF UntilMonthly
  <2> QED
    BY <1>2, <1>5, <2>2 DEF UntilNext
<1> QED
  BY <1>1, <1>3, <1>4, <1>5

\* A job of the first of the month is due at the right time when it is asked
\* about on the last day of a month: the day that the hours already reach into
\* tomorrow is the one that the branch takes off (job.rs:63-70).
LEMMA DueOnTheFirst ==
    ASSUME NEW job \in Schedule, job.kind = "monthly", job.on = 1,
           NEW l \in Nat, NEW y \in Nat,
           DayOfMonth(l + y) = 1, DayOf(l + y) = DayOf(l) + 1
    PROVE  UntilNext(job, l) = UntilTime(job.time, l)
<1> DEFINE today == DayOfMonth(l)
           last == DaysInMonth(l)
           hours == UntilTime(job.time, l)
<1>1. /\ today \in Nat /\ 1 <= today /\ today <= last /\ last \in 28 .. 31
  BY MonthRanges, MonthOfDay, LengthRange
<1>2. hours \in Nat
  BY SchedFields, UntilTimeRange
<1>3. today = last
  <2> SUFFICES ASSUME today # last PROVE FALSE
    OBVIOUS
  <2>1. today + 1 \in Nat /\ today + 1 >= 1 /\ today + 1 <= last
    BY <1>1
  <2>2. l + y \in Nat /\ DayOf(l + y) = DayOf(l) + ((today + 1) - today)
    BY <1>1
  <2>3. DayOfMonth(l + y) = today + 1
    BY <2>1, <2>2, DaysAhead
  <2> QED
    BY <1>1, <2>3
<1> HIDE DEF today, last, hours
<1>4. today > 1 /\ last - today + 1 - 1 = 0
  BY <1>1, <1>3
<1>5. UntilMonthly(1, job.time, l) = hours + DAY * (last - today + 1 - 1)
  BY <1>4, <1>1 DEF UntilMonthly, today, last, hours
<1>6. UntilMonthly(1, job.time, l) = hours
  BY <1>2, <1>4, <1>5 DEF DAY
<1> QED
  BY <1>6 DEF UntilNext, hours

\* Asked in the time up to the next invocation of a daily job, a job that comes
\* around answers with its occurrence.
LEMMA AnsweredInTime ==
    ASSUME NEW job \in Schedule, NEW daily \in Schedule, daily.kind = "daily",
           \/ daily = job
           \/ daily.time < job.time
           \/ job.kind = "monthly" /\ job.on = 1,
           NEW t \in Nat, NEW s \in Nat,
           t < s, s <= NextInvocation(daily, t),
           Local(s) = Local(t) + (s - t), OccursAt(job, s)
    PROVE  NextInvocation(job, t) = s
<1> DEFINE l == Local(t)
           y == s - t
<1>1. /\ job.time \in Nat /\ job.time < DAY
      /\ daily.time \in Nat /\ daily.time < DAY
      /\ l \in Nat /\ TimeOfDay(l) \in Nat /\ TimeOfDay(l) < DAY
  BY SchedFields, LocalClock
<1>2. /\ y \in Nat /\ 1 <= y /\ y <= UntilTime(daily.time, l) /\ s = t + y
      /\ y <= DAY /\ Local(s) = l + y
  <2>1. NextInvocation(daily, t) = t + UntilTime(daily.time, l)
    BY DEF NextInvocation, UntilNext
  <2>2. UntilTime(daily.time, l) \in Nat /\ UntilTime(daily.time, l) <= DAY
    BY <1>1, UntilTimeRange
  <2> QED
    BY <2>1, <2>2 DEF DAY
<1>3. Shows(job, l + y)
  BY <1>2, OccursAtShows
<1> HIDE DEF l, y
<1>4. y = UntilTime(job.time, l)
  BY <1>1, <1>2, <1>3, FirstShown DEF Shows
<1>5. UntilNext(job, l) = y
  <2>1. CASE job.time > TimeOfDay(l)
    <3>1. y = job.time - TimeOfDay(l)
      BY <1>4, <2>1 DEF UntilTime
    <3>2. DayOf(l + y) = DayOf(l)
      BY <1>1, <3>1, <2>1, <1>2 DEF DayOf, TimeOfDay, DAY
    <3> QED
      BY <1>1, <1>2, <1>3, <2>1, <3>1, <3>2, DueToday
  <2>2. CASE job.time <= TimeOfDay(l)
    <3>1. y = DAY + (job.time - TimeOfDay(l))
      BY <1>1, <1>4, <2>2 DEF UntilTime
    <3>2. CASE daily = job
      BY <1>4, <3>2 DEF UntilNext
    <3>3. CASE daily.time < job.time
      <4>1. UntilTime(daily.time, l) = DAY + (daily.time - TimeOfDay(l))
        BY <1>1, <2>2, <3>3 DEF UntilTime
      <4> QED
        BY <1>1, <1>2, <3>1, <3>3, <4>1 DEF DAY
    <3>4. CASE job.kind = "monthly" /\ job.on = 1
      <4>1. DayOf(l + y) = DayOf(l) + 1
        BY <1>1, <3>1, <2>2, <1>2 DEF DayOf, TimeOfDay, DAY
      <4>2. DayOfMonth(l + y) = 1
        BY <1>3, <3>4 DEF Shows
      <4> QED
        BY <1>1, <1>2, <1>4, <3>4, <4>1, <4>2, DueOnTheFirst
    <3> QED
      BY <3>2, <3>3, <3>4
  <2> QED
    BY <1>1, <2>1, <2>2
<1> QED
  BY <1>2, <1>5 DEF NextInvocation, l

\* The plan at hand was made at p, for an instant at which the clock of then
\* shows the time of the job.
MadeAt(p) ==
    /\ p <= now /\ p <= dueAt
    /\ \E boot \in BootInstants : boot <= p
    /\ TimeOfDay(Local(p) + (dueAt - p)) = Jobs[nextJob].time

PlanHeld == \E p \in Nat : MadeAt(p)

\* Where the clock is at each step of the loop.
InTime ==
    /\ pc = "firstMinute" => now \in BootInstants
    /\ pc = "plan" =>
          \/ \E boot \in BootInstants, late \in Lateness :
                now = boot + GRACE + late
          \/ PlanHeld /\ \E x \in ReplansAfter : now = dueAt + x
    /\ pc \in Planned \cup { "running", "report", "grace" } => PlanHeld
    /\ pc = "check" => \E late \in Lateness : now = waketime + late
    /\ pc \in { "due", "grace" } =>
          \E late \in Lateness, d \in Delays : now = waketime + late + d
    /\ pc \in { "start", "running" } =>
          \E late \in Lateness : now = dueAt + late
    /\ pc = "report" =>
          \E late \in Lateness, took \in Durations : now = dueAt + late + took

\* A plan is for an instant at which the clock will show the time of the job if
\* it is not changed.
LEMMA PlanShows ==
    ASSUME NEW job \in Schedule, NEW t \in Nat
    PROVE  TimeOfDay(Local(t) + (NextInvocation(job, t) - t)) = job.time
<1>1. /\ Local(t) \in Nat /\ job.time \in Nat /\ job.time < DAY
  BY LocalRange, SchedFields
<1>2. PICK n \in 0 .. 30 :
         UntilNext(job, Local(t)) = UntilTime(job.time, Local(t)) + DAY * n
  BY <1>1, UntilNextByDays
<1>3. UntilTime(job.time, Local(t)) \in Nat
  BY <1>1, UntilTimeRange
<1>4. NextInvocation(job, t) - t = UntilTime(job.time, Local(t)) + DAY * n
  BY <1>2, <1>3 DEF NextInvocation, DAY
<1>5. Local(t) + (NextInvocation(job, t) - t)
         = Local(t) + UntilTime(job.time, Local(t)) + DAY * n
  BY <1>1, <1>3, <1>4 DEF DAY
<1>6. TimeOfDay(Local(t) + UntilTime(job.time, Local(t)) + DAY * n) = job.time
  BY <1>1, UntilTimeShows
<1> QED
  BY <1>5, <1>6

\* The time of day runs on with the clock, and with its changes.
LEMMA TimeRunsOn ==
    ASSUME NEW l \in Nat, NEW z \in Int, -DAY <= z, l + z \in Nat
    PROVE  TimeOfDay(l + z) = TimeOfDay(DAY + TimeOfDay(l) + z)
<1> DEFINE q == l \div 86400
           r == l % 86400
           m == 86400 + r + z
<1>1. /\ q \in Nat /\ r \in Nat /\ r < 86400 /\ l = 86400 * q + r
      /\ m \in Nat
  BY DEF DAY
<1> HIDE DEF q, r
<1>2. CASE q = 0
  <2>1. m = (l + z) + 86400
    BY <1>1, <1>2
  <2>2. (l + z) % 86400 = m % 86400
    BY <1>1, <2>1
  <2> QED
    BY <2>2 DEF TimeOfDay, DAY, r
<1>3. CASE q >= 1
  <2>1. l + z = m + 86400 * (q - 1)
    BY <1>1, <1>3
  <2>2. (l + z) % 86400 = m % 86400
    BY <1>1, <1>3, <2>1
  <2> QED
    BY <2>2 DEF TimeOfDay, DAY, r
<1> QED
  BY <1>1, <1>2, <1>3

\* A plan is made after the first minute, or at a time of day that the job before
\* it, its length and the changes of the clock decide.
LEMMA PlanTimes ==
    ASSUME IInv, InTime, pc = "plan", now <= Horizon
    PROVE  /\ \E boot \in BootInstants : boot <= now
           /\ \/ \E boot \in BootInstants, late \in Lateness :
                    now = boot + GRACE + late
              \/ \E x \in ReplansAfter, y \in ClockShifts :
                    /\ x \in Nat
                    /\ TimeOfDay(Local(now))
                          = TimeOfDay(DAY + Jobs[nextJob].time + x + y)
<1>1. /\ now \in Nat /\ dueAt \in Nat /\ Horizon \in Nat
      /\ Jobs[nextJob].time \in Nat
  BY EnvironmentAssumption, JobIndexFacts, SchedFields DEF IInv, TypeOK
<1>2. ReplansAfter \subseteq Nat
  BY EnvironmentNat DEF ReplansAfter, AfterRun, AfterSitOut, GRACE, WAKEUP_BUFFER
<1>3. CASE \E boot \in BootInstants, late \in Lateness :
              now = boot + GRACE + late
  <2>1. \E boot \in BootInstants : boot <= now
    BY <1>3, EnvironmentNat DEF GRACE
  <2> QED
    BY <1>3, <2>1
<1>4. ASSUME NEW p \in Nat, MadeAt(p), NEW x \in ReplansAfter, now = dueAt + x
      PROVE  /\ \E boot \in BootInstants : boot <= now
             /\ x \in Nat
             /\ \E y \in ClockShifts :
                   TimeOfDay(Local(now))
                      = TimeOfDay(DAY + Jobs[nextJob].time + x + y)
  <2> DEFINE l == Local(p) + (dueAt - p)
  <2>1. /\ p <= now /\ p <= dueAt /\ x \in Nat
        /\ TimeOfDay(l) = Jobs[nextJob].time
        /\ l \in Nat /\ Local(p) \in Nat
    BY <1>1, <1>2, <1>4, LocalRange DEF MadeAt
  <2>2. PICK boot \in BootInstants : boot <= p
    BY <1>4 DEF MadeAt
  <2>3. boot \in Nat /\ boot <= now
    BY <1>1, <2>1, <2>2, EnvironmentNat
  <2>4. PICK y \in ClockShifts :
           /\ y \in Int /\ -HOUR <= y
           /\ Local(now) = Local(p) + (now - p) + y
    <3>1. CASE Local(now) = Local(p) + (now - p)
      <4>1. 0 \in ClockShifts
        BY DEF ClockShifts, HOUR
      <4> QED
        BY <1>1, <2>1, <3>1, <4>1 DEF HOUR
    <3>2. CASE /\ Local(now) = Local(p) + (now - p) + HOUR
               /\ p < SummerStart /\ SummerStart <= now
      <4>1. boot < SummerStart /\ SummerStart <= Horizon
        BY <1>1, <2>2, <2>3, <3>2, SummerAssumption
      <4>2. HOUR \in ClockShifts
        BY <4>1 DEF ClockShifts, HOUR
      <4> QED
        BY <3>2, <4>2 DEF HOUR
    <3>3. CASE /\ Local(now) = Local(p) + (now - p) - HOUR
               /\ p < SummerEnd /\ SummerEnd <= now
      <4>1. boot < SummerEnd /\ SummerEnd <= Horizon
        BY <1>1, <2>2, <2>3, <3>3, SummerAssumption
      <4>2. -HOUR \in ClockShifts
        BY <4>1 DEF ClockShifts, HOUR
      <4>3. Local(now) = Local(p) + (now - p) + (-HOUR)
        BY <1>1, <2>1, <3>3 DEF HOUR
      <4> QED
        BY <4>2, <4>3 DEF HOUR
    <3> QED
      BY <1>1, <2>1, <3>1, <3>2, <3>3, ChangedBetween
  <2>5. Local(now) = l + (x + y)
    BY <1>1, <1>4, <2>1, <2>4
  <2>6. /\ x + y \in Int /\ -DAY <= x + y
        /\ DAY + Jobs[nextJob].time + (x + y) = DAY + Jobs[nextJob].time + x + y
    BY <1>1, <2>1, <2>4 DEF DAY, HOUR
  <2> HIDE DEF l
  <2>7. TimeOfDay(Local(now)) = TimeOfDay(DAY + Jobs[nextJob].time + x + y)
    <3> DEFINE z == x + y
    <3>1. z \in Int /\ -DAY <= z /\ l + z \in Nat
      BY <1>1, <2>5, <2>6, LocalRange
    <3> HIDE DEF z
    <3>2. TimeOfDay(l + z) = TimeOfDay(DAY + TimeOfDay(l) + z)
      BY <2>1, <3>1, TimeRunsOn
    <3>3. TimeOfDay(Local(now)) = TimeOfDay(DAY + Jobs[nextJob].time + z)
      BY <2>1, <2>5, <3>2 DEF z
    <3> QED
      BY <2>6, <3>3 DEF z
  <2> QED
    BY <2>1, <2>3, <2>7
<1> QED
  BY <1>3, <1>4 DEF InTime, PlanHeld

\* The first minute starts when the machine is switched on.
LEMMA InitInTime == Init => InTime
BY DEF Init, InTime, Planned

\* The next plan after a job or after a recheck that does not agree.
LEMMA ReplanTime ==
    ASSUME IInv, InTime, SitOut \/ Report
    PROVE  \E x \in ReplansAfter : x \in Nat /\ now' = dueAt + x
<1>1. /\ dueAt \in Nat /\ waketime = dueAt - WAKEUP_BUFFER
      /\ Lateness \subseteq Nat /\ Delays \subseteq Nat
      /\ Durations \subseteq Nat /\ ReportTimes \subseteq Nat
  BY EnvironmentNat DEF IInv, TypeOK, waketime
<1>2. CASE SitOut
  <2>1. PICK late \in Lateness, d \in Delays : now = waketime + late + d
    BY <1>2 DEF SitOut, InTime
  <2>2. PICK late2 \in Lateness : now' = now + GRACE + late2
    BY <1>2 DEF SitOut, SleepTo
  <2> DEFINE x == late + d + late2 + (GRACE - WAKEUP_BUFFER)
  <2>3. x \in ReplansAfter
    BY DEF ReplansAfter, AfterSitOut
  <2>4. x \in Nat /\ now' = dueAt + x
    BY <1>1, <2>1, <2>2 DEF GRACE, WAKEUP_BUFFER
  <2> QED
    BY <2>3, <2>4
<1>3. CASE Report
  <2>1. PICK late \in Lateness, took \in Durations : now = dueAt + late + took
    BY <1>3 DEF Report, InTime
  <2>2. PICK mailed \in ReportTimes : now' = now + mailed
    BY <1>3 DEF Report, Elapse
  <2> DEFINE x == late + took + mailed
  <2>3. x \in ReplansAfter
    BY DEF ReplansAfter, AfterRun
  <2>4. x \in Nat /\ now' = dueAt + x
    BY <1>1, <2>1, <2>2
  <2> QED
    BY <2>3, <2>4
<1> QED
  BY <1>2, <1>3

\* In a calm environment the steps of the loop follow one another in these times.
LEMMA NextInTime ==
    ASSUME Undisturbed, IInv, InTime, [Next]_vars
    PROVE  InTime'
<1> USE DEF machine, plan, history
<1>1. /\ now \in Nat /\ dueAt \in Nat /\ nextJob \in JobIndex
      /\ lastDue \in [JobIndex -> Nat]
      /\ waketime \in Int /\ waketime = dueAt - WAKEUP_BUFFER
      /\ Lateness \subseteq Nat /\ Delays \subseteq Nat
      /\ Durations \subseteq Nat /\ ReportTimes \subseteq Nat
  BY EnvironmentNat DEF IInv, TypeOK, waketime, WAKEUP_BUFFER
<1>0. ASSUME PlanHeld, UNCHANGED << dueAt, nextJob >>
      PROVE  PlanHeld'
  <2>1. PICK p \in Nat : MadeAt(p)
    BY <1>0 DEF PlanHeld
  <2>2. p <= now'
    <3>1. now' \in Nat /\ now' >= now
      BY ClockNeverBack, NextIInv DEF IInv, TypeOK
    <3> QED
      BY <1>1, <2>1, <3>1 DEF MadeAt
  <2> QED
    BY <1>0, <2>1, <2>2 DEF PlanHeld, MadeAt
<1>2. CASE FirstMinute
  <2>1. now \in BootInstants /\ \E late \in Lateness : now' = now + GRACE + late
    BY <1>2 DEF FirstMinute, SleepTo, InTime
  <2> QED
    BY <1>2, <2>1 DEF FirstMinute, InTime, Planned
<1>3. CASE Plan
  <2>1. PICK j \in JobIndex :
           nextJob' = j /\ dueAt' = NextInvocation(Jobs[j], now)
    BY <1>3 DEF Plan
  <2>2. /\ Jobs[j] \in Schedule /\ \E boot \in BootInstants : boot <= now
    BY <1>3, JobIndexFacts, PlanTimes DEF Plan
  <2>3. /\ TimeOfDay(Local(now) + (dueAt' - now)) = Jobs[nextJob'].time
        /\ now <= dueAt'
    <3>1. /\ NextInvocation(Jobs[j], now) > now
          /\ NextInvocation(Jobs[j], now) \in Nat
      BY <1>1, <2>2, NextInvocationLater
    <3> QED
      BY <1>1, <2>1, <2>2, <3>1, PlanShows
  <2>4. now' \in Nat /\ now <= now'
    BY <1>1, ClockNeverBack, NextIInv DEF IInv, TypeOK
  <2>5. PlanHeld'
    BY <1>1, <2>2, <2>3, <2>4 DEF PlanHeld, MadeAt
  <2> QED
    BY <1>3, <2>5 DEF Plan, InTime, Planned
<1>4. CASE Suspend \/ StayAwake
  <2>1. UNCHANGED << dueAt, nextJob >> /\ pc' \in { "suspended", "awake" }
    BY <1>4 DEF Suspend, StayAwake
  <2>2. PlanHeld'
    BY <1>0, <1>4, <2>1 DEF Suspend, StayAwake, InTime, Planned
  <2> QED
    BY <2>1, <2>2 DEF InTime, Planned
<1>5. CASE WakeUp
  <2>1. /\ UNCHANGED << dueAt, nextJob >> /\ pc' = "check"
        /\ \E late \in Lateness : now' = waketime + late
    BY <1>5 DEF WakeUp, SleepTo
  <2>2. PlanHeld'
    BY <1>0, <1>5, <2>1 DEF WakeUp, InTime, Planned
  <2> QED
    BY <2>1, <2>2 DEF InTime, Planned, waketime
<1>6. CASE DueSoon \/ NotDueSoon
  <2>1. /\ UNCHANGED << dueAt, nextJob >> /\ pc' \in { "due", "grace" }
        /\ pc = "check" /\ \E d \in Delays : now' = now + d
    BY <1>6 DEF DueSoon, NotDueSoon, Elapse
  <2>2. PlanHeld'
    BY <1>0, <2>1 DEF InTime, Planned
  <2>3. \E late \in Lateness, d \in Delays : now' = waketime + late + d
    BY <2>1 DEF InTime
  <2> QED
    BY <2>1, <2>2, <2>3 DEF InTime, Planned, waketime
<1>7. CASE SitOut \/ Report
  <2>1. /\ UNCHANGED << dueAt, nextJob >>
        /\ pc' = "plan" /\ pc \in { "grace", "report" }
    BY <1>7 DEF SitOut, Report
  <2>2. PlanHeld'
    BY <1>0, <2>1 DEF InTime
  <2>3. \E x \in ReplansAfter : now' = dueAt + x
    BY <1>7, ReplanTime
  <2> QED
    BY <2>1, <2>2, <2>3 DEF InTime, Planned
<1>8. CASE SleepUntilDue
  <2>1. /\ UNCHANGED << dueAt, nextJob >> /\ pc' = "start" /\ pc = "due"
        /\ \E late \in Lateness : now' = dueAt + late
    BY <1>8 DEF SleepUntilDue, SleepTo
  <2>2. PlanHeld'
    BY <1>0, <2>1 DEF InTime, Planned
  <2> QED
    BY <2>1, <2>2 DEF InTime, Planned
<1>9. CASE StartJob
  <2>1. /\ UNCHANGED << now, dueAt, nextJob >> /\ pc' = "running" /\ pc = "start"
    BY <1>9 DEF StartJob
  <2>2. PlanHeld'
    BY <1>0, <2>1 DEF InTime, Planned
  <2> QED
    BY <2>1, <2>2 DEF InTime, Planned
<1>10. CASE FinishJob
  <2>1. /\ UNCHANGED << dueAt, nextJob >> /\ pc' = "report" /\ pc = "running"
        /\ \E took \in Durations : now' = now + took
    BY <1>10 DEF FinishJob, Elapse
  <2>2. PlanHeld'
    BY <1>0, <2>1 DEF InTime
  <2>3. \E late \in Lateness, took \in Durations : now' = dueAt + late + took
    BY <2>1 DEF InTime
  <2> QED
    BY <2>1, <2>2, <2>3 DEF InTime, Planned
<1>11. CASE HibernateTooLate \/ SleepUntilTooLate \/ Fail \/ ReportHangs
  BY <1>11
     DEF HibernateTooLate, SleepUntilTooLate, Fail, ReportHangs, InTime, Planned
<1>12. CASE Caffeinate \/ UNCHANGED vars
  <2>1. UNCHANGED << now, pc, dueAt, nextJob >>
    BY <1>12 DEF Caffeinate, vars
  <2> QED
    BY <2>1 DEF InTime, PlanHeld, MadeAt, waketime
<1>13. ~SpuriousWakeUp /\ ~Reboot
  BY DEF Undisturbed, SpuriousWakeUp, Reboot, IInv, TypeOK
<1> QED
  BY <1>2, <1>3, <1>4, <1>5, <1>6, <1>7, <1>8, <1>9, <1>10, <1>11, <1>12,
     <1>13
     DEF Next, Program, Environment

\* When nothing fails, no job ends just before another one is due, the first boot
\* is not just before one either, and the alarms are prompt, the controller does
\* not stop, whatever the list of jobs and the changes of the clock: no alarm and
\* no pause is computed to be in the past (executor.rs:37-58, 115-131).
THEOREM NeverDiesInCalm ==
    ASSUME Undisturbed, ~Faults,
           AlarmsArePrompt, JobsAreSpread, BootsAreClear
    PROVE  Spec => []NeverDies
<1> DEFINE Alive == /\ InTime
                    /\ pc # "dead"
                    /\ pc = "hibernate" => now <= waketime
<1>1. Init => Alive
  <2> SUFFICES ASSUME Init PROVE Alive
    OBVIOUS
  <2> QED
    BY InitInTime DEF Init
<1>2. Alive /\ IInv /\ [Next]_vars => Alive'
  <2> SUFFICES ASSUME Alive, IInv, [Next]_vars PROVE Alive'
    OBVIOUS
  <2>1. InTime'
    BY NextInTime
  <2>2. /\ now \in Nat /\ dueAt \in Nat
        /\ waketime \in Int /\ waketime = dueAt - WAKEUP_BUFFER
        /\ Lateness \subseteq Nat /\ Delays \subseteq Nat
    BY EnvironmentNat DEF IInv, TypeOK, waketime, WAKEUP_BUFFER
  <2>3. CASE Plan
    <3>1. PICK j \in JobIndex :
             nextJob' = j /\ dueAt' = NextInvocation(Jobs[j], now)
      BY <2>3 DEF Plan
    <3>2. PICK d \in Delays : now' = now + d
      BY <2>3 DEF Plan, Elapse
    <3>3. UntilTime(Jobs[j].time, Local(now)) >= WAKEUP_BUFFER + d
      <4>1. CASE \E boot \in BootInstants, late \in Lateness :
                    now = boot + GRACE + late
        BY <4>1 DEF BootsAreClear, IsClear
      <4>2. ASSUME NEW x \in ReplansAfter, NEW y \in ClockShifts,
                   TimeOfDay(Local(now))
                      = TimeOfDay(DAY + Jobs[nextJob].time + x + y)
            PROVE  UntilTime(Jobs[j].time, Local(now)) >= WAKEUP_BUFFER + d
        <5>1. nextJob \in JobIndex
          BY DEF IInv, TypeOK
        <5>2. UntilTime(Jobs[j].time, DAY + Jobs[nextJob].time + x + y)
                 >= WAKEUP_BUFFER + d
          BY <5>1 DEF JobsAreSpread, IsClear
        <5> QED
          BY <4>2, <5>2 DEF UntilTime
      <4> QED
        BY <2>3, <4>1, <4>2, PlanTimes DEF Plan
    <3>4. /\ Jobs[j].time \in Nat /\ Jobs[j].time < DAY /\ DAY \in Nat
          /\ Local(now) \in Nat /\ Jobs[j] \in Schedule
      BY <2>2, JobIndexFacts, SchedFields, LocalRange DEF DAY
    <3>5. PICK n \in 0 .. 30 :
             UntilNext(Jobs[j], Local(now))
                = UntilTime(Jobs[j].time, Local(now)) + DAY * n
      BY <3>4, UntilNextByDays
    <3>6. UntilTime(Jobs[j].time, Local(now)) \in Nat
      BY <3>4, UntilTimeRange
    <3>7. dueAt' >= now + WAKEUP_BUFFER + d
      BY <2>2, <3>1, <3>3, <3>5, <3>6
         DEF NextInvocation, DAY, WAKEUP_BUFFER
    <3>8. dueAt' \in Nat
      BY <2>2, <3>1, <3>4, NextInvocationLater
    <3>9. now' <= waketime'
      <4>1. waketime' = dueAt' - WAKEUP_BUFFER
        BY DEF waketime
      <4>2. now \in Nat /\ d \in Nat
        BY <2>2
      <4>3. \A due \in Nat : due >= now + 15 + d => now + d <= due - 15
        BY <4>2
      <4>4. now + d <= dueAt' - WAKEUP_BUFFER
        BY <3>7, <3>8, <4>3 DEF WAKEUP_BUFFER
      <4> QED
        BY <3>2, <4>1, <4>4
    <3> QED
      BY <2>1, <2>3, <3>9 DEF Plan
  <2>4. CASE HibernateTooLate \/ Fail \/ ReportHangs
    BY <2>2, <2>4 DEF HibernateTooLate, Fail, ReportHangs
  <2>5. CASE SleepUntilTooLate
    <3>1. pc = "due" /\ now > dueAt
      BY <2>5 DEF SleepUntilTooLate
    <3>2. PICK late \in Lateness, d \in Delays : now = waketime + late + d
      BY <3>1 DEF InTime
    <3>3. late + d <= WAKEUP_BUFFER
      BY DEF AlarmsArePrompt
    <3> QED
      BY <2>2, <3>1, <3>2, <3>3 DEF WAKEUP_BUFFER
  <2>6. CASE Caffeinate \/ UNCHANGED vars
    BY <2>1, <2>6 DEF Caffeinate, vars, plan, waketime
  <2>7. CASE \/ FirstMinute \/ Suspend \/ StayAwake \/ WakeUp \/ DueSoon
             \/ NotDueSoon \/ SitOut \/ SleepUntilDue \/ StartJob \/ FinishJob
             \/ Report \/ SpuriousWakeUp \/ Reboot
    <3>1. pc' \notin { "hibernate", "dead" }
      BY <2>7
         DEF FirstMinute, Suspend, StayAwake, WakeUp, DueSoon, NotDueSoon,
             SitOut, SleepUntilDue, StartJob, FinishJob, Report,
             SpuriousWakeUp, Reboot
    <3> QED
      BY <2>1, <3>1
  <2> QED
    BY <2>3, <2>4, <2>5, <2>6, <2>7 DEF Next, Program, Environment
<1>3. Alive => NeverDies
  BY DEF NeverDies
<1> QED
  BY <1>1, <1>2, <1>3, InductiveInvariant, PTL DEF Spec

\* Past its time of day a weekly job is more than a day ahead, on every day of the
\* week: on the day before, too.
LEMMA WeeklyIsADayAway ==
    ASSUME NEW job \in Schedule, job.kind = "weekly", NEW t \in Nat,
           job.time <= TimeOfDay(Local(t))
    PROVE  NextInvocation(job, t) > t + DAY
<1> DEFINE l == Local(t)
           hours == UntilTime(job.time, l)
           today == Weekday(l)
<1>1. /\ job.time \in Nat /\ job.time < DAY /\ job.on \in 0 .. 6
      /\ l \in Nat /\ TimeOfDay(l) \in Nat /\ today \in 0 .. 6
  BY SchedFields, LocalClock
<1>2. hours \in Nat /\ hours >= 1
  BY <1>1, UntilTimeRange
<1> HIDE DEF hours, today, l
<1>3. UntilWeekly(job.on, job.time, l) > DAY
  <2>1. CASE today = job.on
    <3>1. UntilWeekly(job.on, job.time, l) = hours + DAY * 6
      BY <1>1, <1>2, <2>1 DEF UntilWeekly, hours, today, l
    <3> QED
      BY <1>2, <3>1 DEF DAY
  <2>2. CASE today < job.on
    <3>1. UntilWeekly(job.on, job.time, l) = hours + DAY * (job.on - today)
      BY <1>1, <1>2, <2>2 DEF UntilWeekly, hours, today
    <3> QED
      BY <1>1, <1>2, <2>2, <3>1 DEF DAY
  <2>3. CASE today > job.on
    <3>1. UntilWeekly(job.on, job.time, l) = hours + DAY * (7 - (today - job.on))
      BY <1>1, <1>2, <2>3 DEF UntilWeekly, hours, today
    <3> QED
      BY <1>1, <1>2, <2>3, <3>1 DEF DAY
  <2> QED
    BY <1>1, <2>1, <2>2, <2>3
<1>4. NextInvocation(job, t) = t + UntilWeekly(job.on, job.time, l)
  BY DEF NextInvocation, UntilNext, l
<1>5. UntilWeekly(job.on, job.time, l) \in Int
  <2>1. UntilNext(job, l) \in Nat
    BY <1>1, UntilNextPositive
  <2> QED
    BY <2>1 DEF UntilNext
<1> QED
  BY <1>3, <1>4, <1>5 DEF DAY

\* What EarliestWeeklyStarves rests on: such a job is not even planned.
NeverPlanned(b) == lastDue[b] = Never /\ (pc \in Planned => nextJob # b)

Starves ==
    (\E d \in JobIndex : Jobs[d].kind = "daily") =>
        \A b \in JobIndex : EarliestWeekly(b) => NeverPlanned(b)

\* No plan is for a job that is earlier in the day than all others, since the
\* daily job is due before it whenever a plan is made.
LEMMA NextStarves ==
    ASSUME Undisturbed, NightsAreQuiet, IInv, InTime, Starves, [Next]_vars
    PROVE  Starves'
<1> SUFFICES ASSUME NEW dj \in JobIndex, Jobs[dj].kind = "daily",
                    NEW b \in JobIndex, EarliestWeekly(b)
             PROVE  NeverPlanned(b)'
  BY DEF Starves
<1>1. lastDue[b] = Never /\ (pc \in Planned => nextJob # b)
  BY DEF Starves, NeverPlanned
<1>2. now \in Nat /\ nextJob \in JobIndex /\ lastDue \in [JobIndex -> Nat]
  BY DEF IInv, TypeOK
<1>3. CASE Plan
  <2>1. PICK j \in JobIndex : IsNextJob(j, now) /\ nextJob' = j
    BY <1>3 DEF Plan
  <2>2. /\ Jobs[b] \in Schedule /\ Jobs[dj] \in Schedule
        /\ Jobs[b].time \in Nat /\ Jobs[dj].time \in Nat /\ Jobs[dj].time < DAY
        /\ DAY \in Nat /\ Local(now) \in Nat
    BY <1>2, JobIndexFacts, SchedFields, LocalRange DEF DAY
  <2>3. Jobs[b].time <= TimeOfDay(Local(now))
    <3>1. CASE \E boot \in BootInstants, late \in Lateness :
                  now = boot + GRACE + late
      BY <3>1 DEF NightsAreQuiet
    <3>2. ASSUME NEW x \in ReplansAfter, NEW y \in ClockShifts,
                 TimeOfDay(Local(now))
                    = TimeOfDay(DAY + Jobs[nextJob].time + x + y)
          PROVE  Jobs[b].time <= TimeOfDay(Local(now))
      BY <1>2, <3>2 DEF NightsAreQuiet
    <3> QED
      BY <1>3, <3>1, <3>2, PlanTimes DEF Plan
  <2>4. NextInvocation(Jobs[b], now) > now + DAY
    BY <1>2, <2>2, <2>3, WeeklyIsADayAway DEF EarliestWeekly
  <2>5. NextInvocation(Jobs[dj], now) <= now + DAY
    <3>1. NextInvocation(Jobs[dj], now)
             = now + UntilTime(Jobs[dj].time, Local(now))
      BY DEF NextInvocation, UntilNext
    <3> QED
      BY <1>2, <2>2, <3>1, UntilTimeRange
  <2>6. j # b
    <3>1. /\ NextInvocation(Jobs[b], now) \in Nat
          /\ NextInvocation(Jobs[dj], now) \in Nat
      BY <1>2, <2>2, NextInvocationLater
    <3>2. NextInvocation(Jobs[j], now) <= NextInvocation(Jobs[dj], now)
      BY <2>1 DEF IsNextJob
    <3> QED
      BY <1>2, <2>2, <2>4, <2>5, <3>1, <3>2
  <2> QED
    BY <1>1, <1>3, <2>1, <2>6 DEF Plan, history, NeverPlanned
<1>4. CASE StartJob
  BY <1>1, <1>2, <1>4 DEF StartJob, plan, Planned, NeverPlanned
<1>5. CASE ~Plan /\ ~StartJob
  <2>1. /\ lastDue' = lastDue
        /\ pc' \in Planned => pc \in Planned /\ nextJob' = nextJob
    BY <1>5
       DEF Next, Program, Environment, FirstMinute, Suspend, StayAwake,
           HibernateTooLate, WakeUp, DueSoon, NotDueSoon, SitOut,
           SleepUntilDue, SleepUntilTooLate, FinishJob, Report, Fail,
           ReportHangs, SpuriousWakeUp, Caffeinate, Reboot, vars, Planned,
           plan, history, machine
  <2> QED
    BY <1>1, <2>1 DEF NeverPlanned
<1> QED
  BY <1>3, <1>4, <1>5

\* In a calm environment a weekly job that is due no later in the day than any
\* other never runs, when one of the others is daily and the nights are quiet:
\* then no plan is ever made on its weekday before it is due (job.rs:30-43,
\* executor.rs:115-131).
THEOREM EarliestWeeklyAlwaysStarves ==
    ASSUME Undisturbed, NightsAreQuiet
    PROVE  Spec => []EarliestWeeklyStarves
<1>1. Init => InTime /\ Starves
  BY InitInTime DEF Init, Planned, Starves, NeverPlanned
<1>2. InTime /\ Starves /\ IInv /\ [Next]_vars => InTime' /\ Starves'
  BY NextInTime, NextStarves
<1>3. Starves => EarliestWeeklyStarves
  BY DEF EarliestWeeklyStarves, Starves, NeverPlanned
<1> QED
  BY <1>1, <1>2, <1>3, InductiveInvariant, PTL DEF Spec

\* Until the time that UntilTime gives is over, the clock does not show the time.
LEMMA TimeIsNotShown ==
    ASSUME NEW time \in Nat, time < DAY, NEW l \in Nat, NEW y \in Nat,
           1 <= y, y < UntilTime(time, l)
    PROVE  TimeOfDay(l + y) # time
BY DEF UntilTime, TimeOfDay, DAY

\* When job j last ran, or else when the loop was entered.
Since(j) == IF lastDue[j] > upSince THEN lastDue[j] ELSE upSince

\* Up to the instant end, all that job j has missed follows a change of the clock.
NoneMissed(j, end) ==
    \A s \in Nat :
        Since(j) < s /\ s <= end /\ OccursAt(Jobs[j], s) => ByClockChange(s)

\* The plan at hand was made at p, by the loop, and for an instant of the next
\* 24 hours.
MadeByLoop(p) == MadeAt(p) /\ upSince <= p /\ dueAt <= p + DAY

\* At every step of the loop, no occurrence of job j has been passed over.
Caught(j) ==
    /\ upSince <= now
    /\ pc # "firstMinute" => \E boot \in BootInstants : boot <= upSince
    /\ pc = "plan" => NoneMissed(j, now)
    /\ pc \in Planned \cup { "running", "report", "grace" } =>
          \E p \in Nat : MadeByLoop(p)
    /\ pc \in Planned => /\ NoneMissed(j, dueAt - 1)
                         /\ nextJob # j => NoneMissed(j, dueAt)
    /\ pc \in { "running", "report", "grace" } => NoneMissed(j, dueAt)

\* An instant up to which the clock has been changed since p follows that change.
LEMMA ChangedSince ==
    ASSUME NEW p \in Nat, NEW s \in Nat, p <= s, IInv, upSince <= p,
           NEW x \in ReplansAfter \cup { 0 }, x \in Nat, s <= p + DAY + x,
           Local(s) # Local(p) + (s - p)
    PROVE  ByClockChange(s)
<1>1. upSince \in Nat /\ SummerStart \in Nat /\ SummerEnd \in Nat /\ DAY \in Nat
  BY SummerAssumption DEF IInv, TypeOK, DAY
<1>2. PICK c \in { SummerStart, SummerEnd } : p < c /\ c <= s
  BY ChangedBetween
<1>3. upSince < c /\ s <= c + DAY + x
  BY <1>1, <1>2
<1> QED
  BY <1>2, <1>3 DEF ByClockChange

\* A plan passes over no occurrence of a job that comes around, and the instant
\* it is for is an occurrence only of the job it is for.
LEMMA PlanPassesOverNone ==
    ASSUME IInv, Starves', Plan,
           NEW j \in JobIndex, ComesAround(j), Prevails(j), Caught(j)
    PROVE  /\ dueAt' \in Nat /\ now <= dueAt' /\ dueAt' <= now + DAY
           /\ \A s \in Nat :
                 Since(j) < s /\ s <= dueAt' /\ OccursAt(Jobs[j], s)
                 /\ (s = dueAt' => nextJob' # j)
                 => ByClockChange(s)
<1>1. PICK k \in JobIndex :
         /\ IsNextJob(k, now)
         /\ nextJob' = k /\ dueAt' = NextInvocation(Jobs[k], now)
  BY DEF Plan
<1>2. PICK d \in JobIndex :
         /\ Jobs[d].kind = "daily"
         /\ \/ d = j
            \/ Jobs[d].time < Jobs[j].time
            \/ Jobs[j].kind = "monthly" /\ Jobs[j].on = 1
  BY DEF ComesAround
<1>3. /\ Jobs[d] \in Schedule /\ Jobs[j] \in Schedule /\ Jobs[k] \in Schedule
      /\ Jobs[d].time \in Nat /\ Jobs[d].time < DAY
      /\ now \in Nat /\ Local(now) \in Nat /\ DAY \in Nat
      /\ upSince \in Nat /\ upSince <= now
  BY JobIndexFacts, SchedFields, LocalRange DEF IInv, TypeOK, DAY, Caught
<1>4. /\ NextInvocation(Jobs[d], now) \in Nat
      /\ NextInvocation(Jobs[j], now) \in Nat
      /\ NextInvocation(Jobs[k], now) \in Nat
      /\ NextInvocation(Jobs[k], now) > now
      /\ NextInvocation(Jobs[k], now) <= NextInvocation(Jobs[d], now)
      /\ NextInvocation(Jobs[k], now) <= NextInvocation(Jobs[j], now)
      /\ j > k => NextInvocation(Jobs[k], now) < NextInvocation(Jobs[j], now)
  BY <1>1, <1>3, NextInvocationLater DEF IsNextJob
<1>5. NextInvocation(Jobs[d], now) <= now + DAY
  <2>1. NextInvocation(Jobs[d], now) = now + UntilTime(Jobs[d].time, Local(now))
    BY <1>2 DEF NextInvocation, UntilNext
  <2> QED
    BY <1>3, <2>1, UntilTimeRange
<1>6. dueAt' \in Nat /\ now <= dueAt' /\ dueAt' <= now + DAY
  BY <1>1, <1>3, <1>4, <1>5
<1>7. ASSUME NEW s \in Nat, Since(j) < s, s <= dueAt', OccursAt(Jobs[j], s),
             s = dueAt' => k # j
      PROVE  ByClockChange(s)
  <2>1. CASE s <= now
    BY <1>7, <2>1 DEF Plan, Caught, NoneMissed
  <2>2. CASE now < s /\ Local(s) # Local(now) + (s - now)
    <3>1. now <= s /\ s <= now + DAY + 0 /\ 0 \in ReplansAfter \cup { 0 }
      BY <1>3, <1>6, <1>7, <2>2
    <3> QED
      BY <1>3, <2>2, <3>1, ChangedSince
  <2>3. CASE now < s /\ Local(s) = Local(now) + (s - now)
    <3>1. s <= NextInvocation(Jobs[d], now)
      BY <1>1, <1>4, <1>7
    <3>2. NextInvocation(Jobs[j], now) = s
      BY <1>2, <1>3, <1>7, <2>3, <3>1, AnsweredInTime
    <3>3. s = dueAt' /\ NextInvocation(Jobs[k], now) = s /\ k # j
      BY <1>1, <1>4, <1>7, <3>2
    <3>4. k > j
      <4>1. k \in Nat /\ j \in Nat
        BY JobsAssumption DEF JobIndex
      <4> QED
        BY <1>4, <3>2, <3>3, <4>1
    <3>5. Jobs[k].time = Jobs[j].time
      BY <1>3, <3>2, <3>3, PlanShows
    <3>6. EarliestWeekly(k)
      BY <3>4, <3>5 DEF Prevails
    <3>7. pc' \in Planned /\ nextJob' = k
      BY <1>1 DEF Plan, Planned
    <3> QED
      BY <1>2, <3>6, <3>7 DEF Starves, NeverPlanned
  <2> QED
    BY <1>3, <2>1, <2>2, <2>3
<1> QED
  BY <1>1, <1>6, <1>7

\* When the recheck does not agree, the job has not missed its occurrence, or the
\* clock has just been changed.
LEMMA RecheckPassesOverNone ==
    ASSUME AlarmsAreWithinBuffer, NoneAtMidnight, IInv, InTime, NotDueSoon,
           NEW j \in JobIndex, Caught(j)
    PROVE  NoneMissed(j, dueAt)
<1>1. /\ now \in Nat /\ dueAt \in Nat /\ upSince \in Nat /\ upSince <= now
      /\ waketime = dueAt - WAKEUP_BUFFER
      /\ Since(j) \in Nat
  BY DEF IInv, TypeOK, waketime, Caught, Since
<1>2. /\ pc = "check" /\ pc \in Planned
      /\ ~IsDueWithin(Jobs[nextJob], now, WAKEUP_BUFFER)
  BY DEF NotDueSoon, Planned
<1>3. dueAt - WAKEUP_BUFFER < now /\ now < dueAt
  <2>1. PICK late \in Lateness : now = waketime + late
    BY <1>2 DEF InTime
  <2>2. late \in Nat /\ 1 <= late /\ late < WAKEUP_BUFFER
    BY EnvironmentNat DEF AlarmsAreWithinBuffer
  <2> QED
    BY <1>1, <2>1, <2>2 DEF WAKEUP_BUFFER
<1>4. ASSUME nextJob = j, OccursAt(Jobs[j], dueAt)
      PROVE  ByClockChange(dueAt)
  <2>1. Local(dueAt) # Local(now) + (dueAt - now)
    <3> SUFFICES ASSUME Local(dueAt) = Local(now) + (dueAt - now)
                 PROVE  FALSE
      OBVIOUS
    <3>1. Jobs[j] \in Schedule /\ Jobs[j].time >= WAKEUP_BUFFER
      BY JobIndexFacts DEF NoneAtMidnight
    <3>2. NextInvocation(Jobs[j], now) = dueAt
      BY <1>1, <1>3, <1>4, <3>1, ConfirmedShortlyBefore
    <3> QED
      BY <1>1, <1>2, <1>3, <1>4, <3>2 DEF IsDueWithin, WAKEUP_BUFFER
  <2>2. now <= dueAt /\ dueAt <= now + DAY + 0 /\ 0 \in ReplansAfter \cup { 0 }
    BY <1>1, <1>3 DEF DAY, WAKEUP_BUFFER
  <2> QED
    BY <1>1, <2>1, <2>2, ChangedSince
<1>5. CASE nextJob # j
  BY <1>2, <1>5 DEF Caught
<1>6. CASE nextJob = j
  <2>1. ASSUME NEW s \in Nat, Since(j) < s, s <= dueAt, OccursAt(Jobs[j], s)
        PROVE  ByClockChange(s)
    <3>1. s <= dueAt - 1 \/ s = dueAt
      BY <1>1, <2>1
    <3>2. NoneMissed(j, dueAt - 1)
      BY <1>2 DEF Caught
    <3>3. CASE s <= dueAt - 1
      BY <2>1, <3>2, <3>3 DEF NoneMissed
    <3> QED
      BY <1>4, <1>6, <2>1, <3>1, <3>3
  <2> QED
    BY <2>1 DEF NoneMissed
<1> QED
  BY <1>5, <1>6

\* While a job runs, or a wakeup is sat out, no other occurrence passes, unless
\* the clock has been changed since the plan was made.
LEMMA RunPassesOverNone ==
    ASSUME NoneDueMeanwhile, IInv, InTime, SitOut \/ Report,
           NEW j \in JobIndex, Caught(j)
    PROVE  NoneMissed(j, now')
<1>1. PICK x \in ReplansAfter : x \in Nat /\ now' = dueAt + x
  BY ReplanTime
<1>2. pc \in { "grace", "report" }
  BY DEF SitOut, Report
<1>3. PICK p \in Nat : MadeByLoop(p)
  BY <1>2 DEF Caught
<1>4. /\ dueAt \in Nat /\ nextJob \in JobIndex /\ DAY \in Nat
      /\ Jobs[nextJob].time \in Nat /\ Jobs[nextJob].time < DAY
      /\ Jobs[j].time \in Nat /\ Jobs[j].time < DAY
      /\ p <= dueAt /\ upSince <= p /\ dueAt <= p + DAY
      /\ Local(p) \in Nat
  BY <1>3, JobIndexFacts, SchedFields, LocalRange
     DEF IInv, TypeOK, MadeByLoop, MadeAt, DAY
<1> DEFINE l == Local(p) + (dueAt - p)
<1>5. l \in Nat /\ TimeOfDay(l) = Jobs[nextJob].time
  BY <1>3, <1>4 DEF MadeByLoop, MadeAt
<1>6. ASSUME NEW s \in Nat, Since(j) < s, s <= now', OccursAt(Jobs[j], s)
      PROVE  ByClockChange(s)
  <2>1. CASE s <= dueAt
    BY <1>2, <1>6, <2>1 DEF Caught, NoneMissed
  <2>2. CASE dueAt < s /\ Local(s) # Local(p) + (s - p)
    <3>1. p <= s /\ s <= p + DAY + x
      BY <1>1, <1>4, <1>6, <2>2
    <3> QED
      BY <1>1, <1>4, <2>2, <3>1, ChangedSince
  <2>3. CASE dueAt < s /\ Local(s) = Local(p) + (s - p)
    <3> DEFINE y == s - dueAt
    <3>1. y \in Nat /\ 1 <= y /\ y <= x /\ Local(s) = l + y
      BY <1>1, <1>4, <1>6, <2>3
    <3> HIDE DEF l, y
    <3>2. x < UntilTime(Jobs[j].time, l)
      <4>1. TimeOfDay(Jobs[nextJob].time) = Jobs[nextJob].time
        BY <1>4 DEF TimeOfDay, DAY
      <4>2. x < UntilTime(Jobs[j].time, Jobs[nextJob].time)
        BY <1>4 DEF NoneDueMeanwhile
      <4> QED
        BY <1>5, <4>1, <4>2 DEF UntilTime
    <3>3. UntilTime(Jobs[j].time, l) \in Nat
      BY <1>4, <1>5, UntilTimeRange
    <3>4. TimeOfDay(l + y) # Jobs[j].time
      BY <1>1, <1>4, <1>5, <3>1, <3>2, <3>3, TimeIsNotShown
    <3> QED
      BY <1>6, <3>1, <3>4 DEF OccursAt
  <2> QED
    BY <1>4, <2>1, <2>2, <2>3
<1> QED
  BY <1>6 DEF NoneMissed

\* Caught is kept by every step of a calm environment.
LEMMA NextCaught ==
    ASSUME Undisturbed, AlarmsAreWithinBuffer, NoneDueMeanwhile, NoneAtMidnight,
           IInv, InTime, Starves', [Next]_vars,
           NEW j \in JobIndex, ComesAround(j), Prevails(j), Caught(j)
    PROVE  Caught(j)'
<1> USE DEF plan, history, machine
<1>1. /\ now \in Nat /\ dueAt \in Nat /\ nextJob \in JobIndex
      /\ upSince \in Nat /\ lastDue \in [JobIndex -> Nat]
      /\ Since(j) \in Nat /\ upSince <= now
      /\ now' \in Nat /\ now <= now'
  BY ClockNeverBack, NextIInv DEF IInv, TypeOK, Since, Caught
<1>2. ASSUME UNCHANGED << upSince, dueAt, nextJob >>,
             NEW p \in Nat, MadeByLoop(p)
      PROVE  MadeByLoop(p)'
  BY <1>1, <1>2 DEF MadeByLoop, MadeAt
<1>3. CASE FirstMinute
  <2>1. pc' = "plan" /\ lastDue' = lastDue /\ upSince' = now'
    BY <1>3 DEF FirstMinute
  <2>2. Since(j)' \in Nat /\ Since(j)' >= now'
    BY <1>1, <2>1 DEF Since
  <2>3. NoneMissed(j, now)'
    BY <1>1, <2>2 DEF NoneMissed
  <2>4. PICK boot \in BootInstants : boot = now
    BY <1>3 DEF FirstMinute, InTime
  <2>5. upSince' <= now' /\ boot <= upSince'
    BY <1>1, <2>1, <2>4
  <2> QED
    BY <2>1, <2>3, <2>5 DEF Caught, Planned
<1>4. CASE Plan
  <2>1. /\ pc' = "hibernate" /\ pc = "plan" /\ UNCHANGED << lastDue, upSince >>
    BY <1>4 DEF Plan
  <2>2. /\ dueAt' \in Nat /\ now <= dueAt' /\ dueAt' <= now + DAY
        /\ \A s \in Nat :
              Since(j) < s /\ s <= dueAt' /\ OccursAt(Jobs[j], s)
              /\ (s = dueAt' => nextJob' # j)
              => ByClockChange(s)
    BY <1>4, PlanPassesOverNone
  <2>3. PICK boot \in BootInstants : boot <= upSince
    BY <2>1 DEF Caught
  <2>0. PICK p \in Nat : p = now
    BY <1>1
  <2>4. MadeByLoop(p)'
    <3>1. PICK k \in JobIndex :
             nextJob' = k /\ dueAt' = NextInvocation(Jobs[k], now)
      BY <1>4 DEF Plan
    <3>2. TimeOfDay(Local(now) + (dueAt' - now)) = Jobs[nextJob'].time
      BY <1>1, <3>1, JobIndexFacts, PlanShows
    <3>3. boot \in Nat /\ boot <= now
      BY <1>1, <2>3, EnvironmentNat
    <3> QED
      BY <1>1, <2>0, <2>1, <2>2, <3>2, <3>3 DEF MadeByLoop, MadeAt
  <2>5. /\ NoneMissed(j, dueAt - 1)'
        /\ nextJob' # j => NoneMissed(j, dueAt)'
    <3>1. Since(j)' = Since(j) /\ \A s : ByClockChange(s)' = ByClockChange(s)
      BY <2>1 DEF Since, ByClockChange
    <3>2. \A s \in Nat : s <= dueAt' - 1 => s <= dueAt' /\ s # dueAt'
      <4>1. dueAt' \in Nat
        BY <2>2
      <4>2. \A due, s \in Nat : s <= due - 1 => s <= due /\ s # due
        OBVIOUS
      <4> QED
        BY <4>1, <4>2
    <3> QED
      BY <2>2, <3>1, <3>2 DEF NoneMissed
  <2> QED
    BY <1>1, <2>1, <2>3, <2>4, <2>5 DEF Caught, Planned
<1>5. CASE NotDueSoon
  <2>1. /\ pc = "check" /\ pc' = "grace"
        /\ UNCHANGED << lastDue, upSince, dueAt, nextJob >>
    BY <1>5 DEF NotDueSoon
  <2>2. NoneMissed(j, dueAt)
    BY <1>5, RecheckPassesOverNone
  <2>3. PICK p \in Nat : MadeByLoop(p)
    BY <2>1 DEF Caught, Planned
  <2>4. MadeByLoop(p)'
    BY <1>2, <2>1, <2>3
  <2> QED
    BY <1>1, <2>1, <2>2, <2>4 DEF Caught, NoneMissed, Since, ByClockChange, Planned
<1>6. CASE SitOut \/ Report
  <2>1. /\ pc' = "plan" /\ pc \in { "grace", "report" }
        /\ UNCHANGED << lastDue, upSince >>
    BY <1>6 DEF SitOut, Report
  <2>2. NoneMissed(j, now')
    BY <1>6, RunPassesOverNone
  <2> QED
    BY <1>1, <2>1, <2>2 DEF Caught, NoneMissed, Since, ByClockChange, Planned
<1>7. CASE StartJob
  <2>1. /\ pc' = "running" /\ pc = "start"
        /\ UNCHANGED << now, upSince, dueAt, nextJob >>
        /\ lastDue' = [lastDue EXCEPT ![nextJob] = dueAt]
    BY <1>7 DEF StartJob
  <2>2. PICK p \in Nat : MadeByLoop(p)
    BY <2>1 DEF Caught, Planned
  <2>3. MadeByLoop(p)'
    BY <1>2, <2>1, <2>2
  <2>4. NoneMissed(j, dueAt)'
    <3>1. CASE nextJob = j
      <4>1. Since(j)' \in Nat /\ Since(j)' >= dueAt
        BY <1>1, <2>1, <3>1 DEF Since
      <4> QED
        BY <1>1, <2>1, <4>1 DEF NoneMissed
    <3>2. CASE nextJob # j
      <4>1. Since(j)' = Since(j)
        BY <1>1, <2>1, <3>2 DEF Since
      <4>2. NoneMissed(j, dueAt)
        BY <2>1, <3>2 DEF Caught, Planned
      <4> QED
        BY <2>1, <4>1, <4>2 DEF NoneMissed, ByClockChange
    <3> QED
      BY <3>1, <3>2
  <2> QED
    BY <1>1, <2>1, <2>3, <2>4 DEF Caught, Planned
<1>8. CASE \/ Suspend \/ StayAwake \/ WakeUp \/ DueSoon \/ SleepUntilDue
           \/ FinishJob
  <2>1. /\ UNCHANGED << dueAt, nextJob, lastDue, upSince >>
        /\ \/ pc \in Planned /\ pc' \in Planned
           \/ pc = "running" /\ pc' = "report"
    BY <1>8
       DEF Suspend, StayAwake, WakeUp, DueSoon, SleepUntilDue, FinishJob,
           Planned
  <2>2. PICK p \in Nat : MadeByLoop(p)
    BY <2>1 DEF Caught, Planned
  <2>3. MadeByLoop(p)'
    BY <1>2, <2>1, <2>2
  <2>4. /\ pc # "firstMinute" /\ pc' \notin { "firstMinute", "plan" }
        /\ NoneMissed(j, dueAt)' = NoneMissed(j, dueAt)
        /\ NoneMissed(j, dueAt - 1)' = NoneMissed(j, dueAt - 1)
    BY <2>1 DEF Planned, NoneMissed, Since, ByClockChange
  <2> QED
    BY <1>1, <2>1, <2>3, <2>4 DEF Caught, Planned
<1>9. CASE Caffeinate \/ UNCHANGED vars
  <2>1. UNCHANGED << now, pc, dueAt, nextJob, lastDue, upSince >>
    BY <1>9 DEF Caffeinate, vars
  <2> QED
    BY <2>1
       DEF Caught, NoneMissed, Since, ByClockChange, MadeByLoop, MadeAt
<1>10. CASE HibernateTooLate \/ SleepUntilTooLate \/ Fail \/ ReportHangs
  <2>1. /\ pc' \in { "dead", "stuck" } /\ pc # "firstMinute"
        /\ UNCHANGED << now, upSince >>
    BY <1>10 DEF HibernateTooLate, SleepUntilTooLate, Fail, ReportHangs
  <2> QED
    BY <1>1, <2>1 DEF Caught, Planned
<1>11. ~SpuriousWakeUp /\ ~Reboot
  BY DEF Undisturbed, SpuriousWakeUp, Reboot, IInv, TypeOK
<1> QED
  BY <1>3, <1>4, <1>5, <1>6, <1>7, <1>8, <1>9, <1>10, <1>11
     DEF Next, Program, Environment

\* The jobs that come around and prevail have all been caught.
AllCaught == \A j \in JobIndex : ComesAround(j) /\ Prevails(j) => Caught(j)

\* Between two plans nothing is missed of which Caught does not know.
LEMMA MissedIsCaught ==
    ASSUME IInv, pc = "plan", NEW j \in JobIndex, Caught(j), NEW s \in Missed(j)
    PROVE  s \in Nat /\ s <= now /\ ByClockChange(s)
<1>1. /\ Since(j) \in Nat /\ now \in Nat
      /\ Since(j) < s /\ s <= now /\ OccursAt(Jobs[j], s)
  BY DEF IInv, TypeOK, Missed, Since
<1>2. s \in Int
  BY JobIndexFacts, SchedFields DEF Missed, DAY, HOUR
<1> QED
  BY <1>1, <1>2 DEF Caught, NoneMissed

\* The steps of a calm environment keep the times of the loop, starve the weekly
\* job and catch the others.
LEMMA AlwaysCaught ==
    ASSUME Undisturbed, AlarmsAreWithinBuffer, NoneDueMeanwhile, NightsAreQuiet,
           NoneAtMidnight
    PROVE  Spec => [](IInv /\ AllCaught)
<1>1. Init => InTime /\ Starves /\ AllCaught
  <2> SUFFICES ASSUME Init PROVE Starves /\ AllCaught
    BY InitInTime
  <2>1. Starves
    BY DEF Init, Starves, NeverPlanned, Planned
  <2>2. \A j \in JobIndex : Caught(j)
    BY EnvironmentNat DEF Init, Caught, Planned, Never
  <2> QED
    BY <2>1, <2>2 DEF AllCaught
<1>2. InTime /\ Starves /\ AllCaught /\ IInv /\ [Next]_vars
         => InTime' /\ Starves' /\ AllCaught'
  <2> SUFFICES ASSUME InTime, Starves, AllCaught, IInv, [Next]_vars
               PROVE  InTime' /\ Starves' /\ AllCaught'
    OBVIOUS
  <2>1. InTime' /\ Starves'
    BY NextInTime, NextStarves
  <2>2. ASSUME NEW j \in JobIndex, ComesAround(j), Prevails(j)
        PROVE  Caught(j)'
    BY <2>1, <2>2, NextCaught DEF AllCaught
  <2>3. \A j \in JobIndex :
           (ComesAround(j) /\ Prevails(j))' <=> ComesAround(j) /\ Prevails(j)
    BY DEF ComesAround, Prevails, EarliestWeekly
  <2> QED
    BY <2>1, <2>2, <2>3 DEF AllCaught
<1> QED
  BY <1>1, <1>2, InductiveInvariant, PTL DEF Spec

\* In a calm environment no occurrence of a job that comes around is missed,
\* although a plan knows only one job and is forgotten after it, save in the day
\* that follows a change of the clock: whatever the list of jobs, if the alarms
\* end within the wakeup buffer, no job is due while another one runs, and the
\* nights are quiet (executor.rs:115-131, job.rs:30-76).
THEOREM MissedAlwaysByClockChange ==
    ASSUME Undisturbed, AlarmsAreWithinBuffer, NoneDueMeanwhile, NightsAreQuiet,
           NoneAtMidnight
    PROVE  Spec => []MissedOnlyByClockChange
<1>1. IInv /\ AllCaught => MissedOnlyByClockChange
  BY MissedIsCaught DEF MissedOnlyByClockChange, AllCaught
<1> QED
  BY <1>1, AlwaysCaught, PTL

\* When the clock is not changed, nothing of a job that comes around is missed.
THEOREM NothingIsMissed ==
    ASSUME Undisturbed, AlarmsAreWithinBuffer, NoneDueMeanwhile, NightsAreQuiet,
           NoneAtMidnight, ClockShifts = { 0 }
    PROVE  Spec => [](pc = "plan" /\ now <= Horizon =>
                         \A j \in JobIndex : ComesAround(j) /\ Prevails(j) =>
                            Missed(j) = {})
<1>1. ASSUME IInv, AllCaught, pc = "plan", now <= Horizon,
             NEW j \in JobIndex, ComesAround(j), Prevails(j), NEW s \in Missed(j)
      PROVE  FALSE
  <2>1. Caught(j)
    BY <1>1 DEF AllCaught
  <2>2. /\ s \in Nat /\ s <= now /\ ByClockChange(s)
        /\ now \in Nat /\ Horizon \in Nat /\ upSince \in Nat
        /\ SummerStart \in Nat /\ SummerEnd \in Nat
    BY <1>1, <2>1, MissedIsCaught, EnvironmentAssumption, SummerAssumption
       DEF IInv, TypeOK
  <2>3. PICK c \in { SummerStart, SummerEnd } : upSince < c /\ c <= s
    BY <2>2 DEF ByClockChange
  <2>4. PICK boot \in BootInstants : boot <= upSince
    BY <1>1, <2>1 DEF Caught
  <2>5. boot < c /\ c <= Horizon
    BY <1>1, <2>2, <2>3, <2>4, EnvironmentNat
  <2>6. HOUR \in ClockShifts \/ -HOUR \in ClockShifts
    BY <2>3, <2>4, <2>5 DEF ClockShifts, HOUR
  <2> QED
    BY <2>6 DEF HOUR
<1>2. IInv /\ AllCaught =>
         (pc = "plan" /\ now <= Horizon =>
             \A j \in JobIndex : ComesAround(j) /\ Prevails(j) => Missed(j) = {})
  BY <1>1
<1> QED
  BY <1>2, AlwaysCaught, PTL

=============================================================================
