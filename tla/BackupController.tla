-------------------------- MODULE BackupController --------------------------
(***************************************************************************)
(* The backup controller: executor.rs and main.rs of backup-controller,    *)
(* with the machine it puts to sleep (rtcwake, thread::sleep, the user who *)
(* creates /etc/caffeinated) as its environment.                           *)
(*                                                                         *)
(* The program reads the clock again at every step and computes each pause *)
(* from what it read earlier, so "now" is a variable that every action may *)
(* advance: by a Delay between two statements, by a Lateness when a sleep  *)
(* ends, by the time a command takes.  Reporting by mail is one step here; *)
(* MailReport has its details.                                             *)
(***************************************************************************)
EXTENDS JobSchedule

CONSTANTS
    BootInstants,   \* when the machine may first be switched on
    Delays,         \* seconds that may pass between two statements
    Lateness,       \* seconds by which a sleep may overrun
    SpuriousLeads,  \* seconds before an interesting instant at which the
                    \*   machine may be woken by something else
    Durations,      \* how long a command may run
    ReportTimes,    \* how long the mail report may take
    Faults,         \* whether rtcwake, a command or the report may fail
    RebootGaps,     \* how long the machine may be off
    MaxReboots,     \* bound on reboots
    Horizon         \* bound on the clock: no job is planned after it

ASSUME EnvironmentAssumption ==
    /\ Jobs # << >>
    /\ \A S \in { BootInstants, Delays, Lateness, SpuriousLeads, Durations,
                  ReportTimes, RebootGaps } : S \subseteq Nat
    /\ Faults \in BOOLEAN
    /\ MaxReboots \in Nat
    /\ Horizon \in Nat

WAKEUP_BUFFER == 15
GRACE == 60     \* the first minute after start, and after a spurious wakeup
Never == 0      \* before every instant at which a job can be due

VARIABLES
    now,            \* the clock, in seconds
    pc,             \* where Executor::run is
    caffeinated,    \* /etc/caffeinated exists
    nextJob,        \* the job planned last
    dueAt,          \* when it was said to be due
    lastDue,        \* for each job, the dueAt it last ran for (a history)
    upSince,        \* when the loop was entered after the last boot (history)
    spurious,       \* the last thing run did was to sit out a wakeup (history)
    reboots

machine == << caffeinated, reboots >>
plan    == << nextJob, dueAt >>
history == << lastDue, upSince >>
vars    == << now, pc, machine, plan, history, spurious >>

PC == { "firstMinute", "plan", "hibernate", "suspended", "awake", "check",
        "due", "start", "running", "report", "stuck", "grace", "dead" }

waketime == dueAt - WAKEUP_BUFFER

TypeOK ==
    /\ now \in Nat
    /\ pc \in PC
    /\ caffeinated \in BOOLEAN
    /\ nextJob \in JobIndex
    /\ dueAt \in Nat
    /\ lastDue \in [JobIndex -> Nat]
    /\ upSince \in Nat
    /\ spurious \in BOOLEAN
    /\ reboots \in 0 .. MaxReboots

Init ==
    /\ now \in BootInstants
    /\ pc = "firstMinute"
    /\ caffeinated = FALSE
    /\ nextJob = 1 /\ dueAt = Never
    /\ lastDue = [j \in JobIndex |-> Never]
    /\ upSince = Never
    /\ spurious = FALSE
    /\ reboots = 0

-----------------------------------------------------------------------------
\* The clock moves on by one of the given amounts.
Elapse(amounts) == \E d \in amounts : now' = now + d

\* thread::sleep and rtcwake return some time after the instant, which in
\* whole seconds is at least 1.  A Lateness of 0 stands for a real-time clock
\* that runs a fraction of a second ahead of the system's.
SleepTo(t) == \E late \in Lateness : now' = t + late

(***************************************************************************)
(* The program                                                             *)
(***************************************************************************)

\* run: sleep(60) before the loop, for the user to log in.
FirstMinute ==
    /\ pc = "firstMinute"
    /\ SleepTo(now + GRACE)
    /\ pc' = "plan"
    /\ upSince' = now'
    /\ UNCHANGED << machine, plan, lastDue, spurious >>

\* Mutant of Plan: the next job, but when the first of the list is due.
PlanHeadDue ==
    /\ pc = "plan"
    /\ now <= Horizon
    /\ \E j \in JobIndex :
          /\ IsNextJob(j, now)
          /\ nextJob' = j
          /\ dueAt' = NextInvocation(Jobs[1], now)
    /\ pc' = "hibernate"
    /\ Elapse(Delays)
    /\ UNCHANGED << machine, history, spurious >>

\* run: next_job(&now, jobs) and next_invocation(&now) read one clock value.
Plan ==
    /\ pc = "plan"
    /\ now <= Horizon
    /\ \E j \in JobIndex :
          /\ IsNextJob(j, now)
          /\ nextJob' = j
          /\ dueAt' = NextInvocation(Jobs[j], now)
    /\ pc' = "hibernate"
    /\ Elapse(Delays)
    /\ UNCHANGED << machine, history, spurious >>

\* hibernate, with /etc/caffeinated absent: rtcwake suspends to memory.
Suspend ==
    /\ pc = "hibernate"
    /\ ~caffeinated
    /\ now <= waketime
    /\ pc' = "suspended"
    /\ UNCHANGED << now, machine, plan, history, spurious >>

\* hibernate, with /etc/caffeinated present: the thread sleeps instead.
StayAwake ==
    /\ pc = "hibernate"
    /\ caffeinated
    /\ now <= waketime
    /\ pc' = "awake"
    /\ UNCHANGED << now, machine, plan, history, spurious >>

\* hibernate, with waketime behind the clock: rtcwake refuses an alarm in the
\* past, to_std() a negative duration; "failed to hibernate" either way.
HibernateTooLate ==
    /\ pc = "hibernate"
    /\ now > waketime
    /\ pc' = "dead"
    /\ UNCHANGED << now, machine, plan, history, spurious >>

\* The alarm of rtcwake, or the end of the thread's sleep.
WakeUp ==
    /\ pc \in { "suspended", "awake" }
    /\ SleepTo(waketime)
    /\ pc' = "check"
    /\ UNCHANGED << machine, plan, history, spurious >>

\* run: is_due_within(&WAKEUP_BUFFER) with a clock read of its own.
DueSoon ==
    /\ pc = "check"
    /\ IsDueWithin(Jobs[nextJob], now, WAKEUP_BUFFER)
    /\ pc' = "due"
    /\ Elapse(Delays)
    /\ UNCHANGED << machine, plan, history, spurious >>

NotDueSoon ==
    /\ pc = "check"
    /\ ~IsDueWithin(Jobs[nextJob], now, WAKEUP_BUFFER)
    /\ pc' = "grace"
    /\ Elapse(Delays)
    /\ UNCHANGED << machine, plan, history, spurious >>

\* run: sleep(60), then the loop plans again.
SitOut ==
    /\ pc = "grace"
    /\ SleepTo(now + GRACE)
    /\ pc' = "plan"
    /\ spurious' = TRUE
    /\ UNCHANGED << machine, plan, history >>

\* Mutant of SleepUntilDue: the pause before the job is missing.
SleepUntilDueNot ==
    /\ pc = "due"
    /\ now <= dueAt
    /\ pc' = "start"
    /\ UNCHANGED << now, machine, plan, history, spurious >>

\* sleep_until(due_at): with the instant that was planned, not the one that
\* was just checked.
SleepUntilDue ==
    /\ pc = "due"
    /\ now <= dueAt
    /\ SleepTo(dueAt)
    /\ pc' = "start"
    /\ UNCHANGED << machine, plan, history, spurious >>

\* sleep_until: to_std() of a negative duration.
SleepUntilTooLate ==
    /\ pc = "due"
    /\ now > dueAt
    /\ pc' = "dead"
    /\ UNCHANGED << now, machine, plan, history, spurious >>

\* run_job: the command is spawned ...
StartJob ==
    /\ pc = "start"
    /\ pc' = "running"
    /\ lastDue' = [lastDue EXCEPT ![nextJob] = dueAt]
    /\ spurious' = FALSE
    /\ UNCHANGED << now, machine, plan, upSince >>

\* Mutant of FinishJob: a command that fails is run again.
FinishJobRetries ==
    /\ pc = "running"
    /\ Elapse(Durations)
    /\ pc' \in { "report", "start" }
    /\ UNCHANGED << machine, plan, history, spurious >>

\* ... and waited for; its exit status is not looked at.
FinishJob ==
    /\ pc = "running"
    /\ Elapse(Durations)
    /\ pc' = "report"
    /\ UNCHANGED << machine, plan, history, spurious >>

\* run_job: the output is mailed and the mail has left the machine.
Report ==
    /\ pc = "report"
    /\ Elapse(ReportTimes)
    /\ pc' = "plan"
    /\ UNCHANGED << machine, plan, history, spurious >>

\* rtcwake fails, the command cannot be spawned, or run_job returns an error:
\* every error of the loop ends in expect().
Fail ==
    /\ Faults
    /\ \/ pc = "hibernate" /\ ~caffeinated
       \/ pc = "start"
       \/ pc = "report"
    /\ pc' = "dead"
    /\ UNCHANGED << now, machine, plan, history, spurious >>

\* completed_send never sees the mail leave: run_job does not return.
ReportHangs ==
    /\ Faults
    /\ pc = "report"
    /\ pc' = "stuck"
    /\ UNCHANGED << now, machine, plan, history, spurious >>

Program ==
    \/ FirstMinute \/ Plan \/ Suspend \/ StayAwake \/ HibernateTooLate
    \/ WakeUp \/ DueSoon \/ NotDueSoon \/ SitOut \/ SleepUntilDue
    \/ SleepUntilTooLate \/ StartJob \/ FinishJob \/ Report \/ Fail
    \/ ReportHangs

(***************************************************************************)
(* The machine and its user                                                *)
(***************************************************************************)

\* The machine is woken before the alarm: some seconds before the waketime, or
\* before the next invocation of any job.
SpuriousWakeUp ==
    /\ pc = "suspended"
    /\ \E instant \in { waketime } \cup
                      { NextInvocation(Jobs[j], now) : j \in JobIndex },
          lead \in SpuriousLeads :
          /\ now < instant - lead
          /\ instant - lead < waketime
          /\ now' = instant - lead
    /\ pc' = "check"
    /\ UNCHANGED << machine, plan, history, spurious >>

\* The user creates or removes /etc/caffeinated while the machine is up.
Caffeinate ==
    /\ pc # "suspended"
    /\ caffeinated' = ~caffeinated
    /\ UNCHANGED << now, pc, reboots, plan, history, spurious >>

\* A power failure, or an operator who finds the service dead or stuck: the
\* unit has no Restart=, so only a reboot starts it again.
Reboot ==
    /\ reboots < MaxReboots
    /\ reboots' = reboots + 1
    /\ Elapse(RebootGaps)
    /\ pc' = "firstMinute"
    /\ nextJob' = 1 /\ dueAt' = Never
    /\ spurious' = FALSE
    /\ UNCHANGED << caffeinated, history >>

Environment == SpuriousWakeUp \/ Caffeinate \/ Reboot

Next == Program \/ Environment

Spec == Init /\ [][Next]_vars

-----------------------------------------------------------------------------
(***************************************************************************)
(* The inductive invariant behind NeverEarly and StartsAdvance.            *)
(***************************************************************************)

\* A job has been chosen and not yet started.
Planned == { "hibernate", "suspended", "awake", "check", "due", "start" }

IInv ==
    /\ TypeOK
    /\ \A j \in JobIndex : lastDue[j] <= now
    /\ pc \in Planned => lastDue[nextJob] < dueAt
    /\ pc \in { "suspended", "awake" } => now <= waketime
    /\ pc = "start" => dueAt <= now

-----------------------------------------------------------------------------
(***************************************************************************)
(* What the controller owes                                                *)
(***************************************************************************)

\* No job starts before the instant it was planned for, however the wakeups,
\* the clock reads of hibernate, is_due_within and sleep_until, and the
\* user's /etc/caffeinated interleave (executor.rs:119-125).
NeverEarly == pc = "running" => now >= lastDue[nextJob]

\* No invocation of a job is run twice, nor after a later one: each start of a
\* job is for a later due instant than the start before it, across spurious
\* wakeups and reboots (nothing is persisted; next_invocation is what keeps
\* the controller from repeating a job it has just run).
StartsAdvance ==
    [][pc = "start" /\ pc' = "running" => dueAt > lastDue[nextJob]]_vars

\* When the machine is awake in the last seconds before a planned occurrence,
\* the second reading of the schedule (is_due_within, executor.rs:123) agrees
\* with the first one (executor.rs:119), so the job is not taken for a
\* spurious wakeup and skipped.
RecheckConfirms ==
    (/\ pc = "check"
     /\ waketime < now /\ now < dueAt
     /\ OccursAt(Jobs[nextJob], dueAt))
    => NextInvocation(Jobs[nextJob], now) = dueAt

\* The instant s is one of the job's schedule, or the day by which the answers
\* of job.rs:38-42, 61-70 are off next to one: a weekly job may be a day late, a
\* monthly one a day late or early.
OnScheduleOrDayOff(job, s) ==
    \/ OccursAt(job, s)
    \/ job.kind # "daily" /\ OccursAt(job, s - DAY)
    \/ job.kind = "monthly" /\ OccursAt(job, s + DAY)

\* Jobs start only for instants of their schedules, or a day off: what a plan
\* was made for survives wakeups, rechecks and reboots (executor.rs:115-131).
RunsOnScheduleOrDayOff ==
    \A j \in JobIndex :
        lastDue[j] # Never => OnScheduleOrDayOff(Jobs[j], lastDue[j])

\* In a calm environment the controller does not stop: no negative duration
\* reaches to_std().unwrap() and no alarm in the past reaches rtcwake
\* (executor.rs:37-58, 115-131).
NeverDies == pc # "dead"

\* A weekly job that is due no later in the day than any other never runs, if
\* some job is daily, in a calm environment: a plan made on the days before puts
\* it off by a day (job.rs:38-42), and the daily job is followed by a plan on the
\* weekday itself, for a week later.  The balance of main.rs is such a job.
EarliestWeekly(b) ==
    /\ Jobs[b].kind = "weekly"
    /\ \A j \in JobIndex : Jobs[b].time <= Jobs[j].time

EarliestWeeklyStarves ==
    (\E d \in JobIndex : Jobs[d].kind = "daily") =>
        \A b \in JobIndex : EarliestWeekly(b) => lastDue[b] = Never

\* The occurrences of job j since it last ran, or since the loop was entered,
\* that lie behind the clock, in standard or in summer time.
Missed(j) ==
    LET since == IF lastDue[j] > upSince THEN lastDue[j] ELSE upSince
        times == { DAY * d + Jobs[j].time - offset :
                      d \in DayOf(since) .. DayOf(now) + 1,
                      offset \in { 0, HOUR } }
    IN  { s \in times : since < s /\ s <= now /\ OccursAt(Jobs[j], s) }

\* How long after the instant it was made for a plan is followed by the next one:
\* after the job and its report, or when the recheck does not agree.
AfterRun ==
    { late + took + mailed :
        late \in Lateness, took \in Durations, mailed \in ReportTimes }
AfterSitOut ==
    { late + d + late2 + (GRACE - WAKEUP_BUFFER) :
        late \in Lateness, d \in Delays, late2 \in Lateness }
ReplansAfter == AfterRun \cup AfterSitOut

\* The instant s follows a change of the clock within a day and a job, which is
\* as long as a plan from before the change may last.
ByClockChange(s) ==
    \E c \in { SummerStart, SummerEnd }, x \in ReplansAfter \cup { 0 } :
        upSince < c /\ c <= s /\ s <= c + DAY + x

\* Some daily job is planned for in the 24 hours before job j is due at a time
\* when next_invocation is exact for j: on the same day, or on the last of the
\* month for a job of the first.
ComesAround(j) ==
    \E d \in JobIndex :
        /\ Jobs[d].kind = "daily"
        /\ \/ d = j
           \/ Jobs[d].time < Jobs[j].time
           \/ Jobs[j].kind = "monthly" /\ Jobs[j].on = 1

\* No later entry of the list takes the place of job j on a tie, save one that
\* starves.
Prevails(j) ==
    \A k \in JobIndex :
        k > j /\ Jobs[k].time = Jobs[j].time => EarliestWeekly(k)

\* In a calm environment every occurrence of a job that comes around is run
\* before the next plan is made, although a plan knows only one job and is
\* forgotten after it (executor.rs:115-131).  The only exceptions follow a
\* change of the clock: the plan made before it is an hour off on the wall, and
\* is taken for a spurious wakeup.
MissedOnlyByClockChange ==
    pc = "plan" =>
        \A j \in JobIndex : ComesAround(j) /\ Prevails(j) =>
            \A s \in Missed(j) : ByClockChange(s)

\* The job that holds the machine awake: its command or its report is not done.
RunningJob == IF pc \in { "running", "report", "stuck" } THEN nextJob ELSE 0

Runner == INSTANCE SerialRunner WITH
    Job <- JobIndex, None <- 0, clock <- now, asleep <- pc = "suspended",
    running <- RunningJob, last <- lastDue

\* Behind its clock readings, recheck, grace periods and panics the controller
\* is a SerialRunner: one job at a time, started on a machine that is awake, at
\* or after the instant it is for, which is later than the last one; no suspend
\* before the report of a job is through (executor.rs:115-131).
ImplementsRunner == Runner!Spec

\* executor.rs:127, "Keep the system awake for 60 seconds, and then hibernate
\* again": sitting out a spurious wakeup is not followed by a panic.
HibernatesAgain == spurious => pc # "dead"

-----------------------------------------------------------------------------
(***************************************************************************)
(* A calm environment: nothing but its alarms wakes the machine, and it is *)
(* not rebooted.  Its clock may be changed.  The theorems about it assume  *)
(* some of the following; MCBackupController has TLC evaluate them for the *)
(* jobs of main.rs.                                                        *)
(***************************************************************************)

Undisturbed == SpuriousLeads = {} /\ MaxReboots = 0

\* By how much a change of the clock may put a plan off: by an hour either way,
\* if the change comes between the first boot and the last plan.
ClockShifts ==
    LET passes(c) == \E boot \in BootInstants : boot < c /\ c <= Horizon
    IN  { y \in { -HOUR, 0, HOUR } :
             /\ y = HOUR => passes(SummerStart)
             /\ y = -HOUR => passes(SummerEnd) }

\* An alarm and the step after it are not later than the wakeup buffer allows.
AlarmsArePrompt == \A late \in Lateness, d \in Delays : late + d <= WAKEUP_BUFFER

\* When a plan is made, no job is due so soon that its wake time is past.
IsClear(shown) ==
    \A k \in JobIndex, d \in Delays :
        UntilTime(Jobs[k].time, shown) >= WAKEUP_BUFFER + d

JobsAreSpread ==
    \A j \in JobIndex, x \in ReplansAfter, y \in ClockShifts :
        IsClear(DAY + Jobs[j].time + x + y)

BootsAreClear ==
    \A boot \in BootInstants, late \in Lateness :
        IsClear(Local(boot + GRACE + late))

\* No plan is made between midnight and the weekly jobs that are due earlier in
\* the day than all others: no job runs past midnight and the machine is not
\* booted in these hours.
NightsAreQuiet ==
    \A b \in JobIndex : EarliestWeekly(b) =>
        /\ \A boot \in BootInstants, late \in Lateness :
              Jobs[b].time <= TimeOfDay(Local(boot + GRACE + late))
        /\ \A j \in JobIndex, x \in ReplansAfter, y \in ClockShifts :
              Jobs[b].time <= TimeOfDay(DAY + Jobs[j].time + x + y)

\* The alarm ends within the wakeup buffer, and not at its first second.
AlarmsAreWithinBuffer ==
    \A late \in Lateness : 1 <= late /\ late < WAKEUP_BUFFER

\* No job is due while another one runs, nor while the machine sits out a wakeup.
NoneDueMeanwhile ==
    \A j, k \in JobIndex, x \in ReplansAfter :
        x < UntilTime(Jobs[k].time, Jobs[j].time)

\* No job is due in the first seconds of a day.
NoneAtMidnight == \A j \in JobIndex : Jobs[j].time >= WAKEUP_BUFFER

=============================================================================
