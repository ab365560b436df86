# meta-ethantwardy: verification project

This directory holds TLA+ models of the programs that the Yocto layers of this
repository add to their gadgets, the TLC configurations that check them on
small instances, and theorems about them that TLAPS checks. Paths below are
relative to `src/layers/`; `job.rs:38` and the like are lines of the files in
`meta-backup-gadget/src/backup-controller/src/`.

## Inventory

The repository is mostly build configuration. The parts with behaviour of
their own are few and short, and each of them decides something that is hard
to try out on a bench.

| Part | State | Operations | What is hard | What makes it right |
|---|---|---|---|---|
| **Job schedule**, `job.rs` | none: pure functions of an instant | `next_invocation`, `is_due_within`, `next_job` | month ends, leap days, "today, but earlier", exactly now, clock changes | the answer is the next occurrence of the schedule |
| **Executor**, `executor.rs`, `main.rs` | the clock, where the loop is, the plan (`next_job`, `due_at`) | `run`, `hibernate`, `sleep_until`, `run_job` | the clock is read three times for one decision; wakeups that are not the alarm; reboots with nothing persisted; `expect` and `unwrap` on everything | a job starts when it is due, once, and no due job is lost |
| **Mail report**, end of `run_job`, `executor/postfix.rs` | the state of `Send`, the log read so far, the submission | `completed_send`, `input_line`, `join!` | two futures, the lines of other mail in between, deferrals, a mail left over from before a reboot | the machine is not suspended with the report in the queue, and the report does end |
| **Slot selection, GRUB**, `meta-gadget/recipes-bsp/rauc-grub-bootconf/files/grub.cfg` | `ORDER`, `<slot>_OK`, `<slot>_TRY` in the environment block | one pass per boot; RAUC changes the same variables | power failures at any point; a slot that does not come up | a sound slot is started in the end |
| **Slot selection, U-Boot**, `meta-gadget/dynamic-layers/raspberrypi/recipes-bsp/u-boot-rauc-boot/files/boot.cmd` | `BOOT_ORDER`, `BOOT_<slot>_LEFT` | as above | what is saved, and when | as above |
| **Initramfs**, `meta-gadget/recipes-bsp/rauc-initramfs-init/files/init.sh` | none | mount the slot by its label | a label that is not there | a half-written slot never comes up |
| **Label handler**, `meta-gadget/recipes-bsp/rauc-label-handler` | the labels of the file systems | `e2label` after an installation | races with the kernel reading the labels; power failure before it | every slot has its own label |
| **spam-statistics**, `meta-email-gadget/src/spam-statistics` | one run: the paths listed, the messages read, the charts; nothing persists | scan of the Spam folders, weekly bins, windows, rates, charts, one mail | a maildir that changes while it is read; the edges of the windows; a clock read for each chart; charts without data | every message that stays in Spam is counted once, in the right week, day and bin |
| **postfix-makeconf.sh**, `meta-email-gadget/recipes-daemons/postfix/files` | `main.cf`, whether the oneshot has run | replace configuration blocks, append the local ones, start Postfix | settings of several lines; a file written in two steps; an exit status nobody looks at | the settings of the machine count, the others survive |
| **Spam learning**, `meta-email-gadget/recipes-mail/dovecot` | where a message is, the last lesson about it | sieve scripts on delivery and on moves | moves back and forth, `rspamc` failing | what was taught agrees with the folder |
| Backup jobs, fan control, overlays, firewall, daemons, tools | - | straight-line scripts and configuration | - | - |

Interactions:

- `run` calls `next_job` and `next_invocation` with one reading of the clock,
  `hibernate` and `sleep_until` take later ones, and `is_due_within` takes one
  more. The result of one step is used by the next after the machine has slept.
- `run_job` waits for a command, then for Postfix through the system log.
  Postfix only works while the machine is awake, which is why the report is
  waited for before the loop suspends the machine again.
- An error of any step is a panic. The unit has no `Restart=`, so a panic ends
  the backups until somebody reboots.
- `postfix-makeconf.service` makes `main.cf` before Postfix starts. Postfix hands
  mail to Dovecot, whose sieve scripts file it and teach rspamd; cron runs
  spam-statistics over the folders that Dovecot and the mail client change at
  the same time, and its report goes through the same Postfix.
- The bootloader, the initramfs, RAUC and the label handler share the labels
  of two file systems and a few variables, each written in a different phase
  of a boot or an installation.

`PROJECT.json` lists all components, including those that are not modelled and
why, and the hazards of this code line by line with the properties about them.

## Modules

    Calendar            chrono (external): instants, weekdays, days of the month
      JobSchedule       job.rs, and what a schedule means
        ScheduleChain       one job asked again and again
          MCScheduleChain       instance for TLC
        BackupController    executor.rs, main.rs, the machine around them
          MCBackupController    instance for TLC with the jobs of main.rs
      BackupJobs        the job list of main.rs
        JobTests            the unit tests of job.rs, also in ScheduleChain
    SerialRunner        what the controller promises (abstract)
    MailReport          run_job after the command, postfix.rs, Postfix (external)
    RaucSlots           two slots, init.sh, the label handler, an installation
      RaucGrub              grub.cfg and its environment block
      RaucUBoot             boot.cmd and the saved environment
        MCRauc                  a gadget with each of them, side by side
    PostfixMakeconf     postfix-makeconf.sh on lines, Postfix reading main.cf
    SpamFolder          one user's mail, the sieve scripts, rspamd's lessons
    SpamStatistics      statistics.rs, and the report on domains of spam.rs
    SpamScan            a run of spam-statistics over a SpamFolder
      EmailGadget           PostfixMakeconf and SpamScan put together, with boots
        MCEmailGadget           instance for TLC
    JobScheduleProofs, ScheduleChainProofs, BackupControllerProofs,
    MailReportProofs, RaucSlotsProofs, RaucGrubProofs, RaucUBootProofs,
    EmailGadgetProofs

A definition commented "Mutant of D" is not part of a model. It is a plausible
bug; with its body in place of that of D a named property must fail
(`PROJECT.json`, "mutants").

### JobSchedule

Instants are seconds since 1 March 2024 in standard time; years are counted
from March, so the calendar is closed-form arithmetic. A job is a record of
kind, time of day and weekday or day of the month. `UntilTime` is the closure
`time_until_invocation_tomorrow`, `UntilWeekly` and `UntilMonthly` are the arms
of the `match`, and `NextInvocation` decides on local time and adds the delta to
the instant, as chrono does for `DateTime<Local>`. One change to summer time and
one back are parameters. `next_job` is the relation `IsNextJob`, which says that on
a tie the *later* entry of the list wins; `NextJobFold` is the fold as the source
has it, and `NextJobIsLastOfTheFirst` compares the two.

The meaning of a schedule is stated separately (`OccursAt`,
`IsNextOccurrence`): the clock shows the time of the job, on its weekday or
day, and no earlier instant after the one asked about does. `ScheduleChain`
asks a job at an arbitrary instant and again at each answer, and says exactly
when the two agree:

- a daily job always is exact;
- a weekly job is a day late when it is asked about on another weekday past
  its time of day;
- a monthly job is a day late before its day of the month past its time of
  day, and a day early after its day of the month before its time of day;
- asked about at one of its own occurrences every job answers with the next
  one (`StaysOnSchedule`).

For a day of the month that not every month has, nothing says what the
schedule means, and `main.rs` has no such job. `MonthEndRunsOver` says what the
code does: in a month that is too short the job runs in the month after, as
many days late as the month is short.

The run covers thirteen jobs (those of `main.rs`, those of the unit tests, the
15th, and the 28th to the 31st), every boundary second of 53 days around the
ends of five months, one of them the February of a leap year, the instants the
unit tests ask about, and a chain of answers from each. `JobTests` is the eleven
unit tests as data: `AgreesWithTests` compares the model with what the
repository itself expects, so that an error in translating `job.rs` or in
`Calendar` would show.

### BackupController

`pc` says where `Executor::run` is; the actions follow the statements.
`nextJob` and `dueAt` are its two locals. `lastDue`, `upSince` and `spurious`
are history variables that only properties read. The clock moves only in
actions: by a member of `Delays` between two statements, by a member of
`Lateness` when a sleep or an alarm ends, by `Durations` and `ReportTimes` in a
job. A `Lateness` of 0 stands for a real-time clock slightly ahead of the
system's. `sleep_until` with a negative duration, `rtcwake` with an alarm in
the past and any error of `run_job` lead to `pc = "dead"`.

The environment wakes the machine before the alarm, creates and removes
`/etc/caffeinated`, and reboots the machine in any state, including a dead or
stuck one. Exactly at the wake time the source's comparison is strict: a machine
that wakes up neither late nor early by a second is taken for woken too early.
`Lateness = {0, 5, 14}` in `BackupNoisy` covers it.

`SerialRunner` is what all this is for, without how: time passes, the machine
sleeps only when no job runs, and a job starts on a machine that is awake, alone,
for an instant that has come and is later than its last one. The refinement
mapping is in `BackupController` (`Runner`): `asleep` is `pc = "suspended"`, the
job is running from `StartJob` until its report is through, also while the
report hangs. Planning, rechecks, grace periods and panics are stutters or the
passage of time. Planning is not in the abstract specification: which instants
a job is run for is the business of `ScheduleChain`.

### MailReport

The two futures of `join!` are interleaved: the watcher ("opening", then the
states of `Send`) and the submission. A log line is a pair of a queue id and
"from", "to" or "removed", which is what the three regular expressions tell
apart; which address a line names is whether its id is one of the controller's
own reports. Postfix is external and logs as it moves a message through its
queue. The status of a delivery is not in a log line because `SMTP_RE` does not
look at it, so a deferral looks like a delivery. A reboot drops the futures and
keeps the queue.

`NoReportLeftBehind` bounds what is still queued when the machine is suspended by
the number of reboots, each of which may have cut a report short (a failure ends
the controller until the next reboot). A report that was
left over may be taken for the one after it; the bound holds because in that
case the one taken has left in its place (`QueueIsShort`).

### RaucSlots, RaucGrub, RaucUBoot

A slot has an image (none, partial, good, bad) and a label. Writing a bundle
replaces the label by `rootfs-bundle` (`conf/machine/ab-mutable.conf:15`); the
handler gives the slot its name back, or does not find the label in time. RAUC
is external: it marks the target bad, writes it, makes it the primary slot and
runs the post-install handler, in this order. `Boot` is one pass of the boot
script, `SwitchRoot` is `init.sh`. A partially written root file system that is
mounted may come up or not; the property is that it is never mounted.

### PostfixMakeconf

A line of a configuration sets a key, goes on with the setting before it, or is
a note. `Keys` is the `grep` and `sed` of line 18, which also take a continuation
line that looks like a setting for one. `Stripped` is what the generated sed
script does, not what it was written to do: on the line of a replaced key `N`
appends the next line, the address `/^\s/` of the inner loop then looks at the
*beginning* of the pattern space, which is the key, so that the loop is never
entered, and `d` removes exactly these two lines. On the last line `N` has
nothing to append and GNU sed prints the line. `StripBase` and `AppendLocal` are
the two writes of `main.cf`; sed may fail in between, and `cat` decides the exit
status. How Postfix reads the result (`Block`, `Value`) is external.
`OtherSettingsSurvive` says which settings the script leaves alone in spite of
this; that it is to remove blocks (line 20) is `OnlyBlocksAreRemoved`, which does
not hold. `main.cf.local` does not change while the machine runs.

### SpamFolder, SpamStatistics, SpamScan

A message is outside Spam, in `new`, in `cur` without or with flags, or gone. Its
file has a new name whenever it is moved, noticed or flagged, and a new identity
(`copy`) each time it is put into Spam; `Path` is that name. Delivery runs
`spam.sieve`, moves run the two `imapsieve` scripts, and `rspamc` may fail. The
lesson kept is the last one.

Whether a message is spam is asked twice, in two ways. `spam.sieve:3` files it when
any of its `X-Spam` headers contains "Yes", in whatever case (`ContainsYes`).
`spam.rs:45-53` takes it for spam when the one header that the email crate
returns can be read and equals "Yes" (`isSpam` of `Email`). A message therefore has
a set of values of `X-Spam` (`xSpam`) and the one that is read (`xSpamRead`), and
`XSpamValue` tells apart "Yes", one that merely contains it in some spelling, and
the others. The two differ for `X-Spam: yes`: the message is filed into Spam
without its user, and reported as "misclassified as ham".
`MisclassifiedWereMovedOrMarked` says that there is no third way into that report,
and `MisclassifiedAsHam`, which does not hold, what the report says of itself.

`SpamStatistics` has the functions of `statistics.rs` under their names, on
sequences of messages whose dates are numbers of days. `previous_sunday` really
gives Mondays, `take_weeks(30)` takes 29 weeks and `last_n_days(14)` 15 dates, and
`misclassification_rate` is the share of ham of a week (the quotient of `part` and
`of`). The properties that hold state these facts. Three of them contradict a
comment, and each of the comments is a statement that does not hold:
`WeeksBeginOnSunday` (`statistics.rs:99`, "the previous Sunday"),
`RateIsOfTheCorrect` (`statistics.rs:72`, "correctly classified spam") and
`DailyChartWithinWindow` (`main.rs:26`, "Max number of days").
The stable sort is defined by ranks, so that the prover can reason about it.

`SpamScan` has one action per statement of `spam_statistics` that reads something
others change: the call of `rspamc`, each of the two listings, each file that is
opened, and each chart, because each reads the clock again. A file whose name is
gone is skipped, as are messages whose headers cannot be read (`scored` is FALSE).
A chart without data panics in `make_linechart` and `make_histogram`; for the box
plot the model leaves open what the plotting library does with an empty range.
The loops over domains and users are one folder, since folders of different
users have nothing in common. Each listing is one step, and flags are not taken
off again: a file that is renamed while the directory is being read may be seen
under both names or none, and how likely that is depends on the file system.
`PanicsWithoutRecentSpam` is about the message charts: the counts of `rspamc`,
their `unwrap` and their pie chart are not modelled.

### EmailGadget

Puts the parts together: `postfix` is up only after the oneshot (`Before=`,
`RequiredBy=`), is needed for deliveries and for the report, and may be restarted
without the oneshot; cron runs after the boot and once a day; midnight may fall
between any two steps; a reboot keeps the files and ends everything that runs.
`touched` is a history variable: the messages somebody renamed or moved during the
scan.

## Runs

| Run | Result | Shows |
|---|---|---|
| `ScheduleChain.cfg` | holds, 12359 states | the statements above |
| `DueOnItsDay.cfg` | violated | the inexact cases, against a test and two comments of `job.rs` |
| `BackupCalm.cfg` | holds, 6164 states | five weeks of `main.rs` over the start of summer time: no panic; no occurrence of the daily, the Sunday and the monthly job is missed but in the day after the change of the clock; the Monday balance *never* runs; `CalmAssumption`: these jobs satisfy the hypotheses of the theorems on a calm environment |
| `BackupNoisy.cfg` | holds, 1181396 states | the inductive invariant; never early; starts only for later instants, and only for instants of the schedule up to a day; the recheck confirms the plan; the controller implements `SerialRunner` - with late alarms, spurious wakeups, faults and a reboot anywhere |
| `HibernatesAgain.cfg` | violated | a wakeup sat out just before the alarm ends in a panic, against the comment at `executor.rs:127-128` |
| `MailReport.cfg` | holds, 310578 states | the inductive invariant; the watcher only ends for a message that left the queue; at most one report per reboot is left in the queue of a suspended machine; a report whose log was open in time returns |
| `RefusalIsReported.cfg` | violated | a refused submission is waited for, for ever |
| `RaucGrub.cfg` | holds, 299 states | the whole state space: no half-written slot comes up, labels are never mixed up, a broken system1 falls back to system0, an interrupted installation does not keep the machine down |
| `RaucUBoot.cfg` | holds, 123 states | the whole state space: there is always a slot to try, an interrupted installation does not keep the machine down |
| `SomeBootloaderFallsBack.cfg` | violated | a slot that does not come up is tried for ever with a sound one beside it: with GRUB a system0 that is marked good, with U-Boot any slot, because the attempts are counted after they are saved |
| `EmailGadget.cfg` | holds, 501668 states | Postfix only runs with the settings of the machine; other settings survive unless they stand next to a replaced one or sed failed; no message is counted twice and none that stands still is missed; the weeks, days and bins of the charts; a report that is not sent for old spam; senders of misclassified mail; lessons agree with folders |
| `SomeCommentHolds.cfg` | violated | one report of which neither `statistics.rs:99`, `statistics.rs:72`, `main.rs:26` nor `spam.rs:180` is right, on a machine of which `postfix-makeconf.sh:20` is not |

What the violated runs say is in `PROJECT.json`, "findings", with the lines of
the code and of the comment or test it disagrees with. Two of these runs are about
several claims at once. Their property is the disjunction, which every one of the
claims implies, so that its counterexample refutes all of them in one behaviour:

- `SomeBootloaderFallsBack`, that `SelectsBootableSlot` holds of the gadget with
  GRUB or `AttemptsRunOut` of the one with U-Boot. The counterexample ends in a
  loop in which both are switched off and on and neither comes up.
- `SomeCommentHolds`, that one of `WeeksBeginOnSunday`, `RateIsOfTheCorrect`,
  `DailyChartWithinWindow`, `MisclassifiedAsHam` and `OnlyBlocksAreRemoved` holds. The
  counterexample ends with a report, about to be sent, with weeks that begin on
  Mondays, a rate of 0 for weeks of spam, 15 days, and `c@shop` as the sender of
  ham, although its only message was filed as spam by `spam.sieve`; Postfix, which
  is to send it, runs with `permit_mynetworks` among the files of its TLS chain,
  since that line was left over from a setting that the machine replaces.

That the balance never runs is stated as a property that *holds*
(`EarliestWeeklyStarves`, of any such job), because it takes the whole loop to
see it: the plans made on Sunday after 02:00 put the balance off to Tuesday, and
Monday's daily backup comes in between and plans again, from Monday, for a week
later.

### Bounds

- `ScheduleChain`: the instants asked about are all seconds next to and at a
  time of day some job has, and midnight; between those the branches do not
  change. The horizon lets each chain answer for up to three months.
- `BackupController`: `Horizon` ends planning after five weeks (a change of the
  clock, a month end and five Sundays) or the weekend of 31 May 2026, a
  Sunday that is the last day of its month before a Monday that is the first.
  `MaxReboots` is 1: what survives a reboot is only `/etc/caffeinated`, so
  that a second one repeats the first. `SpuriousLeads` are just inside the
  wakeup buffer, just outside the minute of grace, and hours ahead. Commands
  last ten minutes or two hours in the calm run; in the noisy one they last just so
  long that the next job's wake time is a few seconds away or already past. The
  `Lateness` of the noisy run stands for an alarm that is early by the clock of
  the system, one that leaves time to sleep until the job, and one that leaves
  so little that the next delay is past the job.
- `MailReport`: three reports, so that a left-over report can be taken for
  the second and the second for the third; one foreign message; one deferral
  each; two log lines unread; one reboot.
- `RaucGrub`, `RaucUBoot`: no bounds, the state space is finite.
- `EmailGadget`: three kinds of openings, each with the bounds its question
  needs. `EmptyOpenings` has no mail, all four local configurations and two
  power failures, one in each gap between the writes. The base configuration has
  settings of one, two and three lines, a note and a setting on the last line,
  which are all the cases the sed script tells apart; the local ones replace each
  of them, and two that stand one behind the other. `QuietOpenings` has nobody at
  the mail: two messages with every age next to an edge of the windows of 7, 14
  and 15 days and of 29 and 30 weeks, on each weekday, with one midnight at any
  step. `BusyOpenings` bounds the deliveries and steps of the client
  (`clientSteps`): three, from a mail to be delivered to its second move, and two,
  which is a message out of Spam and back, together with a midnight
  and a reboot. There are four messages: one marked as spam, two of one domain of
  which one has no `X-Spam` and the other one that only `spam.sieve` takes for
  "Yes", and one whose headers cannot be read. `DailyOpenings` has 15 messages, one of
  each day, for `SomeCommentHolds.cfg` alone; that run reads them in one order
  of the directory (`FoundInOrder`), since one behaviour is enough to refute a claim.

Deadlock is not checked where the model ends by a bound or where the program
really stops (a dead controller without reboots left). The RAUC runs check it.

### Fairness

- `MailReport`: both futures are polled until they are done (the runtime does
  that), the machine wakes up for its next job, and Postfix works through its
  queue; the number of deferrals is bounded. Nothing obliges a fault, a reboot
  or a new report to happen. `ReportReturns` is about the case that the log is
  attached before the submission: the source polls the watcher first but
  attaches the log in an `await`, so that this order is likely and not
  guaranteed. In the other order the report may hang.
- `RaucGrub`, `RaucUBoot`, and `MCRauc` for both: a machine that is off boots, a kernel that was
  started reaches `init.sh`, a machine that hangs is switched off and on by
  somebody or by a watchdog, and the power does not fail in the middle of a boot
  for ever. Nobody is obliged to install or confirm an update.
- The schedule, controller and email gadget runs state safety only. Nothing in
  spam-statistics waits: that a run ends is that of a loop over a finite list.

## Proofs

TLAPS checks the following for every value of the constants that satisfies the
named assumptions of the modules. `JobsAssumption`, `SummerAssumption`,
`EnvironmentAssumption`, `ChainAssumption`: the list holds schedules, instants
and durations are natural numbers, the list is not empty. `ConfAssumption`,
`MailAssumption`, `OpeningsAssumption`: configurations are sequences of lines,
headers have their types, and an opening has places, dates and bounds.

- `JobScheduleProofs!NextInvocationLater`: `next_invocation` lies strictly in
  the future. The delta is at least a second in every branch
  (`UntilNextPositive`); for the monthly ones this rests on
  `MonthRanges`, that a day of the month is at most `num_days_in_month`.
- `JobScheduleProofs` then says what `next_invocation` answers, for a clock that
  is not changed in the five weeks to come (`EvenAhead`, an assumption about
  the instant asked about and not about the year: a change of the clock may
  come later). The candidates for an occurrence are the days from today at the
  job's time; `InDaysClock` says what the clock shows there,
  `NoOccurrenceBefore` that it is enough to look at these days, `DaysToWeekday`
  does the arithmetic modulo seven, and `DayComesRound` that on months of
  different lengths. The results are `DailyIsNext`, `WeeklyIsNextOrDayLate`,
  `MonthlyIsNextOrDayOff`, `MonthlyRunsOver` for the days that not every month
  has, and `NextAfterOwnOccurrence`: asked about at an occurrence of its own
  every job answers with the next one.
- `ScheduleChainProofs` lifts them to the properties of the run:
  `DailyAlwaysExact`, `WeeklyAlwaysExactOrDayLate`, `MonthlyAlwaysExactOrDayOff` and
  `MonthEndAlwaysRunsOver` hold whenever the clock is even for five weeks from the
  instant asked about; `StaysAlwaysOnSchedule` is the action property and
  assumes that of all instants of the chain. `NoSummerIsEven` shows that a clock
  that is never changed is one of those.
- `BackupControllerProofs!InductiveInvariant`, and from it `TypeCorrect`,
  `NeverStartsEarly` and `StartsAlwaysAdvance`. `NeverEarly` and `StartsAdvance`
  are not inductive: that a job does not start twice for one instant needs
  that while a job is planned it last ran for an earlier instant than the one
  planned, and for `Plan` to establish this that no job has run for an instant
  still ahead of the clock. That in turn holds because the clock passes `dueAt`
  before the job starts. These are the conjuncts of `IInv`;
  `NextInvocationLater` closes the step for `Plan`.
- `BackupControllerProofs!ControllerImplementsRunner`: the refinement of
  `SerialRunner`. `InitRunner` maps the initial states, `NextRunner` goes through
  the actions; it needs `IInv` for `StartJob` (the instant planned is later than
  the last one and has come) and for `WakeUp` (the clock does not go back).
- `BackupControllerProofs!RecheckAlwaysConfirms`: in the seconds between wake
  time and an occurrence `next_invocation` answers with that occurrence, for
  jobs of every kind that are not due in the first 15 seconds of a day, if the
  clock is not changed in these seconds. The inexact branches are all about other
  days than today.
- `BackupControllerProofs!RunsAlwaysOnScheduleOrDayOff`: whatever wakes the machine
  up or reboots it, every job is run for an instant of its schedule or for the
  day by which `next_invocation` is off. `PlansOnSchedule` is the invariant behind it:
  the plan at hand is on schedule as well, and the clock is not behind the first
  boot. It assumes that the list has no job on the 29th to the 31st (`main.rs` has
  none) and an even clock from the first boot to five weeks after the last plan.
- `JobScheduleProofs!NextJobIsTheFold`: for every list of jobs the fold of
  `next_job` ends with a job that `IsNextJob` describes, and there is no other. So
  the relation by which `Plan` chooses leaves it no choice. This needs an induction
  over the list. The library's induction theorems take a predicate and cannot be
  used, but their premise can: `LeastOfNat` takes from the well-foundedness of the
  order that a set of numbers has a least one, and `AllOfNat` from that that a set
  with 0 and all successors is all of `Nat`; for each induction the set is written
  out. `BestExists` goes over the list; `FoldIsBest` shows first that some function
  satisfies the equation of the fold, and then that any does what `IsBestOf` says.
  `ScheduleChainProofs!NextJobAlwaysLastOfTheFirst` is the property of the run.
- `ScheduleChainProofs!AlwaysAgreesWithTests`: the answers the unit tests expect
  are computed by the provers, test by test. Assumed is that the zone's clock
  shows the instants of the tests unchanged, as that of the tests does.
- `BackupControllerProofs` then turns to a calm environment: nothing but its
  alarms wakes the machine up, and it is not rebooted (`Undisturbed`). Its clock may
  be changed. `InTime` says where the clock is at each step of the loop, so that a
  plan is made at a time of day which the job before it and its length decide
  (`PlanTimes`), an hour earlier or later if a change of the clock came in between
  (`ClockShifts`). What the loop makes of a list of jobs then depends on their times
  of day only, and the hypotheses, at the end of `BackupController`, are about these:
  - `NeverDiesInCalm`: no panic, if nothing fails, the wakeup buffer is long
    enough for the alarms and the step after them, and no plan is made within
    15 seconds of a time at which some job is due;
  - `EarliestWeeklyAlwaysStarves`: a weekly job that is due no later in the day
    than any other never runs, if some job is daily and no plan is made between
    midnight and that job (`NightsAreQuiet`). Every plan is then made past its time
    of day, from which `next_invocation` puts it off by a day, and the daily job
    comes first (`WeeklyIsADayAway`, `NextStarves`);
  - `MissedAlwaysByClockChange`: no occurrence of a job, of whatever kind, is missed,
    save within a day after a change of the clock (and the length of a job, which is
    how long a plan from before the change may be in force). The job has to come
    around (`ComesAround`): a daily job is planned for in the 24 hours before it, at an
    instant from which `next_invocation` is exact for it; and to win its ties
    (`Prevails`). In addition the alarms end within the wakeup buffer and no job is
    due while another one runs. The invariant (`Caught`) says of each step of the
    loop which occurrences the plan at hand may still pass over: none
    (`PlanPassesOverNone`, `RecheckPassesOverNone`, `RunPassesOverNone`);
  - `NothingIsMissed`: the same without exceptions when the clock is not changed.

  With the durations and delays of `BackupCalm.cfg`, and the change of the clock
  it has, the jobs of `main.rs` satisfy all of these hypotheses, and all but the
  balance come around; TLC evaluates this (`CalmAssumption`). Two things are worth
  knowing of that list. When the first of a month is a Monday the scrub is due at the
  same minute as the balance, which is the later entry of the list and would win
  the tie: the scrub is run only because the balance starves. And with the change
  back to standard time between the first boot and the last plan `NightsAreQuiet`
  does not hold of the list, because the plan after the scrub of 02:00 could be made
  at ten past one again; `EarliestWeeklyAlwaysStarves` and the theorems on missed
  occurrences then say nothing about it.
- `RaucSlotsProofs` has one lemma for every step of the slots, and
  `RaucGrubProofs`, `RaucUBootProofs` combine them with the two bootloaders:
  `HalfWrittenNeverComesUp`, `NoSlotEverMislabelled`, `System0IsNeverOnTrial`,
  `ThereIsAlwaysAValidSlot`, `SlotsAreSafe`. The invariant (`SlotsIInv`) says that
  a partial image is called `rootfs-bundle`, that the running slot is sound, that
  only a running machine installs, and that the target is complete when the
  label handler runs; so the only slot called `rootfs-bundle` that the handler can
  meet is the target. U-Boot needs in addition that the running slot has
  attempts left.
- `MailReportProofs!InductiveInvariant`, and from it `RemovedIsAlwaysRemoved`,
  `NoReportIsLeftBehind`, for any number of reports, foreign mails, deferrals and
  reboots. `LogIsTrue` says that what the log says of a removal is so;
  `QueueIsShort` counts: while a report is on its way the queue holds at most one
  message for each reboot and one more, and one less once the watcher has seen
  a report leave. The cardinalities are those of `QueueGrows`
  and `QueueShrinks`, from the library's theorems on finite sets.
- `EmailGadgetProofs!InductiveInvariant`, and from it `AlwaysCountedOnce`,
  `StandingMailIsAlwaysCounted`,
  `MisclassifiedWereAlwaysMovedOrMarked` and `LessonsAlwaysMatchFolders`, for any number of messages, deliveries, moves,
  midnights and power failures. `ListedOnce` is the argument against counting twice:
  of one copy of a message at most one name is listed, because `cur` is listed
  first and a file never goes back to `new`; a message that is read under one copy
  can only be listed again under an older one, whose file is gone (`ReadOnce`).
  `StandingMailIsOnItsWay` is the one against missing: an untouched message is
  listed under the name it has, or read. `ReadAreMovedOrMarked` is the one about
  the report on domains: what is read as ham was in Spam at that moment, and by
  `LessonsMatchFolders` that takes a lesson or a `ContainsYes`; a lesson stays one.
- `EmailGadgetProofs!LocalSettingsAlwaysWin`: `ConfigurationIsMade` says that
  `main.cf` is that of the image, stripped, or nothing, and behind it the local
  configuration, whenever Postfix is up; and `LastSettingsCount` that the settings
  at the end of a configuration count whatever is before them.
- `EmailGadgetProofs!OtherSettingsAlwaysSurvive`: what `main.cf` keeps. Of the two
  steps of the script, `StrippingKeeps` is about sed: a setting that is not next to
  a replaced one has the value it had. The script is a recursive function over the
  lines (`StripStarts`). Instead of an induction, `StartsAre` gives a closed form: in
  an uninterrupted row of lines that set replaced keys the lines at odd places begin
  a block. That this function satisfies the equation is
  enough for the one chosen by the definition to satisfy it, too, and nothing more
  is used. `StrippedInOrder` says that what is left are the lines that
  are not removed, in their order, and `SettingIsKept` that with the last setting of
  a key all the lines stay that go on with it. `AppendingKeeps` is about `cat`.
  It assumes that each local configuration is `WellFormed`: its settings have names,
  and it does not begin in the middle of a setting. This is needed: a
  `main.cf.local` that begins with a continuation line goes on with the last
  setting of the image, whatever that is.
- `EmailGadgetProofs!SortedIsSorted`: the sort by ranks gives the messages of the
  list, each at one place, in the order of their dates. `RankOrders` shows that
  ranks are different and grow with the dates, `NumberingIsOnto` that every place
  is taken.
- `EmailGadgetProofs!WeeklyChartsAreAlwaysCalendarWeeks`,
  `DailyChartIsAlwaysFifteenDates`, `ScoresAreAlwaysBinned`,
  `PanicsAlwaysWithoutRecentSpam`: the charts are those of the list read, however
  many messages there are, whatever their dates and however often the clock passes
  midnight between two charts. `ChartsAreOfTheList` keeps for each chart that
  it was right on a day since the run began (`ReadingDays`), and `ChartsOutlastTheDay`
  that it stays so while the clock goes on. That `last_n_days` may cut the list
  at the first date inside the window, and `take_while` may stop at the first one
  outside, rests on `OldestFirst`, and that on `SortedIsSorted`. The counts of bins
  and weeks are compared through bijections (`SameNumber`, `CountedAlike`), since
  the two sides count different things: places in a list that was cut, and
  messages. `DatesArePast` says that no file is dated after the clock
  (`spam.rs:76`, the modification time): with one that is, a chart of the last days
  would have more of them.

Only model-checked is all liveness, `FallsBackToSystem0`, `InterruptedWriteComesUp`
and `ReportReturns`: fairness is out of the prover's reach. Every invariant and
action property that a passing run checks is also stated by a theorem.

## Plan

Done, in this order: the schedule, the controller, the mail report, the slots;
then the unit tests as data, the abstract runner and its refinement, the email
gadget with its four parts, and the invariants of all of them proved.

What would come next:

1. what the loop does on the day of the change back to standard time, on which
   `NightsAreQuiet` fails for `main.rs`;
2. a composition of `BackupController` with `MailReport` instead of the abstract
   `Report`, `Fail` and `ReportHangs`, to be shown to implement `SerialRunner`, too;
3. the counts that `rspamd.rs` reads, if the format of `rspamc stat` is to be
   relied on.

## Not modelled

The content of mails and log lines, the commands of the jobs beyond their
duration, the start-up of `main` before the loop, the kernel command line and the
data partition in the boot scripts, the numbers that `rspamc stat` prints and
their pie chart, the assembly of the report's MIME message, the drawing of the
charts, and everything marked `not_modelled` in
`PROJECT.json`: third-party configuration, build recipes and developer tools
have no behaviour of their own to check.
