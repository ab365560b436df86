-------------------------- MODULE MCScheduleChain ---------------------------
EXTENDS ScheduleChain

\* The list of main.rs, the jobs of the unit tests of job.rs, and monthly jobs
\* in the middle of the month, at its end, and on days that some months lack.
MCJobs == MainJobs \o
    << Weekly(Monday, At(7, 45)),
       Monthly(2, At(7, 45)),
       Monthly(15, At(0, 0)),
       Monthly(28, At(23, 59)),
       Weekly(6, At(12, 0)),
       Monthly(1, At(7, 45)),
       Monthly(29, At(2, 0)),
       Monthly(30, At(12, 0)),
       Monthly(31, At(4, 45)) >>

\* The ends of January, February and March 2026 (day 730 is 1 March), of January
\* 2028, and of the February after it, which has 29 days.
MCDays == (700 .. 703) \cup (728 .. 763) \cup (1430 .. 1433) \cup (1456 .. 1464)

\* Seconds on either side of, and exactly at, the times of the jobs.
MCTimes == { 0, 1, 86399 } \cup
    UNION { { At(h, 0) - 1, At(h, 0), At(h, 0) + 1 } : h \in { 2, 12 } } \cup
    UNION { { At(h, 45) - 1, At(h, 45), At(h, 45) + 1 } : h \in { 4, 7 } }

MCAsked == { d * DAY + t : d \in MCDays, t \in MCTimes }
           \cup { test.after : test \in UnitTests }

\* A quarter of a year of answers after the last question.
MCHorizon == 1550 * DAY

\* No clock change in between.
MCNever == 2000 * DAY

=============================================================================
