------------------------------ MODULE JobTests ------------------------------
(***************************************************************************)
(* The unit tests of job.rs: a job, the instant it is asked about, and the *)
(* invocation the test expects.  All of them are about March and April     *)
(* 2026, in a zone whose clocks do not change.                             *)
(***************************************************************************)
EXTENDS BackupJobs

AtSecond(hour, minute, second) == At(hour, minute) + second
April(day) == March(31 + day)

Expect(job, after, due) == [job |-> job, after |-> after, due |-> due]

daily_job_lt ==
    Expect(Daily(At(4, 45)),
           March(15) + AtSecond(2, 7, 47), March(15) + At(4, 45))

daily_job_gt ==
    Expect(Daily(At(4, 45)),
           March(15) + AtSecond(4, 45, 7), March(16) + At(4, 45))

daily_job_eq ==
    Expect(Daily(At(4, 45)),
           March(15) + At(4, 45), March(16) + At(4, 45))

weekly_job_lt_sameday ==
    Expect(Weekly(Sunday, At(7, 45)),
           March(16) + AtSecond(7, 43, 47), March(22) + At(7, 45))

weekly_job_lt ==
    Expect(Weekly(Monday, At(7, 45)),
           March(15) + AtSecond(4, 2, 23), March(16) + At(7, 45))

weekly_job_gt ==
    Expect(Weekly(Monday, At(7, 45)),
           March(16) + AtSecond(7, 45, 23), March(23) + At(7, 45))

weekly_job_eq ==
    Expect(Weekly(Monday, At(7, 45)),
           March(16) + At(7, 45), March(23) + At(7, 45))

monthly_job_lt_sameday ==
    Expect(Monthly(1, At(7, 45)),
           March(1) + AtSecond(7, 43, 47), March(1) + At(7, 45))

monthly_job_lt ==
    Expect(Monthly(2, At(7, 45)),
           April(1) + AtSecond(4, 2, 23), April(2) + At(7, 45))

monthly_job_gt ==
    Expect(Monthly(1, At(7, 45)),
           March(16) + AtSecond(7, 45, 23), April(1) + At(7, 45))

monthly_job_eq ==
    Expect(Monthly(1, At(7, 45)),
           March(1) + At(7, 45), April(1) + At(7, 45))

UnitTests ==
    { daily_job_lt, daily_job_gt, daily_job_eq, weekly_job_lt_sameday,
      weekly_job_lt, weekly_job_gt, weekly_job_eq, monthly_job_lt_sameday,
      monthly_job_lt, monthly_job_gt, monthly_job_eq }

=============================================================================
