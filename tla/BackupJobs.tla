----------------------------- MODULE BackupJobs -----------------------------
(***************************************************************************)
(* The job list of backup-controller/src/main.rs, and the days around the  *)
(* dates that its tests and the models of it are about.                    *)
(***************************************************************************)
EXTENDS Calendar

Sunday == 0
Monday == 1

At(hour, minute) == 3600 * hour + 60 * minute

\* Midnight of a day of March 2026; the first of them is day 730.
March(day) == (729 + day) * DAY

Daily(time)          == [kind |-> "daily",   on |-> 0,       time |-> time]
Weekly(weekday, time) == [kind |-> "weekly",  on |-> weekday, time |-> time]
Monthly(day, time)   == [kind |-> "monthly", on |-> day,     time |-> time]

\* btrbk run; backup-databases.sh; btrfs scrub; btrfs balance.
MainJobs ==
    << Daily(At(4, 45)),
       Weekly(Sunday, At(7, 45)),
       Monthly(1, At(2, 0)),
       Weekly(Monday, At(2, 0)) >>

Btrbk == 1
Databases == 2
Scrub == 3
Balance == 4

=============================================================================
