------------------------ MODULE MCBackupController --------------------------
(***************************************************************************)
(* The controller with the jobs of main.rs, in March and April 2026.       *)
(***************************************************************************)
EXTENDS BackupController, BackupJobs

MCJobs == MainJobs

June(day)  == March(31 + 30 + 31 + day)

MCNever == 2000 * DAY

\* The summer time of America/Chicago, the zone of the target: from 8 March
\* 2026, 02:00 standard time.
MCSummerStart == March(8) + At(2, 0)

\* The calm run: five weeks with the change of the clock, the turn of a month
\* and five Sundays.
MCCalmBoot == { March(6) + At(20, 0) }
MCCalmHorizon == March(41)

\* The weekend of 31 May 2026: a Sunday that is the last day of its month and
\* a Monday that is the first of the next one.
MCNoisyBoot == { June(-1) + At(22, 0) }
MCNoisyHorizon == June(1) + At(5, 0)

\* The hypotheses of the theorems about a calm environment hold of these jobs,
\* and all of them but the balance, which starves, come around.
ASSUME CalmAssumption ==
    Undisturbed =>
        /\ AlarmsArePrompt /\ AlarmsAreWithinBuffer
        /\ JobsAreSpread /\ BootsAreClear /\ NightsAreQuiet
        /\ NoneDueMeanwhile /\ NoneAtMidnight
        /\ HOUR \in ClockShifts
        /\ \A j \in JobIndex :
              IF j = Balance THEN EarliestWeekly(j)
                             ELSE ComesAround(j) /\ Prevails(j)

=============================================================================
