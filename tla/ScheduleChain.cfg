CONSTANTS
    Jobs <- MCJobs
    SummerStart <- MCNever
    SummerEnd <- MCNever
    Asked <- MCAsked
    Horizon <- MCHorizon
SPECIFICATION Spec
INVARIANTS
    DailyExact
    WeeklyExactOrDayLate
    MonthlyExactOrDayOff
    MonthEndRunsOver
    AgreesWithTests
    NextJobIsLastOfTheFirst
PROPERTIES
    StaysOnSchedule
CHECK_DEADLOCK FALSE
