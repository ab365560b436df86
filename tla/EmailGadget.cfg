CONSTANTS
    BaseConf <- MCBaseConf
    LocalConfs <- MCLocalConfs
    SedMayFail = TRUE
    Messages <- MCMessages
    Mail <- MCMail
    LearningFails = TRUE
    ScanFaults = TRUE
    Openings <- MCOpenings
SPECIFICATION Spec
INVARIANTS
    IInv
    LocalSettingsWin
    OtherSettingsSurvive
    CountedOnce
    StandingMailIsCounted
    WeeklyChartsAreCalendarWeeks
    DailyChartIsFifteenDates
    ScoreBins
    PanicsWithoutRecentSpam
    MisclassifiedWereMovedOrMarked
    LessonsMatchFolders
CHECK_DEADLOCK FALSE
