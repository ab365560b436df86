CONSTANTS
    BaseConf <- MCBaseConf
    LocalConfs <- MCLocalConfs
    SedMayFail = FALSE
    Messages <- MCDays
    Mail <- MCDailyMail
    LearningFails = FALSE
    ScanFaults = FALSE
    Openings <- DailyOpenings
SPECIFICATION Spec
CONSTRAINT FoundInOrder
INVARIANT SomeCommentHolds
CHECK_DEADLOCK FALSE
