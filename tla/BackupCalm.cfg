CONSTANTS
    Jobs <- MCJobs
    SummerStart <- MCSummerStart
    SummerEnd <- MCNever
    BootInstants <- MCCalmBoot
    Delays = {0, 1}
    Lateness = {1, 5}
    SpuriousLeads = {}
    Durations = {600, 7200}
    ReportTimes = {5}
    Faults = FALSE
    RebootGaps = {}
    MaxReboots = 0
    Horizon <- MCCalmHorizon
SPECIFICATION Spec
INVARIANTS
    NeverDies
    MissedOnlyByClockChange
    EarliestWeeklyStarves
CHECK_DEADLOCK FALSE
