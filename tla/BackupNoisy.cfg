CONSTANTS
    Jobs <- MCJobs
    SummerStart <- MCNever
    SummerEnd <- MCNever
    BootInstants <- MCNoisyBoot
    Delays = {2}
    Lateness = {0, 5, 14}
    SpuriousLeads = {5, 65, 15300}
    Durations = {10790}
    ReportTimes = {5}
    Faults = TRUE
    RebootGaps = {30}
    MaxReboots = 1
    Horizon <- MCNoisyHorizon
SPECIFICATION Spec
INVARIANTS
    IInv
    NeverEarly
    RecheckConfirms
    RunsOnScheduleOrDayOff
PROPERTIES
    StartsAdvance
    ImplementsRunner
CHECK_DEADLOCK FALSE
