CONSTANTS
    Jobs <- MCJobs
    SummerStart <- MCNever
    SummerEnd <- MCNever
    BootInstants <- MCNoisyBoot
    Delays = {0}
    Lateness = {1}
    SpuriousLeads = {5, 65, 15300}
    Durations = {600, 10790}
    ReportTimes = {5}
    Faults = FALSE
    RebootGaps = {30}
    MaxReboots = 1
    Horizon <- MCNoisyHorizon
SPECIFICATION Spec
INVARIANT HibernatesAgain
CHECK_DEADLOCK FALSE
