CONSTANTS
    Jobs <- MCJobs
    SummerStart <- MCNever
    SummerEnd <- MCNever
    Asked <- MCAsked
    Horizon <- MCHorizon
SPECIFICATION Spec
INVARIANT DueOnItsDay
CHECK_DEADLOCK FALSE
