CONSTANTS
    Reports = {1, 2, 3}
    Foreign = {9}
    Faults = TRUE
    MaxDeferrals = 1
    MaxUnread = 2
    MaxReboots = 1
SPECIFICATION FairSpec
INVARIANTS
    IInv
    RemovedIsRemoved
    NoReportLeftBehind
PROPERTIES
    ReportReturns
CHECK_DEADLOCK FALSE
