CONSTANTS
    Reports = {1, 2}
    Foreign = {9}
    Faults = TRUE
    MaxDeferrals = 0
    MaxUnread = 2
    MaxReboots = 0
SPECIFICATION FairSpec
CHECK_DEADLOCK FALSE
PROPERTY RefusalIsReported
