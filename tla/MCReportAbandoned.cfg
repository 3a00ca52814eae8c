\* The claim of the design document on a job that died while generating.
CONSTANTS
    Tenant = {t1}
    Mailed <- NoneMailed
    Scheduler = {s1}
    Worker = {w1}
    Manual = {}
    MaxDue = 1
    RetryBound = 1
    NoProc = NoProc
    NoWork = NoWork
SPECIFICATION FairSpec
PROPERTIES
    AbandonedWindowReclaimed
CHECK_DEADLOCK FALSE
