\* One job with crashes over a schedule upgraded from mail, two due times.
CONSTANTS
    Tenant = {t1}
    Mailed <- FirstMailed
    Scheduler = {s1}
    Worker = {}
    Manual = {}
    MaxDue = 2
    RetryBound = 1
    NoProc = NoProc
    NoWork = NoWork
SPECIFICATION FairSpec
INVARIANTS
    OnePendingWindow
PROPERTIES
    ScheduleFollowsWindows
    WindowSettlesOrParks
CHECK_DEADLOCK FALSE
