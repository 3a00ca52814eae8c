\* Two concurrent requests over one manual report.
CONSTANTS
    Tenant = {t1}
    Mailed <- NoneMailed
    Scheduler = {}
    Worker = {w1, w2}
    Manual = {m1}
    MaxDue = 1
    RetryBound = 5
    NoProc = NoProc
    NoWork = NoWork
SPECIFICATION Spec
SYMMETRY ProcessSymmetry
INVARIANTS
    DeletedHasNoFile
CHECK_DEADLOCK FALSE
