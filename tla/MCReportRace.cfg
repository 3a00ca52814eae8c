\* Two report jobs and one administrator over one schedule with one due time.
CONSTANTS
    Tenant = {t1}
    Mailed <- NoneMailed
    Scheduler = {s1, s2}
    Worker = {w1}
    Manual = {}
    MaxDue = 1
    RetryBound = 4
    NoProc = NoProc
    NoWork = NoWork
SPECIFICATION Spec
SYMMETRY ProcessSymmetry
INVARIANTS
    TypeOK
    SingleOwner
    GeneratedHasFile
    DeletedHasNoFile
    GeneratedSettlesWindow
    CompletedWindowIsReported
PROPERTIES
    SettledStays
    ClaimsAreCounted
CHECK_DEADLOCK FALSE
