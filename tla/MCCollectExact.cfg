\* Two notices with revisions, one of which expires, edits of a filter, lost locks.
CONSTANTS
    Collector = {c1}
    Notice = {n1, n2}
    Filter = {f1}
    Rule = {any, regional}
    Category <- TwoCategories
    CategoryOf <- OneEach
    Deadline <- Expiring
    Hits <- MCHits
    Overlap = 1
    Lookback = 9
    Grain = 1
    Delay = 0
    LookupBudget = 1
    SessionLoss = TRUE
    MaxTime = 2
    MaxVersion = 2
    MaxRev = 2
    NoProc = NoProc
    n1 = n1
    n2 = n2
    any = any
    regional = regional
SPECIFICATION Spec
INVARIANTS
    MatchesBelong
    RegionNotStale
    MatchesExact
CHECK_DEADLOCK FALSE
