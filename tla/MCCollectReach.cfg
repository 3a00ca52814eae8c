\* One notice over five moments, late listing, failing collections and lookups:
\* nothing gets out of reach, and what is asked for is matched in the end.
CONSTANTS
    Collector = {c1}
    Notice = {n1}
    Filter = {f1}
    Rule = {any, regional}
    Category <- TwoCategories
    CategoryOf <- Only
    Deadline <- NeverExpires
    Hits <- MCHits
    Overlap = 2
    Lookback = 9
    Grain = 2
    Delay = 1
    LookupBudget = 1
    SessionLoss = FALSE
    MaxTime = 4
    MaxVersion = 1
    MaxRev = 1
    NoProc = NoProc
    n1 = n1
    n2 = n2
    any = any
    regional = regional
SPECIFICATION FairSpec
INVARIANTS
    NothingOutOfReach
PROPERTIES
    MatchedInTheEnd
CHECK_DEADLOCK FALSE
