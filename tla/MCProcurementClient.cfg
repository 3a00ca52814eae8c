\* Two callers, two regions and a cache of one; up to three notices on pages of one,
\* so that the list can grow between the two pages of a listing; two days of two
\* calls.
CONSTANTS
    Caller = {c1, c2}
    Lister = {c2}
    Key = {k1, k2}
    MaxDay = 2
    Limit = 2
    RetryAttempts = 2
    LookupBudget = 2
    CacheLimit = 1
    PageSize = 1
    MaxPages = 2
    MaxItems = 3
    Malformed <- MalformedItems
    None = None
SPECIFICATION FairSpec
INVARIANTS
    AllowanceHolds
    SingleFlight
    ListingComplete
PROPERTY
    CallsReturn
CHECK_DEADLOCK FALSE
