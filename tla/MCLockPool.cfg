\* serve with one administrator and one request, a command beside it, until after
\* the shutdown of serve.
CONSTANTS
    Ticker = ticker
    Loop = loop
    Command = {c1}
    Editor = {}
    Reader = {r1}
    Admin = {a1}
    MaxConns = 2
    NoProc = NoProc
SPECIFICATION FairSpec
INVARIANTS
    NothingLeaks
    PoolNotStuck
    LockExcludes
    SendsAtOnce
PROPERTIES
    CollectionEnds
    TriggerReopens
    PoolDrains
CHECK_DEADLOCK FALSE
