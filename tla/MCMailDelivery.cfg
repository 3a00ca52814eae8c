\* Two digest jobs, with crashes, lost answers and leases that run out, over one window.
CONSTANTS
    Runner = {p1, p2}
    Recipient = {r1}
    MaxDue = 1
    NoDelivery = NoDelivery
SPECIFICATION FairSpec
INVARIANTS
    OneSenderPerAttempt
    SentIsTrue
PROPERTIES
    ImplementsLedger
    WindowSettles
CHECK_DEADLOCK FALSE
