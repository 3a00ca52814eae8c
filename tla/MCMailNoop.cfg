\* An empty window against a claim of the same window.
CONSTANTS
    Runner = {p1, p2}
    Recipient = {r1}
    MaxDue = 1
    NoDelivery = NoDelivery
SPECIFICATION Spec
PROPERTIES
    NoopDefersToLease
CHECK_DEADLOCK FALSE
