\* Two addresses, two accounts and two invitations of one company, two requests.
CONSTANTS
    Account = {1, 2}
    Root = 0
    MaxId = 2
    Email = {e1, e2}
    Tenant = {t1}
    Invitation = {i1, i2}
    Request = {q1, q2}
    MaxSessions = 1
    None = None
SPECIFICATION Spec
SYMMETRY Symmetry
INVARIANTS
    AddressTakenOnce
    CheckStillHolds
    CompanyKeepsAdmin
    SomeoneProceeds
CHECK_DEADLOCK FALSE
