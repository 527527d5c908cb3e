SPECIFICATION Spec
CONSTANTS
    DN = {1, 3}
    Company = {"c1"}
    RouteCompany <- MCRoute
    NoCompany = "none"
    NoUser = NoUser
    Call = {k1, k2}
    NoCall = NoCall
    CallCompany <- MCCallCompany
    CallStamp <- MCStamp
    StoredRows <- MCAllRows
    RuleOf <- MCBest
    MaxRequests = 2
    MaxRestarts = 1
CHECK_DEADLOCK FALSE
SYMMETRY MCSymmetry
INVARIANTS
    TypeOK
    NoLostWakeup
    RingingHasCause
    OneOfferPerAgent
    GhostOnlyFromSignout
    PersistedIffRegistered
