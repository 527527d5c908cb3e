SPECIFICATION FairSpec
CONSTANTS
    DN = {1}
    Company = {"c1", "c2"}
    RouteCompany <- MCMixedRoute
    NoCompany = "none"
    NoUser = NoUser
    Call = {"a", "b"}
    NoCall = NoCall
    CallCompany <- MCMixedCompany
    CallStamp <- MCMixedStamp
    StoredRows <- MCMixedRows
    RuleOf <- MCMixedRules
    MaxRequests = 2
    MaxRestarts = 0
CHECK_DEADLOCK FALSE
PROPERTIES
    HeldCallIsServed
    CallsServedInOrder
