SPECIFICATION Spec
CONSTANTS
    Inbound = {"in1", "in2", "in3", "in0"}
    Outbound = {"out1", "out2"}
    CompanyOf <- MCCompanyOf
    NoCompany = 0
    Rows <- MCRows
    Key = {"0", "1", "#"}
    MaxKeys = 3
CHECK_DEADLOCK FALSE
INVARIANTS
    HandleReleased
    HandleFaultNeedsKey
    QueuedOnce
