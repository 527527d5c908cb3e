SPECIFICATION FairSpec
CONSTANTS
    a1 = a1
    Absent = Absent
    Agent = {a1}
    Call = {c1}
    CallerOf <- MCCallerOf
    Tables <- MCTables
    MaxReloads = 2
    MaxStream = 3
    MaxMisses = 2
    MaxRestarts = 1
INVARIANTS
    RecordKept
    RecordTrue
    RecordOfOneRow
    GatewayOfCompany
    TableComplete
PROPERTIES
    RecordLeaves
CHECK_DEADLOCK FALSE
