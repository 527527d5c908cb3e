SPECIFICATION Spec
CONSTANTS
    NDN = 2
    Epoch = 1000
    MaxTime = 2
    MaxCalls = 2
    Garbage <- MCGarbage
CHECK_DEADLOCK FALSE
INVARIANTS
    IdleIsTimeOffCalls
    ReadyAgentReturned
    IdleRulePicksLongest
