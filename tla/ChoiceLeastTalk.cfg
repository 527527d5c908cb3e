SPECIFICATION Spec
CONSTANTS
    NDN = 2
    Epoch = 1000
    MaxTime = 3
    MaxCalls = 2
    Garbage <- MCNoGarbage
CHECK_DEADLOCK FALSE
INVARIANTS
    LeastTalkChosen
