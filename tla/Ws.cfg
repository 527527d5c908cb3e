SPECIFICATION Spec
CONSTANTS
    User = {1}
    Desk = {d1, d2}
    UserOf <- MCUserOf
    Department = {10, 20}
    Listed = {10}
    Unset = {20}
    MaxRequests = 2
    MaxDrops = 1
    MaxRestarts = 1
CHECK_DEADLOCK FALSE
SYMMETRY MCSymmetry
INVARIANTS
    RepliesInStep
    BeliefTrue
    UsersGrouped
