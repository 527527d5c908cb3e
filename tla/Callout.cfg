SPECIFICATION FairSpec
CONSTANTS
    NAgent = 2
    Company = {1, 2}
    AgentCompany <- MCOneEach
    Task = {t1, t2}
    TaskId = {"x"}
    Rate = {0, 2}
    NRow = 1
    MaxMsg = 3
    MaxLeg = 1
CHECK_DEADLOCK FALSE
INVARIANTS
    HangupReachesTask
    ListedTasksExist
    CrashNeedsTwoTasks
PROPERTY
    HangupWakesTask
