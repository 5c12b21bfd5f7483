CONSTANTS
    e1 = e1
    e2 = e2
    Engines <- OneEngine
    NoEngine = NoEngine
    NumTasks = 1
    Leaves <- LastTask
    MaxModelCalls = 4
    ReviewMode = "auto"
    Gates <- AllGates
    AutoRetryTool = FALSE
    ModelReconcile = TRUE
    Temporal = TRUE
    MaxPlans = 1
    MaxFaults = 0
SPECIFICATION Spec
CHECK_DEADLOCK FALSE
INVARIANT AskedBeforeInvoked
