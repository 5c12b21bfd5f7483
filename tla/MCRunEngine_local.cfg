CONSTANTS
    e1 = e1
    e2 = e2
    Engines <- OneEngine
    NoEngine = NoEngine
    NumTasks = 2
    Leaves <- LastTask
    MaxModelCalls = 4
    ReviewMode = "auto"
    Gates <- AllGates
    AutoRetryTool = FALSE
    ModelReconcile = FALSE
    Temporal = FALSE
    MaxPlans = 2
    MaxFaults = 1
SPECIFICATION Spec
CHECK_DEADLOCK FALSE
INVARIANT TypeOK
INVARIANT ToolInvokedOnce
INVARIANT AskedBeforeInvoked
INVARIANT SuccessMeansDone
PROPERTY ExecutorAskedUnderApproval
