CONSTANTS
    e1 = e1
    e2 = e2
    Engines <- OneEngine
    NoEngine = NoEngine
    NumTasks = 1
    Leaves <- LastTask
    MaxModelCalls = 4
    ReviewMode = "yolo"
    Gates <- AllowOnly
    AutoRetryTool = FALSE
    ModelReconcile = FALSE
    Temporal = TRUE
    MaxPlans = 1
    MaxFaults = 1
SPECIFICATION Spec
CHECK_DEADLOCK FALSE
INVARIANT ToolInvokedOnce
