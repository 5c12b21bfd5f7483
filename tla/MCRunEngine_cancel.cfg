CONSTANTS
    e1 = e1
    e2 = e2
    Engines <- OneEngine
    NoEngine = NoEngine
    NumTasks = 1
    Leaves <- LastTask
    MaxModelCalls = 2
    ReviewMode = "auto"
    Gates <- AllowOnly
    AutoRetryTool = FALSE
    ModelReconcile = TRUE
    Temporal = FALSE
    MaxPlans = 1
    MaxFaults = 0
SPECIFICATION Spec
CHECK_DEADLOCK FALSE
PROPERTY ReconcileKeepsCancel
