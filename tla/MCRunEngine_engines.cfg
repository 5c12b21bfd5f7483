CONSTANTS
    e1 = e1
    e2 = e2
    Engines <- TwoEngines
    NoEngine = NoEngine
    NumTasks = 1
    Leaves <- LastTask
    MaxModelCalls = 3
    ReviewMode = "yolo"
    Gates <- AllowOnly
    AutoRetryTool = FALSE
    ModelReconcile = FALSE
    Temporal = FALSE
    MaxPlans = 1
    MaxFaults = 1
SPECIFICATION Spec
SYMMETRY EngineSymmetry
CHECK_DEADLOCK FALSE
INVARIANT AtMostOneStarted
INVARIANT OneAttemptAtATime
