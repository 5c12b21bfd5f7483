CONSTANTS
    e1 = e1
    e2 = e2
    Engines <- OneEngine
    NoEngine = NoEngine
    NumTasks = 1
    Leaves <- LastTask
    MaxModelCalls = 3
    ReviewMode = "auto"
    Gates <- AllGates
    AutoRetryTool = TRUE
    ModelReconcile = TRUE
    Temporal = TRUE
    MaxPlans = 1
    MaxFaults = 2
SPECIFICATION FairSpec
CHECK_DEADLOCK FALSE
INVARIANT StartedHasAsker
PROPERTY SucceededIsFinal
PROPERTY RunRests
