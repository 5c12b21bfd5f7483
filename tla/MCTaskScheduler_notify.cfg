\* One task, one caller, and a runner that cannot be notified twice.
CONSTANTS
    NumTasks = 1
    DependsOn <- Chain
    Pumps = {}
    Callers = {c1}
    NoWorker = none
    CallBudget = 1
    Requests = {"task", "dispatch"}
    OwnerMoves = {}
    MaxMoves = 2
    Faults = {"notify"}
    MaxFaults = 2
    MaxBad = 0
SPECIFICATION Spec
INVARIANT DispatchedMeansDelivered
CHECK_DEADLOCK FALSE
