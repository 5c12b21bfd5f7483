\* One task, two HTTP requests at a time, every command and the owner's own transitions.
CONSTANTS
    NumTasks = 1
    DependsOn <- Chain
    Pumps = {}
    Callers = {c1, c2}
    NoWorker = none
    CallBudget = 1
    Requests = {"plan", "sweep", "task", "dispatch", "pause", "resume", "cancel", "retry", "reconcile", "approve", "answer"}
    OwnerMoves = {"retry", "cancel"}
    MaxMoves = 3
    Faults = {}
    MaxFaults = 0
    MaxBad = 1
SPECIFICATION Spec
INVARIANTS
    TypeOK
    ReviewedRunSucceededTask
PROPERTIES
    UnknownAwaitsOwner
CHECK_DEADLOCK FALSE
SYMMETRY CallerSymmetry
ACTION_CONSTRAINT PlanRequestsLast
