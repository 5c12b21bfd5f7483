\* Two tasks in a row, the pump, one request and one fault of any kind.
CONSTANTS
    NumTasks = 2
    DependsOn <- Chain
    Pumps = {p1}
    Callers = {c1}
    NoWorker = none
    CallBudget = 1
    Requests = {"task"}
    OwnerMoves = {}
    MaxMoves = 1
    Faults = {"notify", "create", "crash", "runner"}
    MaxFaults = 1
    MaxBad = 0
SPECIFICATION FairSpec
INVARIANT UnaddressedMeansDelivered
PROPERTIES
    LiveLeaseIsItsHolders
    ImplementsTaskOrder
    QueuedIsSettled
    SuccessIsRecorded
    DependentsAreReserved
CHECK_DEADLOCK FALSE
