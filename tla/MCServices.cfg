CONSTANTS
    Services = {"store", "scan", "budget", "outbox", "dispatch", "grants", "delegations", "evolution", "routines", "competition", "debate", "triggers"}
    CompactAfter = 2
    MaxOps = 4
    MaxStoreFaults = 3
    ScanWorkers = {w1, w2}
    RunCount = 2
    MaxSeq = 2
    PageSize = 1
    BatchEvents = 1
    MaxRevision = 2
    ModelKeys = {m1}
    ConnectorKeys = {k1}
    OwnerKeys = {o1}
    Callers = {c1, c2}
    CallLimit = 2
    TokenLimit = 3
    CallTokens = 2
    MaxSent = 2
    MaxBoots = 2
    OutboxProcs = {p1, p2}
    Projections = {e1}
    Unlocked = Unlocked
    MaxRequests = 4
    MaxOutboxFaults = 2
    DrivenRuns = {r1}
    Handlers = {h1, h2}
    Rebooted = Rebooted
    MaxDriveFaults = 3
    GrantRuns = {g1, g2}
    Total = 3
    PerRun = 2
    Requests = {1, 2}
    MaxGrantFaults = 2
    Delegations = {d1, d2}
    GrantCalls = 1
    GrantTokens = 2
    Costs = {1, 3}
    MaxGatewayCrashes = 2
    Candidates = {"v1", "v2"}
    Baseline = "v0"
    BaseOf <- ReleaseChain
    Shipped = "v1"
    Risks = {1, 2}
    Gates = {safety}
    MaxTries = 1
    Askers = {a1, a2}
    MaxAsks = 3
    Horizon = 2
    Workers = {s1, s2}
    MaxDeliveryAttempts = 2
    MaxByHand = 1
    MaxDeliveries = 1
    MaxOwnerActs = 1
    MaxRoutineFaults = 1
    ParticipantCount = 2
    CallBudget = 2
    Contenders = {n1, n2}
    MaxCompetitionRequests = 3
    MaxCompetitionFaults = 1
    MessageCount = 2
    Runners = {u1, u2}
    Rooms <- DebateRooms
    MaxDebateRuns = 2
    MaxReconciliations = 1
    MaxDebateFaults = 1
    TriggerEvents = {x1, x2}
    Pumps = {q1}
    TriggerCallers = {q2}
    Cooldown = 1
    TriggerHorizon = 1
    MaxTriggerActs = 2
    MaxTriggerFaults = 1
SPECIFICATION ServicesSpec
CHECK_DEADLOCK FALSE
INVARIANTS
    RefusesOnlyBlemished
    SentUnderReservation
    ResentOnlyForCause
    NoRunForgotten
    SharesWithinTotal
    RevocationReachesRuns
    OneDecisionPerDelegation
    ServedIsPromoted
    PromotionEarned
    StartsAccountedFor
    AskedInTurn
    KeptResultsArePaid
    HeardOnce
    EventTriggersOnce
PROPERTIES
    RestartKeepsCommits
    SweepMissesNothing
    OutcomeStands
    RunEndsOrWaits
