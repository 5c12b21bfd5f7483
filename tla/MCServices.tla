----------------------------- MODULE MCServices -----------------------------
(* The services around the Run engine and the scheduler, one module each. They     *)
(* share no state with one another, so a behaviour of this module is a behaviour  *)
(* of one of them, the focus, while the others stay as they began: where one of   *)
(* them may begin in several ways, in the one way the initial predicate picks.    *)
EXTENDS JsonStore, RunScan, GlobalBudget, ProjectionOutbox, Dispatch, WorkGrants, AgentGrants,
        Evolution, Routines, Competition, Debate, Triggers

CONSTANT Services   \* the modules explored

VARIABLE focus

Others(service) ==
    /\ service # "store" => UNCHANGED storeVars
    /\ service # "scan" => UNCHANGED scanVars
    /\ service # "budget" => UNCHANGED budgetVars
    /\ service # "outbox" => UNCHANGED outboxVars
    /\ service # "dispatch" => UNCHANGED dispatchVars
    /\ service # "grants" => UNCHANGED grantVars
    /\ service # "delegations" => UNCHANGED agentVars
    /\ service # "evolution" => UNCHANGED evolutionVars
    /\ service # "routines" => UNCHANGED routineVars
    /\ service # "competition" => UNCHANGED competitionVars
    /\ service # "debate" => UNCHANGED debateVars
    /\ service # "triggers" => UNCHANGED triggerVars

\* Of two events one is later than the other, or too deep; what they open is run, or not.
SecondEvent == CHOOSE e \in TriggerEvents : TRUE
Recent == [occurredAt |-> 0, deep |-> FALSE]
TriggerScene ==
    /\ \A e \in TriggerEvents \ {SecondEvent} : incoming[e] = Recent
    /\ incoming[SecondEvent].deep => incoming[SecondEvent].occurredAt = 0
    /\ incoming[SecondEvent] # Recent
    /\ policy.runs = ~incoming[SecondEvent].deep

\* A limit of calls with a global account, one of tokens without, and no limit either way.
Brief == brief.limit # "none" => brief.accounted = (brief.limit = "calls")

ServicesInit ==
    /\ focus \in Services
    /\ StoreInit /\ ScanInit /\ BudgetInit /\ OutboxInit /\ DispatchInit /\ GrantInit /\ AgentInit
    /\ EvolutionInit /\ RoutinesInit /\ CompetitionInit /\ DebateInit /\ TriggersInit
    /\ focus # "scan" => ~projected /\ \A r \in RunIds : lastSeq[r] = 1
    /\ focus # "budget" => ~limited
    /\ focus # "dispatch" => ~temporal
    /\ focus # "routines" => trigger = "schedule"
    /\ Brief /\ (focus # "competition" => brief.limit = "none" /\ ~brief.accounted)
    /\ focus # "debate" => room.roles
    /\ TriggerScene /\ (focus # "triggers" => policy.runs)

Turn(service) == focus = service /\ UNCHANGED focus /\ Others(service)

ServicesNext ==
    \/ Turn("store") /\ StoreNext
    \/ Turn("scan") /\ ScanNext
    \/ Turn("budget") /\ BudgetNext
    \/ Turn("outbox") /\ OutboxNext
    \/ Turn("dispatch") /\ DispatchNext
    \/ Turn("grants") /\ GrantNext
    \/ Turn("delegations") /\ AgentNext
    \/ Turn("evolution") /\ EvolutionNext
    \/ Turn("routines") /\ RoutinesNext
    \/ Turn("competition") /\ CompetitionNext
    \/ Turn("debate") /\ DebateNext
    \/ Turn("triggers") /\ TriggersNext

servicesVars == <<focus, storeVars, scanVars, budgetVars, outboxVars, dispatchVars, grantVars, agentVars,
                  evolutionVars, routineVars, competitionVars, debateVars, triggerVars>>

ServicesSpec == ServicesInit /\ [][ServicesNext]_servicesVars

ReleaseChain == [c \in Candidates |-> IF c = Shipped THEN Baseline ELSE Shipped]

DebateRoom(turns, limit, accounted, roles) ==
    [turns |-> turns, limit |-> limit, accounted |-> accounted, roles |-> roles]
DebateRooms ==
    {DebateRoom(1, "none", FALSE, TRUE), DebateRoom(2, "calls", TRUE, FALSE),
     DebateRoom(1, "tokens", TRUE, FALSE)}
=============================================================================
