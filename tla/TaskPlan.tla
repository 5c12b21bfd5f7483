------------------------------ MODULE TaskPlan ------------------------------
(***************************************************************************)
(* The domain plan: a graph of tasks and its transition table              *)
(* (src/domain/plan.ts), and the transitions with which a bound Run writes *)
(* its status back to its task (syncDomainState in src/runtime/engine.ts). *)
(*                                                                         *)
(* Tasks are numbered in the order of plan.nodes.                          *)
(***************************************************************************)
EXTENDS Integers, Sequences

CONSTANTS
    NumTasks,   \* nodes of the plan
    DependsOn   \* [Tasks -> SUBSET Tasks]: node.dependsOn

Tasks == 1 .. NumTasks

\* validateGraph: every dependency is a task of the plan, and there is no cycle.
ASSUME PlanAssumption ==
    /\ NumTasks \in Nat \ {0}
    /\ DependsOn \in [Tasks -> SUBSET Tasks]
    /\ \A S \in SUBSET Tasks : S # {} => \E t \in S : DependsOn[t] \cap S = {}

TaskStatuses == {"planned", "ready", "running", "waiting", "needs_approval", "blocked",
                 "succeeded", "failed", "cancelled", "unknown"}
Transitions == {"start", "wait", "request_approval", "block", "succeed", "fail",
                "cancel", "mark_unknown", "retry"}

Suspended == {"waiting", "needs_approval", "blocked"}

\* allowedTransitions, as triples <<from, transition, to>>.
Table ==
    (({"planned", "ready"} \cup Suspended) \X {"start"} \X {"running"})
    \cup ((TaskStatuses \ {"succeeded", "cancelled"}) \X {"cancel"} \X {"cancelled"})
    \cup (({"running"} \cup Suspended) \X {"mark_unknown"} \X {"unknown"})
    \cup ({"failed", "unknown"} \X {"retry"} \X {"ready"})
    \cup {<<"running", "wait", "waiting">>, <<"running", "request_approval", "needs_approval">>,
          <<"running", "block", "blocked">>, <<"running", "succeed", "succeeded">>,
          <<"running", "fail", "failed">>}

\* Mutant: a dependency that has been begun no longer holds its successors back.
DependenciesBegun(nodes, t) == \A d \in DependsOn[t] : nodes[d].status \notin {"planned", "ready"}

DependenciesSucceeded(nodes, t) == \A d \in DependsOn[t] : nodes[d].status = "succeeded"

FirstNodes == [t \in Tasks |-> [status |-> IF DependsOn[t] = {} THEN "ready" ELSE "planned",
                                attempt |-> 0]]

CanMove(nodes, t, transition) ==
    /\ transition = "start" => DependenciesSucceeded(nodes, t)
    /\ \E to \in TaskStatuses : <<nodes[t].status, transition, to>> \in Table

\* transitionTask
Transitioned(nodes, t, transition) ==
    [nodes EXCEPT ![t] =
        [status |-> CHOOSE to \in TaskStatuses : <<nodes[t].status, transition, to>> \in Table,
         attempt |-> IF transition = "retry" THEN nodes[t].attempt + 1 ELSE nodes[t].attempt]]

RefreshReady(nodes) ==
    [t \in Tasks |-> IF nodes[t].status = "planned" /\ DependenciesSucceeded(nodes, t)
                     THEN [nodes[t] EXCEPT !.status = "ready"]
                     ELSE nodes[t]]

\* The service commits the transition and the refresh in one compare-and-set of the plan.
Moved(nodes, t, transition) == RefreshReady(Transitioned(nodes, t, transition))

-----------------------------------------------------------------------------
(* How a bound Run reports to its task *)

\* A transition that would change nothing is not sent.
Reached == [start |-> "running", succeed |-> "succeeded", wait |-> "waiting",
            fail |-> "failed", cancel |-> "cancelled", mark_unknown |-> "unknown"]

Redundant(nodes, t, transition) ==
    transition # "retry" /\ nodes[t].status = Reached[transition]

Accepts(nodes, t, transition) ==
    Redundant(nodes, t, transition) \/ CanMove(nodes, t, transition)

Reported(nodes, t, transition) ==
    IF Redundant(nodes, t, transition) THEN nodes ELSE Moved(nodes, t, transition)

Reopened(status) == IF status \in {"failed", "unknown"} THEN <<"retry">> ELSE <<>>

LastReport == [failed |-> <<"fail">>, unknown |-> <<"mark_unknown">>, needs_input |-> <<"wait">>,
               running |-> <<>>, reviewing |-> <<>>, succeeded |-> <<"succeed">>]

TaskStatusFor(runStatus) ==
    CASE runStatus = "needs_input" -> "waiting"
      [] runStatus = "reviewing" -> "running"
      [] OTHER -> runStatus

\* The transitions syncDomainState decides on from one reading of the node.
SyncSteps(runStatus, status) ==
    CASE runStatus = "cancelled" ->
             IF status \in {"cancelled", "succeeded"} THEN <<>> ELSE <<"cancel">>
      [] runStatus \in DOMAIN LastReport ->
             IF status = TaskStatusFor(runStatus) THEN <<>>
             ELSE Reopened(status) \o <<"start">> \o LastReport[runStatus]
      [] OTHER -> <<>>
=============================================================================
