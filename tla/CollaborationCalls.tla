--------------------------- MODULE CollaborationCalls ---------------------------
(* What competitions and debates share: the attempts their model calls are stored *)
(* as before anything is sent, the budget of the collaboration, and the entry of  *)
(* the call in an account of the global budget.                                   *)
EXTENDS Integers, FiniteSets

CONSTANT CallBudget   \* modelBudget.calls, where the collaboration limits calls

ASSUME CallBudgetAssumption == CallBudget \in Nat

AttemptStates == {"none", "started", "completed", "failed", "unknown", "reconciled"}
OpenAttempt(state) == state \in {"started", "unknown"}

Limits == {"none", "calls", "tokens"}

\* What is recorded of a call's cost: nothing, or whether it leaves the total below the limit
\* of tokens, at it or over it.
UsageUnder(limit) == IF limit = "tokens" THEN {"missing", "within", "full", "over"} ELSE {"within"}

\* assertCollaborationBudget() over the calls stored: an admission needs room for one more,
\* a result may reach the limit exactly, and missing usage stops both.
OverBudget(limit, calls, usage, admitting) ==
    \/ limit = "calls" /\ Cardinality(calls) + (IF admitting THEN 1 ELSE 0) > CallBudget
    \/ limit = "tokens" /\ \E s \in calls : usage[s] \in {"missing", "over"} \cup (IF admitting THEN {"full"} ELSE {})

EntryStates == {"none", "reserved", "unknown", "settled", "rejected"}

\* GlobalBudgetLedger.settle(): the entry it leaves; it throws when that is "rejected",
\* because the account, which others share, has too little left or had before.
EntrySettled(entry) == IF entry \in {"reserved", "unknown"} THEN {"settled", "rejected"} ELSE {entry}

\* markUnknown(): only of a call still under way.
EntryMarked(entry) == IF entry = "reserved" THEN "unknown" ELSE entry
=============================================================================
