-------------------------- MODULE MCTaskScheduler ---------------------------
(* Small instances of TaskScheduler for TLC. *)
EXTENDS TaskScheduler, TLC

\* Each task waits for the one before it.
Chain == [t \in 1 .. NumTasks |-> IF t = 1 THEN {} ELSE {t - 1}]

\* Two first tasks; the third waits for the first.
Fork == [t \in 1 .. NumTasks |-> IF t = 3 THEN {1} ELSE {}]

\* Requests differ in nothing but their name.
CallerSymmetry == Permutations(Callers)

\* Bound: a request about the whole plan comes last.
PlanRequestsLast ==
    moves' # moves /\ (\E c \in Callers : SchedulePlan(c) \/ ReconcilePlan(c))
        => moves = MaxMoves - 1
=============================================================================
