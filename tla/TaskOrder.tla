----------------------------- MODULE TaskOrder ------------------------------
(***************************************************************************)
(* What the scheduler promises of a plan: no task is worked on before the  *)
(* tasks it depends on are done, and a task that is done stays done.       *)
(***************************************************************************)
EXTENDS Integers

CONSTANTS NumTasks, DependsOn

Tasks == 1 .. NumTasks

VARIABLE phase

Phases == {"waiting", "started", "done"}
Released(t) == \A d \in DependsOn[t] : phase[d] = "done"

Init == phase = [t \in Tasks |-> "waiting"]

\* The task's Run comes into being.
Start(t) ==
    /\ phase[t] = "waiting" /\ Released(t)
    /\ phase' = [phase EXCEPT ![t] = "started"]

\* The task succeeds, through its Run or because the owner says so.
Finish(t) ==
    /\ phase[t] # "done" /\ Released(t)
    /\ phase' = [phase EXCEPT ![t] = "done"]

Next == \E t \in Tasks : Start(t) \/ Finish(t)

Spec == Init /\ [][Next]_phase
=============================================================================
