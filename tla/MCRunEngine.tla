---------------------------- MODULE MCRunEngine ----------------------------
\* Instances of RunEngine for TLC.
EXTENDS RunEngine, TLC

CONSTANTS e1, e2

OneEngine == {e1}
TwoEngines == {e1, e2}
LastTask == {NumTasks}
AllGates == {"allow", "ask", "refuse"}
AllowOnly == {"allow"}

\* No action names a process, so two are interchangeable.
EngineSymmetry == Permutations(Engines)
=============================================================================
