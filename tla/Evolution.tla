------------------------------ MODULE Evolution ------------------------------
(***************************************************************************)
(* Change candidates and their releases (evolution.ts, rsi.ts,             *)
(* evolution-activation.ts).                                               *)
(*                                                                         *)
(* A candidate lives in one store and changes by one row transaction at a  *)
(* time; the active release, the revoked candidates and the traffic route  *)
(* live in another, changed under a lock of its own.  Evaluators are asked *)
(* outside both.  One owner and one target are modelled; a candidate is    *)
(* its own version, new and immutable, so BaseOf(c) names the release it   *)
(* was proposed against, and Baseline the one the program ships with.      *)
(***************************************************************************)
EXTENDS Naturals, FiniteSets

CONSTANTS
    Candidates, Baseline,
    BaseOf,       \* the version each candidate was proposed against
    Shipped,      \* a candidate already promoted and active when the exploration begins
    Risks,        \* observations a phase of a rollout needs: 1 when the risk is low, 3 or 5 when it is not
    Gates,        \* the evaluation kinds approval asks for
    MaxTries,     \* evaluation attempts per candidate
    Askers,       \* requests and pump passes that wait for something
    MaxAsks       \* times somebody asks

ASSUME EvolutionAssumption ==
    /\ Baseline \notin Candidates
    /\ BaseOf \in [Candidates -> Candidates \cup {Baseline}]
    /\ Shipped \in Candidates /\ BaseOf[Shipped] = Baseline
    /\ Risks \subseteq Nat \ {0}

VARIABLES
    candidate,     \* candidate -> its row
    active,        \* the active release, Baseline when there is none
    released,      \* candidates ever activated
    revoked,       \* candidates rolled back
    route,         \* the traffic canary that is not stopped, if any
    asker,         \* what each asker waits for
    asks

evolutionVars == <<candidate, active, released, revoked, route, asker, asks>>

Phases == {"shadow", "canary"}
PhaseStatus(phase) == IF phase = "shadow" THEN "shadowing" ELSE "canarying"
NoRoute == [candidate |-> Baseline, base |-> Baseline, status |-> "stopped"]
NotAsking == [op |-> "none"]
LowRisk(c) == candidate[c].required = 1

FreshCandidate ==
    [status |-> "absent", required |-> 1, gate |-> [k \in Gates |-> "none"], tries |-> 0, evaluating |-> {},
     seen |-> [p \in Phases |-> {}], failed |-> [p \in Phases |-> FALSE],
     used |-> {}, trying |-> {}]

EvolutionInit ==
    /\ candidate = [c \in Candidates |->
          IF c = Shipped
          THEN [FreshCandidate EXCEPT !.status = "promoted", !.gate = [k \in Gates |-> "passed"]]
          ELSE FreshCandidate]
    /\ active = Shipped /\ released = {Shipped} /\ revoked = {} /\ route = NoRoute
    /\ asker = [a \in Askers |-> NotAsking]
    /\ asks = 0

\* A case id means nothing but itself, so the ones of a phase are numbered as
\* they come up; a phase is given as many as it needs (a bound).
CasesFor(c, phase) ==
    {n \in 1..candidate[c].required : \A k \in 1..(n - 1) : k \in candidate[c].seen[phase] \/ <<phase, k>> \in candidate[c].used}

---------------------------------------------------------------------------
(* A candidate's life, one transaction per step (EvolutionEngine). *)

registryVars == <<active, released, revoked, route>>
askerVars == <<asker, asks>>

\* The row of c becomes row; nothing else of the candidates changes.
Becomes(c, row) == candidate' = [candidate EXCEPT ![c] = row]

Propose(c, required) ==
    /\ candidate[c].status = "absent"
    /\ Becomes(c, [candidate[c] EXCEPT !.status = "proposed", !.required = required])
    /\ UNCHANGED <<registryVars, askerVars>>

AcceptsGate(row, k) == row.status \in {"proposed", "evaluating", "held"} /\ row.gate[k] = "none"

Gated(row, k, passed) ==
    LET gate == [row.gate EXCEPT ![k] = IF passed THEN "passed" ELSE "failed"]
    IN  [row EXCEPT !.gate = gate,
                    !.status = IF \E g \in Gates : gate[g] = "failed" THEN "held" ELSE "evaluating"]

EvaluateGate(c, k, passed) ==
    /\ AcceptsGate(candidate[c], k)
    /\ Becomes(c, Gated(candidate[c], k, passed))
    /\ UNCHANGED <<registryVars, askerVars>>

Approve(c) ==
    /\ candidate[c].status \in {"evaluating", "held"}
    /\ \A k \in Gates : candidate[c].gate[k] = "passed"
    /\ Becomes(c, [candidate[c] EXCEPT !.status = "approved"])
    /\ UNCHANGED <<registryVars, askerVars>>

StartShadow(c) ==
    /\ candidate[c].status = "approved"
    /\ Becomes(c, [candidate[c] EXCEPT !.status = "shadowing", !.seen["shadow"] = {}, !.failed["shadow"] = FALSE])
    /\ UNCHANGED <<registryVars, askerVars>>

Records(row, phase, case) == row.status = PhaseStatus(phase) /\ case \notin row.seen[phase]

\* One observation; a failed one holds the candidate.
Observed(row, phase, case, passed) ==
    [row EXCEPT !.seen[phase] = @ \cup {case},
                !.failed[phase] = @ \/ ~passed,
                !.status = IF passed THEN @ ELSE "held"]

RecordObservation(c, phase, case, passed) ==
    /\ Records(candidate[c], phase, case)
    /\ Becomes(c, Observed(candidate[c], phase, case, passed))
    /\ UNCHANGED <<registryVars, askerVars>>

RolloutReady(c, phase) ==
    /\ Cardinality(candidate[c].seen[phase]) >= candidate[c].required
    /\ ~candidate[c].failed[phase]

StartCanary(c) ==
    /\ candidate[c].trying = {}
    /\ candidate[c].status = "shadowing" /\ RolloutReady(c, "shadow")
    /\ Becomes(c, [candidate[c] EXCEPT !.status = "canarying", !.seen["canary"] = {}, !.failed["canary"] = FALSE])
    /\ UNCHANGED <<registryVars, askerVars>>

\* A bug: an attempt under way is not looked at.
PromotableInFlight(c) ==
    \/ candidate[c].status = "approved" /\ LowRisk(c)
    \/ candidate[c].status = "canarying" /\ RolloutReady(c, "canary")

Promotable(c) ==
    /\ candidate[c].trying = {}
    /\ \/ candidate[c].status = "approved" /\ LowRisk(c)
       \/ candidate[c].status = "canarying" /\ RolloutReady(c, "canary")

Promote(c) ==
    /\ Promotable(c)
    /\ Becomes(c, [candidate[c] EXCEPT !.status = "promoted"])
    /\ UNCHANGED <<registryVars, askerVars>>

Reject(c) ==
    /\ candidate[c].status \in {"proposed", "evaluating", "held", "approved"}
    /\ Becomes(c, [candidate[c] EXCEPT !.status = "rejected"])
    /\ UNCHANGED <<registryVars, askerVars>>

---------------------------------------------------------------------------
(* The evaluator, asked outside the transaction (RsiService).  An attempt  *)
(* is reserved in the row first; it is named by its number, or by its      *)
(* phase and case, which are used once.  A batch of cases is one request a *)
(* case, each checked as the first of a batch is.  An asker that crashes   *)
(* is one that never moves again.                                          *)

Asks(a, what) ==
    /\ asker[a] = NotAsking /\ asks < MaxAsks
    /\ asker' = [asker EXCEPT ![a] = what] /\ asks' = asks + 1
Stops(a) == asker' = [asker EXCEPT ![a] = NotAsking] /\ UNCHANGED asks

ReserveEvaluation(a, c, k) ==
    /\ candidate[c].status # "absent" /\ candidate[c].tries < MaxTries
    /\ candidate[c].gate[k] = "none" /\ candidate[c].evaluating = {}
    /\ LET try == <<k, candidate[c].tries + 1>> IN
       /\ Becomes(c, [candidate[c] EXCEPT !.tries = @ + 1, !.evaluating = {try}])
       /\ Asks(a, [op |-> "evaluation", of |-> c, try |-> try])
    /\ UNCHANGED registryVars

\* The answer settles the attempt if it still stands.  When the candidate no
\* longer takes evaluations the transaction throws and the attempt stays open.
SettlesGate(c, k, passed) ==
    LET row == [candidate[c] EXCEPT !.evaluating = {}] IN
    CASE row.gate[k] # "none" -> Becomes(c, row)
      [] AcceptsGate(row, k) -> Becomes(c, Gated(row, k, passed))
      [] OTHER -> UNCHANGED candidate

EvaluationAnswers(a, passed) ==
    /\ asker[a].op = "evaluation"
    /\ IF asker[a].try \in candidate[asker[a].of].evaluating
       THEN SettlesGate(asker[a].of, asker[a].try[1], passed)
       ELSE UNCHANGED candidate
    /\ Stops(a)
    /\ UNCHANGED registryVars

EvaluationFails(a) ==
    /\ asker[a].op = "evaluation"
    /\ Becomes(asker[a].of, [candidate[asker[a].of] EXCEPT !.evaluating = @ \ {asker[a].try}])
    /\ Stops(a)
    /\ UNCHANGED registryVars

ReconcileEvaluation(c, outcome, passed) ==
    /\ candidate[c].evaluating # {}
    /\ \E try \in candidate[c].evaluating :
          IF outcome = "completed" THEN SettlesGate(c, try[1], passed)
          ELSE Becomes(c, [candidate[c] EXCEPT !.evaluating = {}])
    /\ UNCHANGED <<registryVars, askerVars>>

ReserveRollout(a, c, phase, case) ==
    /\ candidate[c].status = PhaseStatus(phase)
    /\ candidate[c].trying = {} /\ <<phase, case>> \notin candidate[c].used
    /\ case \notin candidate[c].seen[phase]
    /\ Becomes(c, [candidate[c] EXCEPT !.used = @ \cup {<<phase, case>>}, !.trying = {<<phase, case>>}])
    /\ Asks(a, [op |-> "rollout", of |-> c, try |-> <<phase, case>>])
    /\ UNCHANGED registryVars

\* The receipt is kept whatever has become of the candidate; the observation
\* counts while the phase lasts, and an id already recorded makes it throw.
SettlesRollout(c, try, passed) ==
    LET row == [candidate[c] EXCEPT !.trying = {}] IN
    CASE row.status # PhaseStatus(try[1]) -> Becomes(c, row)
      [] Records(row, try[1], try[2]) -> Becomes(c, Observed(row, try[1], try[2], passed))
      [] OTHER -> UNCHANGED candidate

\* A request that fails, or whose outcome is unknown, is a failed observation.
RolloutAnswers(a, passed) ==
    /\ asker[a].op = "rollout"
    /\ IF asker[a].try \in candidate[asker[a].of].trying
       THEN SettlesRollout(asker[a].of, asker[a].try, passed)
       ELSE UNCHANGED candidate
    /\ Stops(a)
    /\ UNCHANGED registryVars

ReconcileRollout(c, passed) ==
    /\ \E try \in candidate[c].trying : SettlesRollout(c, try, passed)
    /\ UNCHANGED <<registryVars, askerVars>>

---------------------------------------------------------------------------
(* Releases: the candidate is read first, the registry is changed later.   *)

\* listActive refuses to go on when the active release is not promoted.
ActiveAgrees == active # Baseline => candidate[active].status = "promoted"

ReadForActivation(a, c) ==
    /\ candidate[c].status = "promoted"
    /\ Asks(a, [op |-> "activate", of |-> c])
    /\ UNCHANGED <<candidate, registryVars>>

\* A bug: a candidate rolled back since it was read is activated.
ActivatableAnyway(c) == c \notin released /\ BaseOf[c] = active

Activatable(c) == c \notin revoked /\ c \notin released /\ BaseOf[c] = active

\* The new release replaces its base and ends the traffic canary on it.
Activate(a) ==
    /\ asker[a].op = "activate"
    /\ IF Activatable(asker[a].of)
       THEN /\ active' = asker[a].of
            /\ released' = released \cup {asker[a].of}
            /\ route' = NoRoute
       ELSE UNCHANGED <<active, released, route>>
    /\ Stops(a)
    /\ UNCHANGED <<candidate, revoked>>

CheckRollback(a, c) ==
    /\ candidate[c].status \in {"promoted", "approved", "shadowing", "canarying", "held", "rolled_back"}
    /\ Asks(a, [op |-> "rollback", of |-> c])
    /\ UNCHANGED <<candidate, registryVars>>

\* The nearest release under c that is not revoked.
Predecessor(c, out) ==
    LET kept[d \in Candidates \cup {Baseline}] ==
            IF d = Baseline \/ d \notin out THEN d ELSE kept[BaseOf[d]]
    IN  kept[BaseOf[c]]

RevokeRelease(a) ==
    /\ asker[a].op = "rollback"
    /\ LET c == asker[a].of IN
       /\ IF c \in revoked THEN UNCHANGED <<active, revoked, route>>
          ELSE /\ revoked' = revoked \cup {c}
               /\ active' = IF active = c THEN Predecessor(c, revoked) ELSE active
               /\ route' = IF c \in {route.candidate, route.base} THEN NoRoute ELSE route
       /\ asker' = [asker EXCEPT ![a] = [op |-> "revoked", of |-> c]] /\ UNCHANGED asks
    /\ UNCHANGED <<candidate, released>>

\* If the candidate may no longer be rolled back the transaction throws.
FinishRollback(a) ==
    /\ asker[a].op = "revoked"
    /\ LET c == asker[a].of IN
       IF candidate[c].status \in {"promoted", "approved", "shadowing", "canarying", "held"}
       THEN Becomes(c, [candidate[c] EXCEPT !.status = "rolled_back"])
       ELSE UNCHANGED candidate
    /\ Stops(a)
    /\ UNCHANGED registryVars

---------------------------------------------------------------------------
(* Traffic canaries: a promoted candidate beside the release it was        *)
(* proposed against.                                                       *)

ReadForTraffic(a, c) ==
    /\ candidate[c].status = "promoted" /\ ActiveAgrees
    /\ active # Baseline /\ BaseOf[c] = active
    /\ Asks(a, [op |-> "traffic", of |-> c, base |-> active])
    /\ UNCHANGED <<candidate, registryVars>>

BaseStands(c, base) == active = base /\ c \notin revoked

StartTraffic(a) ==
    /\ asker[a].op = "traffic"
    /\ route' = IF route = NoRoute /\ BaseStands(asker[a].of, asker[a].base)
                THEN [candidate |-> asker[a].of, base |-> asker[a].base, status |-> "active"]
                ELSE route
    /\ Stops(a)
    /\ UNCHANGED <<candidate, active, released, revoked>>

\* The owner pauses it, or a failed observation does under the default policy.
PauseTraffic ==
    /\ route.status = "active"
    /\ route' = [route EXCEPT !.status = "paused"]
    /\ UNCHANGED <<candidate, active, released, revoked, askerVars>>

ReadForResume(a) ==
    /\ route.status = "paused" /\ candidate[route.candidate].status = "promoted"
    /\ Asks(a, [op |-> "resume", of |-> route.candidate])
    /\ UNCHANGED <<candidate, registryVars>>

ResumeTraffic(a) ==
    /\ asker[a].op = "resume"
    /\ route' = IF route.candidate = asker[a].of /\ route.status = "paused" /\ BaseStands(route.candidate, route.base)
                THEN [route EXCEPT !.status = "active"]
                ELSE route
    /\ Stops(a)
    /\ UNCHANGED <<candidate, active, released, revoked>>

StopTraffic ==
    /\ route # NoRoute
    /\ route' = NoRoute
    /\ UNCHANGED <<candidate, active, released, revoked, askerVars>>

---------------------------------------------------------------------------
EvolutionNext ==
    \/ \E c \in Candidates :
          \/ \E required \in Risks : Propose(c, required)
          \/ Approve(c) \/ StartShadow(c) \/ StartCanary(c) \/ Promote(c) \/ Reject(c)
          \/ \E k \in Gates, passed \in BOOLEAN : EvaluateGate(c, k, passed)
          \/ \E phase \in Phases, passed \in BOOLEAN : \E case \in CasesFor(c, phase) : RecordObservation(c, phase, case, passed)
          \/ \E outcome \in {"completed", "failed"}, passed \in BOOLEAN : ReconcileEvaluation(c, outcome, passed)
          \/ \E passed \in BOOLEAN : ReconcileRollout(c, passed)
    \/ \E a \in Askers :
          \/ \E c \in Candidates :
                \/ ReadForActivation(a, c) \/ CheckRollback(a, c) \/ ReadForTraffic(a, c)
                \/ \E k \in Gates : ReserveEvaluation(a, c, k)
                \/ \E phase \in Phases : \E case \in CasesFor(c, phase) : ReserveRollout(a, c, phase, case)
          \/ \E passed \in BOOLEAN : EvaluationAnswers(a, passed) \/ RolloutAnswers(a, passed)
          \/ EvaluationFails(a)
          \/ Activate(a) \/ RevokeRelease(a) \/ FinishRollback(a)
          \/ StartTraffic(a) \/ ReadForResume(a) \/ ResumeTraffic(a)
    \/ PauseTraffic \/ StopTraffic

EvolutionSpec == EvolutionInit /\ [][EvolutionNext]_evolutionVars

---------------------------------------------------------------------------
\* Whatever a new Run may be given, the active release or the candidate of a
\* traffic canary, is promoted and not revoked, and a canary runs beside the
\* release it was proposed against: no order of rollbacks, activations and
\* canaries, each of which reads the candidate before it changes the registry,
\* leaves a release that listActive or the selection would refuse.
ServedIsPromoted ==
    /\ active # Baseline => candidate[active].status = "promoted" /\ active \notin revoked
    /\ route # NoRoute =>
          /\ candidate[route.candidate].status = "promoted" /\ route.candidate \notin revoked
          /\ active = route.base /\ BaseOf[route.candidate] = route.base

\* A promoted candidate has passed every gate, has no evaluator request under
\* way whose answer could still fail it, and unless its risk is low has shown
\* the observations its canary needs, none of them failed.
PromotionEarned ==
    \A c \in Candidates : candidate[c].status = "promoted" =>
        /\ \A k \in Gates : candidate[c].gate[k] = "passed"
        /\ candidate[c].trying = {}
        /\ ~LowRisk(c) => RolloutReady(c, "canary") /\ RolloutReady(c, "shadow")
=============================================================================
