-------------------------------- MODULE Triggers --------------------------------
(* The collaboration triggers of collaboration-triggers.ts and the pump of            *)
(* collaboration-trigger-pump.ts: an event that matches a policy opens a competition  *)
(* or a debate and, where the policy says so, runs it.  Events come from requests and *)
(* from the pump, which reads those of the Runs (RunScan) and evaluates them again    *)
(* after a crash.  One policy, since each is claimed, created and settled by itself.  *)
(* A decision's row changes atomically; the evaluator may stop between its steps.     *)
EXTENDS Integers, FiniteSets

CONSTANTS
    TriggerEvents,      \* what has happened, by eventId
    Pumps,              \* processes that pump the events of the Runs
    TriggerCallers,     \* requests and webhooks that hand in an event
    Cooldown,           \* cooldownMs of the policy
    TriggerHorizon,     \* bound: the clock
    MaxTriggerActs,     \* bound: events handed in, edits of the policy, verdicts of the owner
    MaxTriggerFaults    \* bound: evaluators that stop, creations, runs and writes that fail

ASSUME TriggerAssumption ==
    /\ Cooldown \in Nat /\ TriggerHorizon \in Nat
    /\ MaxTriggerActs \in Nat /\ MaxTriggerFaults \in Nat
    /\ Pumps \cap TriggerCallers = {}

Evaluators == Pumps \cup TriggerCallers

VARIABLES
    incoming,    \* [event -> when it says it occurred, whether its chain of derivations is too long]
    policy,      \* whether it is enabled, its version, whether it runs what it creates
    decisions,    \* [event -> the row of the policy and this event]
    evaluator,   \* [evaluator -> step, event, version of the policy it read]
    triggerTime,
    pumped,      \* events the checkpoint of the pumps has passed
    flagged,     \* events whose refusal for depth is on their Run
    created,     \* history: [event -> collaborations created]
    ran,         \* history: [event -> times one was run]
    declined,    \* history: events the policy did not apply to when they were evaluated
    missed,      \* history: events whose evaluation a pump gave up for an error
    revived,     \* history: events settled as failed whose evaluator still bound its resource
    triggerActs, triggerFaults

triggerBounds == <<triggerActs, triggerFaults>>
triggerHistory == <<created, ran, declined, missed, revived>>
triggerVars == <<incoming, policy, decisions, evaluator, triggerTime, pumped, flagged,
                 triggerHistory, triggerBounds>>

Acts == triggerActs < MaxTriggerActs /\ triggerActs' = triggerActs + 1 /\ UNCHANGED triggerFaults
Fails == triggerFaults < MaxTriggerFaults /\ triggerFaults' = triggerFaults + 1 /\ UNCHANGED triggerActs
Works == UNCHANGED triggerBounds

NoDecision == [state |-> "none", resource |-> FALSE, dispatch |-> "not_requested", startedAt |-> 0]
AtRest == [at |-> "idle", event |-> CHOOSE e \in TriggerEvents : TRUE, version |-> 0]

TriggersInit ==
    /\ incoming \in [TriggerEvents -> [occurredAt : 0 .. TriggerHorizon, deep : BOOLEAN]]
    /\ policy \in [enabled : {TRUE}, version : {0}, runs : BOOLEAN]
    /\ decisions = [e \in TriggerEvents |-> NoDecision]
    /\ evaluator = [w \in Evaluators |-> AtRest]
    /\ triggerTime = 0
    /\ pumped = {} /\ flagged = {} /\ declined = {} /\ missed = {} /\ revived = {}
    /\ created = [e \in TriggerEvents |-> 0] /\ ran = [e \in TriggerEvents |-> 0]
    /\ triggerActs = 0 /\ triggerFaults = 0

-----------------------------------------------------------------------------
(* An evaluator: evaluateEvent(), and runPass() around it *)

EvaluatorGoes(w, step) == evaluator' = [evaluator EXCEPT ![w].at = step]

\* The evaluation is over: a pump notes a refusal on the Run, then passes the event.
Leaves(w, state) ==
    IF w \in TriggerCallers THEN evaluator' = [evaluator EXCEPT ![w] = AtRest]
    ELSE EvaluatorGoes(w, IF state = "blocked_depth" THEN "flag" ELSE "commit")

\* It threw: a pump counts the failure and passes the event all the same.
Throws(w) ==
    IF w \in TriggerCallers THEN evaluator' = [evaluator EXCEPT ![w] = AtRest] /\ UNCHANGED missed
    ELSE EvaluatorGoes(w, "commit") /\ missed' = missed \cup {evaluator[w].event}

Evaluates(w, e) ==
    /\ evaluator[w].at = "idle"
    /\ IF policy.enabled
       THEN /\ evaluator' = [evaluator EXCEPT ![w] =
                                [at |-> "claim", event |-> e, version |-> policy.version]]
            /\ UNCHANGED declined
       ELSE /\ declined' = declined \cup {e}
            /\ evaluator' = [evaluator EXCEPT ![w] =
                  IF w \in Pumps THEN [AtRest EXCEPT !.at = "commit", !.event = e] ELSE AtRest]
    /\ UNCHANGED <<incoming, policy, decisions, triggerTime, pumped, flagged, created, ran, missed, revived>>

\* Lineage comes from the Run alone: what a request hands in is the root of its chain.
HandIn(w) == Acts /\ \E e \in TriggerEvents : ~incoming[e].deep /\ Evaluates(w, e)
PumpEvent(w) == Works /\ \E e \in TriggerEvents \ pumped : Evaluates(w, e)

\* policyStillMatches(): nobody has edited it since the evaluator read it.
PolicyStillMatches(w) == policy.enabled /\ policy.version = evaluator[w].version

Earlier(a, b) == IF a < b THEN a ELSE b

\* Mutant: a claim counts only when its collaboration exists.
CountsWhenTriggered(e) == decisions[e].state = "triggered"

\* The decisions a cooldown is measured from.
CountsForCooldown(e) == decisions[e].state \in {"started", "triggered"}

\* cooldownBlocks(): by the event's own time, or the present if that is earlier.
CooldownBlocks(e) ==
    Cooldown > 0 /\ \E f \in TriggerEvents :
        /\ CountsForCooldown(f)
        /\ Earlier(incoming[e].occurredAt, triggerTime) - decisions[f].startedAt < Cooldown

\* claimForPolicy(), one transaction under the lock of the policy.
ClaimDecision(w) ==
    LET e == evaluator[w].event IN
    /\ evaluator[w].at = "claim"
    /\ \/ /\ decisions[e].state # "none" /\ Leaves(w, decisions[e].state)
          /\ Works /\ UNCHANGED <<decisions, declined, missed>>
       \/ /\ decisions[e].state = "none" /\ (~PolicyStillMatches(w) \/ CooldownBlocks(e))
          /\ declined' = declined \cup {e} /\ Leaves(w, "none")
          /\ Works /\ UNCHANGED <<decisions, missed>>
       \/ /\ decisions[e].state = "none" /\ PolicyStillMatches(w) /\ ~CooldownBlocks(e)
          /\ decisions' = [decisions EXCEPT ![e] = [NoDecision EXCEPT
                !.state = IF incoming[e].deep THEN "blocked_depth" ELSE "started",
                !.startedAt = triggerTime]]
          /\ IF incoming[e].deep THEN Leaves(w, "blocked_depth") ELSE EvaluatorGoes(w, "create")
          /\ Works /\ UNCHANGED <<declined, missed>>
       \/ Throws(w) /\ Fails /\ UNCHANGED <<decisions, declined>>
    /\ UNCHANGED <<incoming, policy, triggerTime, pumped, flagged, created, ran, revived>>

\* createCompetition() or createDebate().
CreateResource(w) ==
    /\ evaluator[w].at = "create"
    /\ \/ EvaluatorGoes(w, "bind") /\ created' = [created EXCEPT ![evaluator[w].event] = @ + 1] /\ Works
       \/ EvaluatorGoes(w, "fail") /\ Fails /\ UNCHANGED created
    /\ UNCHANGED <<incoming, policy, decisions, triggerTime, pumped, flagged, ran, declined, missed, revived>>

\* The row is written whatever it has become meanwhile.
BindResource(w) ==
    LET e == evaluator[w].event IN
    /\ evaluator[w].at = "bind"
    /\ \/ /\ decisions' = [decisions EXCEPT ![e].state = "triggered", ![e].resource = TRUE,
                             ![e].dispatch = IF policy.runs THEN "started" ELSE "not_requested"]
          /\ revived' = IF decisions[e].state = "failed" THEN revived \cup {e} ELSE revived
          /\ IF policy.runs THEN EvaluatorGoes(w, "run") ELSE Leaves(w, "triggered")
          /\ Works
       \/ EvaluatorGoes(w, "fail") /\ Fails /\ UNCHANGED <<decisions, revived>>
    /\ UNCHANGED <<incoming, policy, triggerTime, pumped, flagged, created, ran, declined, missed>>

\* The competition or debate is run to its end, or the run throws.
RunResource(w) ==
    /\ evaluator[w].at = "run"
    /\ ran' = [ran EXCEPT ![evaluator[w].event] = @ + 1]
    /\ \/ EvaluatorGoes(w, "complete") /\ Works
       \/ EvaluatorGoes(w, "lose") /\ Fails
    /\ UNCHANGED <<incoming, policy, decisions, triggerTime, pumped, flagged, created, declined, missed, revived>>

\* The outcome of the run; what fails to be written as completed is written as unknown, and
\* what fails to be written as unknown fails the decision.
RecordDispatch(w) ==
    LET e == evaluator[w].event IN
    /\ \/ /\ evaluator[w].at = "complete"
          /\ \/ decisions' = [decisions EXCEPT ![e].dispatch = "completed"] /\ Leaves(w, "triggered") /\ Works
             \/ EvaluatorGoes(w, "lose") /\ Fails /\ UNCHANGED decisions
       \/ /\ evaluator[w].at = "lose"
          /\ \/ decisions' = [decisions EXCEPT ![e].dispatch = "unknown"] /\ Leaves(w, "triggered") /\ Works
             \/ EvaluatorGoes(w, "fail") /\ Fails /\ UNCHANGED decisions
    /\ UNCHANGED <<incoming, policy, triggerTime, pumped, flagged, triggerHistory>>

FailDecision(w) ==
    /\ evaluator[w].at = "fail"
    /\ \/ /\ decisions' = [decisions EXCEPT ![evaluator[w].event].state = "failed"]
          /\ Leaves(w, "failed") /\ Works /\ UNCHANGED missed
       \/ Throws(w) /\ Fails /\ UNCHANGED decisions
    /\ UNCHANGED <<incoming, policy, triggerTime, pumped, flagged, created, ran, declined, revived>>

\* recordBlock(): the refusal is put on the Run for its owner.
RecordBlock(w) ==
    /\ evaluator[w].at = "flag"
    /\ \/ flagged' = flagged \cup {evaluator[w].event} /\ EvaluatorGoes(w, "commit") /\ Works /\ UNCHANGED missed
       \/ Throws(w) /\ Fails /\ UNCHANGED flagged
    /\ UNCHANGED <<incoming, policy, decisions, triggerTime, pumped, created, ran, declined, revived>>

\* The checkpoint passes the events of the batch, those in error too.
CommitPass(w) ==
    /\ evaluator[w].at = "commit"
    /\ pumped' = pumped \cup {evaluator[w].event}
    /\ evaluator' = [evaluator EXCEPT ![w] = AtRest] /\ Works
    /\ UNCHANGED <<incoming, policy, decisions, triggerTime, flagged, triggerHistory>>

EvaluatorStops(w) ==
    /\ evaluator[w].at # "idle" /\ Fails /\ evaluator' = [evaluator EXCEPT ![w] = AtRest]
    /\ UNCHANGED <<incoming, policy, decisions, triggerTime, pumped, flagged, triggerHistory>>

-----------------------------------------------------------------------------
(* The owner, and the clock *)

\* Every edit, and a deletion, makes it another policy than the one that was read.
EditPolicy ==
    /\ Acts
    /\ \E enabled \in BOOLEAN :
         policy' = [policy EXCEPT !.enabled = enabled, !.version = @ + 1]
    /\ UNCHANGED <<incoming, decisions, evaluator, triggerTime, pumped, flagged, triggerHistory>>

Unsettled(d) == d.state \in {"started", "triggered"} /\ d.dispatch \notin {"completed", "failed"}

\* reconcileDecision(): what became of a creation or a run that nobody reported.
ReconcileDecision ==
    /\ Acts
    /\ \E e \in TriggerEvents :
         LET d == decisions[e] IN
         /\ Unsettled(d)
         /\ \/ /\ d.state = "started" /\ ~d.resource
               /\ \/ decisions' = [decisions EXCEPT ![e].state = "triggered", ![e].resource = TRUE,
                                                  ![e].dispatch = "not_requested"]
                  \/ decisions' = [decisions EXCEPT ![e].state = "failed", ![e].dispatch = "failed"]
            \/ /\ d.state = "triggered" /\ d.resource
               /\ \E outcome \in {"completed", "failed"} :
                    decisions' = [decisions EXCEPT ![e].dispatch = outcome]
    /\ UNCHANGED <<incoming, policy, evaluator, triggerTime, pumped, flagged, triggerHistory>>

TriggerTick ==
    /\ triggerTime < TriggerHorizon /\ triggerTime' = triggerTime + 1 /\ Works
    /\ UNCHANGED <<incoming, policy, decisions, evaluator, pumped, flagged, triggerHistory>>

-----------------------------------------------------------------------------
TriggersNext ==
    \/ \E w \in TriggerCallers : HandIn(w)
    \/ \E w \in Pumps : PumpEvent(w) \/ RecordBlock(w) \/ CommitPass(w)
    \/ \E w \in Evaluators :
         \/ ClaimDecision(w) \/ CreateResource(w) \/ BindResource(w) \/ RunResource(w)
         \/ RecordDispatch(w) \/ FailDecision(w) \/ EvaluatorStops(w)
    \/ EditPolicy \/ ReconcileDecision \/ TriggerTick

TriggersSpec == TriggersInit /\ [][TriggersNext]_triggerVars

-----------------------------------------------------------------------------
(* Properties *)

TriggersTypeOK ==
    /\ incoming \in [TriggerEvents -> [occurredAt : 0 .. TriggerHorizon, deep : BOOLEAN]]
    /\ policy \in [enabled : BOOLEAN, version : Nat, runs : BOOLEAN]
    /\ decisions \in [TriggerEvents ->
         [state : {"none", "started", "triggered", "failed", "blocked_depth"}, resource : BOOLEAN,
          dispatch : {"not_requested", "started", "completed", "unknown", "failed"},
          startedAt : 0 .. TriggerHorizon]]
    /\ evaluator \in [Evaluators ->
         [at : {"idle", "claim", "create", "bind", "run", "complete", "lose", "fail", "flag", "commit"},
          event : TriggerEvents, version : Nat]]
    /\ pumped \subseteq TriggerEvents /\ flagged \subseteq TriggerEvents

\* However often an event is handed in, pumped again after a crash or evaluated by two
\* processes at once, it opens and runs one collaboration at most, and none where its chain of
\* derivations is too long.  Two that the policy opened are a cooldown apart, except where a
\* late evaluator overruled the owner, who had settled one as failed.  And the pump passes no
\* event over that the policy applied to and whose evaluation was not given up for an error:
\* it is decided, and a refusal for depth is on its Run.
EventTriggersOnce ==
    /\ \A e \in TriggerEvents :
         created[e] <= 1 /\ ran[e] <= created[e] /\ (created[e] > 0 => ~incoming[e].deep)
    /\ \A e, f \in {g \in TriggerEvents \ revived : decisions[g].state \in {"started", "triggered"}} :
         Cooldown > 0 /\ e # f /\ decisions[e].startedAt <= decisions[f].startedAt
         => Earlier(incoming[f].occurredAt, decisions[f].startedAt) - decisions[e].startedAt >= Cooldown
    /\ \A e \in pumped \ (missed \cup declined) :
         decisions[e].state # "none" /\ (decisions[e].state = "blocked_depth" => e \in flagged)
=============================================================================
