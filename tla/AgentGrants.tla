------------------------------ MODULE AgentGrants ------------------------------
(* Delegations to an outside Agent under one grant: AgentGateway of agent-gateway.ts *)
(* submits them, and takes their outcomes from the answer, from a reconciliation and *)
(* from a callback; agent-ledger.ts counts the calls, charges each outcome and says  *)
(* whether the grant still covered it.                                               *)
EXTENDS Integers, FiniteSets, FiniteSetsExt

CONSTANTS
    Delegations,    \* idempotency keys of delegations under the grant
    GrantCalls,     \* budget.calls
    GrantTokens,    \* budget.tokens
    Costs,          \* tokens an outcome may report
    MaxGatewayCrashes  \* bound: restarts

ASSUME AgentGrantAssumption ==
    /\ IsFiniteSet(Delegations) /\ GrantCalls \in Nat /\ GrantTokens \in Nat
    /\ Costs \subseteq Nat /\ MaxGatewayCrashes \in Nat

VARIABLES
    registration,   \* status of the grant: none, active, revoked, expired
    ledger,         \* usedCalls, usedTokens and the entry of every delegation
    decision,       \* [delegation -> the authorization recorded at its settlement]
    inFlight,       \* [delegation -> what the gateway remembers: none, pending, final]
    flow,           \* [channel -> [delegation -> the step it is at and the cost it brings]]
    submissions,    \* history: [delegation -> times it was sent to the Agent]
    charged,        \* history: [delegation -> tokens it was charged]
    handed,         \* history: the decisions outcomes were handed over with
    gatewayCrashes

agentVars == <<registration, ledger, decision, inFlight, flow, submissions, charged, handed,
               gatewayCrashes>>

Channels == {"submit", "reconcile", "callback"}
Quiet == [pc |-> "none", cost |-> 0]

AgentInit ==
    /\ registration = "none"
    /\ ledger = [calls |-> 0, tokens |-> 0, entry |-> [d \in Delegations |-> "none"]]
    /\ decision = [d \in Delegations |-> "none"]
    /\ inFlight = [d \in Delegations |-> "none"]
    /\ flow = [c \in Channels |-> [d \in Delegations |-> Quiet]]
    /\ submissions = [d \in Delegations |-> 0] /\ charged = [d \in Delegations |-> 0]
    /\ handed = [d \in Delegations |-> {}] /\ gatewayCrashes = 0

Moves(c, d, step) == flow' = [flow EXCEPT ![c][d].pc = step]
Registered == IF registration = "none" THEN "active" ELSE registration

-----------------------------------------------------------------------------
(* delegate() *)

\* assertGrantActive(), then the outcome or promise the gateway remembers, if any.
Delegate(d) ==
    /\ flow["submit"][d].pc = "none" /\ inFlight[d] = "none"
    /\ Registered = "active" /\ registration' = Registered
    /\ inFlight' = [inFlight EXCEPT ![d] = "pending"]
    /\ Moves("submit", d, "admitted")
    /\ UNCHANGED <<ledger, decision, submissions, charged, handed, gatewayCrashes>>

Reservable(d) == ledger.entry[d] = "none" /\ registration = "active"

Reserve(d) ==
    /\ flow["submit"][d].pc = "admitted"
    /\ IF Reservable(d) /\ ledger.calls < GrantCalls
       THEN /\ ledger' = [ledger EXCEPT !.calls = @ + 1, !.entry[d] = "reserved"]
            /\ Moves("submit", d, "reserved") /\ UNCHANGED inFlight
       ELSE /\ Moves("submit", d, "none") /\ inFlight' = [inFlight EXCEPT ![d] = "none"]
            /\ UNCHANGED ledger
    /\ UNCHANGED <<registration, decision, submissions, charged, handed, gatewayCrashes>>

\* The answer of the transport: an outcome with a cost, or none anybody can vouch for.
Submit(d) ==
    /\ flow["submit"][d].pc = "reserved"
    /\ submissions' = [submissions EXCEPT ![d] = @ + 1]
    /\ \/ \E k \in Costs : flow' = [flow EXCEPT !["submit"][d] = [pc |-> "answered", cost |-> k]]
       \/ Moves("submit", d, "lost")
    /\ UNCHANGED <<registration, ledger, decision, inFlight, charged, handed, gatewayCrashes>>

\* markUnknown(): the submission threw, or the Agent has only accepted the work or does not
\* know what became of it.
MarkLost(c, d) ==
    /\ flow[c][d].pc = "lost"
    /\ ledger' = IF ledger.entry[d] \in {"settled", "rejected"} THEN ledger
                 ELSE [ledger EXCEPT !.entry[d] = "unknown"]
    /\ flow' = [flow EXCEPT ![c][d] = Quiet]
    /\ inFlight' = [inFlight EXCEPT ![d] = IF c = "submit" THEN "none" ELSE @]
    /\ UNCHANGED <<registration, decision, submissions, charged, handed, gatewayCrashes>>

-----------------------------------------------------------------------------
(* reconcile() and acceptCallback(): allowed when the grant has ended *)

\* ensureUnknown(): a delegation the ledger has no entry of is admitted like a new one; one
\* it has is left as it is.
EnsureUnknown(c, d) ==
    /\ c # "submit" /\ flow[c][d].pc = "none"
    /\ submissions[d] > 0 /\ registration # "none"
    /\ c = "callback" => inFlight[d] # "final"
    /\ ledger.entry[d] # "none"
    /\ \/ \E k \in Costs : flow' = [flow EXCEPT ![c][d] = [pc |-> "answered", cost |-> k]]
       \/ Moves(c, d, "lost")
    /\ UNCHANGED <<registration, ledger, decision, inFlight, submissions, charged, handed, gatewayCrashes>>

-----------------------------------------------------------------------------
(* accountOutcome() *)

\* Mutant: an outcome that comes again is settled again.
SettledBeforeNever(d) == FALSE

SettledBefore(d) == ledger.entry[d] = "settled"

\* settle(): once settled, the recorded decision is the answer; a charge beyond the budget
\* rejects the entry and is kept.
Settle(c, d) ==
    /\ flow[c][d].pc = "answered" /\ ledger.entry[d] # "rejected"
    /\ LET cost == flow[c][d].cost
           within == ledger.tokens + cost <= GrantTokens IN
       IF SettledBefore(d)
       THEN Moves(c, d, "settled") /\ UNCHANGED <<ledger, decision, charged>>
       ELSE /\ ledger' = [ledger EXCEPT !.tokens = @ + cost,
                                        !.entry[d] = IF within THEN "settled" ELSE "rejected"]
            /\ charged' = [charged EXCEPT ![d] = @ + cost]
            /\ decision' = IF ~within THEN decision
                           ELSE [decision EXCEPT ![d] = IF registration = "active" THEN "authorized" ELSE "isolated"]
            /\ Moves(c, d, IF within THEN "settled" ELSE "lost")
    /\ UNCHANGED <<registration, inFlight, submissions, handed, gatewayCrashes>>

\* settle() throws for an entry it has rejected before.
SettleRefused(c, d) ==
    /\ flow[c][d].pc = "answered" /\ ledger.entry[d] = "rejected"
    /\ Moves(c, d, "lost")
    /\ UNCHANGED <<registration, ledger, decision, inFlight, submissions, charged, handed, gatewayCrashes>>

\* A reconciliation or a callback that fails only throws.
GiveUp(c, d) ==
    /\ c # "submit" /\ flow[c][d].pc = "lost"
    /\ flow' = [flow EXCEPT ![c][d] = Quiet]
    /\ UNCHANGED <<registration, ledger, decision, inFlight, submissions, charged, handed, gatewayCrashes>>

\* The outcome goes to the engine, emptied if the decision isolates it.
HandOver(c, d) ==
    /\ flow[c][d].pc = "settled"
    /\ handed' = [handed EXCEPT ![d] = @ \cup {decision[d]}]
    /\ inFlight' = [inFlight EXCEPT ![d] = "final"]
    /\ flow' = [flow EXCEPT ![c][d] = Quiet]
    /\ UNCHANGED <<registration, ledger, decision, submissions, charged, gatewayCrashes>>

-----------------------------------------------------------------------------
GrantEnds(s) ==
    /\ \/ registration = "active"
       \/ registration = "expired" /\ s = "revoked"
    /\ registration' = s
    /\ UNCHANGED <<ledger, decision, inFlight, flow, submissions, charged, handed, gatewayCrashes>>

\* The gateway forgets what was in flight; the ledger does not.
GatewayCrash ==
    /\ gatewayCrashes < MaxGatewayCrashes /\ gatewayCrashes' = gatewayCrashes + 1
    /\ inFlight' = [d \in Delegations |-> "none"]
    /\ flow' = [c \in Channels |-> [d \in Delegations |-> Quiet]]
    /\ UNCHANGED <<registration, ledger, decision, submissions, charged, handed>>

AgentNext ==
    \/ \E d \in Delegations : Delegate(d) \/ Reserve(d) \/ Submit(d)
    \/ \E c \in Channels, d \in Delegations :
          EnsureUnknown(c, d) \/ MarkLost(c, d) \/ Settle(c, d) \/ SettleRefused(c, d)
          \/ GiveUp(c, d) \/ HandOver(c, d)
    \/ \E s \in {"revoked", "expired"} : GrantEnds(s)
    \/ GatewayCrash

AgentSpec == AgentInit /\ [][AgentNext]_agentVars
-----------------------------------------------------------------------------
(* Properties *)

\* Through restarts, and however the answer, a reconciliation and a callback race with each
\* other and with the end of the grant, a delegation is sent to the Agent once, under a call
\* of the budget, and charged for one outcome, and every outcome handed over carries the one
\* decision taken when it was settled.
OneDecisionPerDelegation ==
    /\ ledger.calls = Cardinality({d \in Delegations : ledger.entry[d] # "none"})
    /\ ledger.calls <= GrantCalls
    /\ \A d \in Delegations :
         /\ submissions[d] <= 1
         /\ charged[d] \in Costs \cup {0}
         /\ handed[d] \subseteq {decision[d]} \ {"none"}
=============================================================================
