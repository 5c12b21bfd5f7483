------------------------------ MODULE GlobalBudget ------------------------------
(* One account of the global budget ledger (global-budget.ts) and the callers of    *)
(* runtime/engine.ts that reserve a call in it, ask a provider and settle what the  *)
(* answer cost.  Ledger operations are atomic; a caller may stop between any two of *)
(* them, and the Run record it keeps beside the ledger is written on its own.       *)
EXTENDS Integers, FiniteSets, Sequences

CONSTANTS
    ModelKeys,       \* aeeis:model:<run>:<call>, one per model call of a Run
    ConnectorKeys,   \* aeeis:connector:..., one per lookup; a lookup may be repeated
    OwnerKeys,       \* aeeis:bot-...:<idempotency key>, repeated by the owner at will
    Callers,         \* engines and request handlers
    CallLimit,       \* budget.calls
    TokenLimit,      \* budget.tokens, where the account has one
    CallTokens,      \* tokens of a reported answer
    MaxSent,         \* bound: provider requests under one key
    MaxBoots         \* bound: restarts

ASSUME BudgetAssumption ==
    /\ CallLimit \in Nat /\ TokenLimit \in Nat /\ CallTokens \in Nat
    /\ MaxSent \in Nat /\ MaxBoots \in Nat
    /\ ModelKeys \cap (ConnectorKeys \cup OwnerKeys) = {} /\ ConnectorKeys \cap OwnerKeys = {}

BudgetKeys == ModelKeys \cup ConnectorKeys \cup OwnerKeys
Usages == {"none", "missing", "reported"}

VARIABLES
    limited,   \* whether the account limits tokens
    account,   \* usedCalls, usedTokens, unreportedTokenCalls and the entry of every key
    usage,     \* history: [key -> the usage its settlement was given]
    call,      \* [model key -> state of the call in the Run record]
    caller,    \* [caller -> the key it works on and the steps it still has to take]
    boot,      \* the step of recoverAll() the process is at; "up" when it serves
    boots,     \* restarts so far
    sent       \* history: [key -> requests a provider received]

budgetVars == <<limited, account, usage, call, caller, boot, boots, sent>>

NoCall == [key |-> "none", todo |-> <<>>]

BudgetInit ==
    /\ limited \in BOOLEAN
    /\ account = [usedCalls |-> 0, usedTokens |-> 0, unreported |-> 0,
                  entry |-> [k \in BudgetKeys |-> "none"]]
    /\ usage = [k \in BudgetKeys |-> "none"]
    /\ call = [k \in ModelKeys |-> "none"]
    /\ caller = [c \in Callers |-> NoCall]
    /\ boot = "up" /\ boots = 0
    /\ sent = [k \in BudgetKeys |-> 0]

-----------------------------------------------------------------------------
(* global-budget.ts: operations on an account *)

Admits(a) ==
    /\ ~(limited /\ a.unreported > 0)
    /\ a.usedCalls < CallLimit
    /\ ~(limited /\ a.usedTokens >= TokenLimit)

Reserved(a, k) == [a EXCEPT !.usedCalls = @ + 1, !.entry[k] = "reserved"]

\* markUnknown(): throws, or leaves the counters alone, unless the entry is reserved.
Marked(a, k) ==
    IF a.entry[k] # "reserved" THEN a
    ELSE [a EXCEPT !.entry[k] = "unknown", !.unreported = IF limited THEN @ + 1 ELSE @]

Settleable(a, k) == a.entry[k] \in {"reserved", "unknown"}

\* settle() of an entry that is reserved or unknown, given usage u.
Settled(a, k, u) ==
    LET returned == IF a.entry[k] = "unknown" /\ limited /\ a.unreported > 0 THEN 1 ELSE 0
        tokens == a.usedTokens + (IF u = "reported" THEN CallTokens ELSE 0) IN
    [a EXCEPT !.usedTokens = tokens,
              !.unreported = @ - returned + (IF u = "missing" THEN 1 ELSE 0),
              !.entry[k] = IF limited /\ (tokens > TokenLimit \/ u = "missing")
                           THEN "rejected" ELSE "settled"]

Released(a, k) == [a EXCEPT !.usedCalls = @ - 1, !.entry[k] = "released"]

-----------------------------------------------------------------------------
(* engine.ts: reserving a call *)

Begins(c, k, steps) == caller' = [caller EXCEPT ![c] = [key |-> k, todo |-> steps]]
Idle(c) == boot = "up" /\ caller[c] = NoCall

\* requestModel(): a new call id, so a new key.
ReserveModel(c, k) ==
    /\ Idle(c) /\ call[k] = "none" /\ account.entry[k] = "none"
    /\ Admits(account)
    /\ account' = Reserved(account, k)
    /\ Begins(c, k, <<"fence">>)
    /\ UNCHANGED <<limited, usage, call, boot, boots, sent>>

\* Mutant: a lookup whose key was reserved before is sent again.
ConnectorProceedsAgain(k) == account.entry[k] # "none" \/ Admits(account)

\* connectorCall(): refused unless this call made the reservation.
ConnectorProceeds(k) == account.entry[k] = "none" /\ Admits(account)

ReserveConnector(c, k) ==
    /\ Idle(c) /\ ConnectorProceeds(k)
    /\ account' = IF account.entry[k] = "none" THEN Reserved(account, k) ELSE account
    /\ Begins(c, k, <<"send">>)
    /\ UNCHANGED <<limited, usage, call, boot, boots, sent>>

\* budgetedOwnerCall(): also goes on under a reservation that is still in flight.
ReserveOwner(c, k) ==
    /\ Idle(c)
    /\ \/ account.entry[k] = "none" /\ Admits(account) /\ account' = Reserved(account, k)
       \/ account.entry[k] = "reserved" /\ UNCHANGED account
    /\ Begins(c, k, <<"send">>)
    /\ UNCHANGED <<limited, usage, call, boot, boots, sent>>

\* The Run refuses the call (paused, cancelled, another tick's call): the reservation is
\* given back.  Otherwise the call is recorded as started before anything is sent.
Fence(c) ==
    /\ boot = "up" /\ caller[c].todo = <<"fence">>
    /\ \/ call' = [call EXCEPT ![caller[c].key] = "started"] /\ Begins(c, caller[c].key, <<"send">>)
       \/ Begins(c, caller[c].key, <<"release">>) /\ UNCHANGED call
    /\ UNCHANGED <<limited, account, usage, boot, boots, sent>>

Release(c) ==
    /\ boot = "up" /\ caller[c].todo = <<"release">>
    /\ account' = Released(account, caller[c].key)
    /\ caller' = [caller EXCEPT ![c] = NoCall]
    /\ UNCHANGED <<limited, usage, call, boot, boots, sent>>

-----------------------------------------------------------------------------
(* engine.ts: asking the provider and accounting for the answer *)

\* What remains to be done for each outcome, in the order in which it is done.
Accounting(k, outcome) ==
    CASE k \in ModelKeys ->
            (CASE outcome = "answer" -> <<"settle", "completed">>
               [] outcome = "rejected" -> <<"failed", "settle">>
               [] outcome = "unknown" -> <<"unknown", "mark">>
               [] outcome = "error" -> <<"failed">>)
      [] k \in ConnectorKeys -> IF outcome = "answer" THEN <<"settle">> ELSE <<"mark">>
      [] k \in OwnerKeys -> IF outcome \in {"answer", "rejected"} THEN <<"settle">> ELSE <<"mark">>

Send(c, outcome, u) ==
    /\ boot = "up" /\ caller[c].todo = <<"send">>
    /\ LET k == caller[c].key IN
       /\ sent[k] < MaxSent
       /\ sent' = [sent EXCEPT ![k] = @ + 1]
       /\ Begins(c, k, IF k \in OwnerKeys /\ u = "missing" /\ limited /\ outcome # "unknown"
                       THEN <<"mark">> ELSE <<u>> \o Accounting(k, outcome))
    /\ UNCHANGED <<limited, account, usage, call, boot, boots>>

Rest(c) == Tail(Tail(caller[c].todo))
Goes(c, steps) ==
    caller' = [caller EXCEPT ![c] = IF steps = <<>> THEN NoCall ELSE [@ EXCEPT !.todo = steps]]
Reports(c) == Head(caller[c].todo)
NextStep(c, step) == boot = "up" /\ Len(caller[c].todo) > 1 /\ caller[c].todo[2] = step

\* settle() throws for an entry that ends up rejected; the call is then recorded as failed.
SettleInAccount(c) ==
    /\ NextStep(c, "settle")
    /\ LET k == caller[c].key
           after == IF Settleable(account, k) THEN Settled(account, k, Reports(c)) ELSE account IN
       /\ account' = after
       /\ usage' = IF Settleable(account, k) THEN [usage EXCEPT ![k] = Reports(c)] ELSE usage
       /\ Goes(c, IF Rest(c) = <<>> THEN <<>>
                  ELSE IF after.entry[k] = "settled" THEN <<Reports(c)>> \o Rest(c)
                  ELSE <<Reports(c), "failed">>)
    /\ UNCHANGED <<limited, call, boot, boots, sent>>

RecordCall(c, state) ==
    /\ NextStep(c, state)
    /\ call' = [call EXCEPT ![caller[c].key] = state]
    /\ Goes(c, IF Rest(c) = <<>> THEN <<>> ELSE <<Reports(c)>> \o Rest(c))
    /\ UNCHANGED <<limited, account, usage, boot, boots, sent>>

MarkUnknown(c) ==
    /\ boot = "up" /\ caller[c].todo # <<>>
    /\ caller[c].todo[Len(caller[c].todo)] = "mark" /\ Len(caller[c].todo) <= 2
    /\ account' = Marked(account, caller[c].key)
    /\ caller' = [caller EXCEPT ![c] = NoCall]
    /\ UNCHANGED <<limited, usage, call, boot, boots, sent>>

-----------------------------------------------------------------------------
(* Restart, recoverAll() and the operator *)

BudgetCrash ==
    /\ boots < MaxBoots
    /\ boots' = boots + 1 /\ boot' = "ensure"
    /\ caller' = [c \in Callers |-> NoCall]
    /\ UNCHANGED <<limited, account, usage, call, sent>>

\* ensureUnknown() acts only on a started call the ledger has no entry of.
EnsureInAccount ==
    /\ boot = "ensure" /\ boot' = "record"
    /\ LET missing == {k \in ModelKeys : call[k] = "started" /\ account.entry[k] = "none"} IN
       account' = [account EXCEPT
           !.usedCalls = @ + Cardinality(missing),
           !.unreported = IF limited THEN @ + Cardinality(missing) ELSE @,
           !.entry = [k \in BudgetKeys |-> IF k \in missing THEN "unknown" ELSE @[k]]]
    /\ UNCHANGED <<limited, usage, call, caller, boots, sent>>

RecordInterrupted ==
    /\ boot = "record" /\ boot' = "mark"
    /\ call' = [k \in ModelKeys |-> IF call[k] = "started" THEN "unknown" ELSE call[k]]
    /\ UNCHANGED <<limited, account, usage, caller, boots, sent>>

\* One Run after the other, ending with the process serving.
MarkInterrupted ==
    /\ boot = "mark"
    /\ \/ \E k \in ModelKeys :
            /\ call[k] = "unknown" /\ Marked(account, k) # account
            /\ account' = Marked(account, k) /\ UNCHANGED boot
       \/ /\ \A k \in ModelKeys : call[k] = "unknown" => Marked(account, k) = account
          /\ boot' = "up" /\ UNCHANGED account
    /\ UNCHANGED <<limited, usage, call, caller, boots, sent>>

\* reconcileModelCall(): the ledger first, then the Run; a settlement that is rejected
\* leaves the call unknown.
ReconcileLedger(k) ==
    /\ boot = "up" /\ call[k] = "unknown" /\ account.entry[k] = "unknown"
    /\ \E u \in {"reported", "missing"} :
         /\ ~(limited /\ u = "missing")
         /\ account' = Settled(account, k, u)
         /\ usage' = [usage EXCEPT ![k] = u]
    /\ UNCHANGED <<limited, call, caller, boot, boots, sent>>

ReconcileCall(k) ==
    /\ boot = "up" /\ call[k] = "unknown" /\ account.entry[k] = "settled"
    /\ \E state \in {"completed", "failed"} : call' = [call EXCEPT ![k] = state]
    /\ UNCHANGED <<limited, account, usage, caller, boot, boots, sent>>

BudgetNext ==
    \/ \E c \in Callers :
          \/ \E k \in ModelKeys : ReserveModel(c, k)
          \/ \E k \in ConnectorKeys : ReserveConnector(c, k)
          \/ \E k \in OwnerKeys : ReserveOwner(c, k)
          \/ Fence(c) \/ Release(c) \/ SettleInAccount(c) \/ MarkUnknown(c)
          \/ \E outcome \in {"answer", "rejected", "unknown", "error"}, u \in {"reported", "missing"} :
                Send(c, outcome, u)
          \/ \E state \in {"completed", "failed", "unknown"} : RecordCall(c, state)
    \/ BudgetCrash \/ EnsureInAccount \/ RecordInterrupted \/ MarkInterrupted
    \/ \E k \in ModelKeys : ReconcileLedger(k) \/ ReconcileCall(k)

BudgetSpec == BudgetInit /\ [][BudgetNext]_budgetVars
-----------------------------------------------------------------------------
(* Properties *)

Live == {"reserved", "unknown", "settled", "rejected"}

BudgetTypeOK ==
    /\ limited \in BOOLEAN
    /\ account.entry \in [BudgetKeys -> Live \cup {"none", "released"}]
    /\ account.usedCalls \in Int /\ account.usedTokens \in Nat /\ account.unreported \in Int
    /\ usage \in [BudgetKeys -> Usages]
    /\ call \in [ModelKeys -> {"none", "started", "unknown", "failed", "completed"}]
    /\ boot \in {"up", "ensure", "record", "mark"}
    /\ sent \in [BudgetKeys -> Nat]

\* Through restarts, repeated recovery, late settlement and reconciliation the account counts
\* what its entries say: the calls that hold a reservation, never more than the limit, and
\* those whose usage is missing, which block an account with a token limit.  A model call or a
\* lookup that reached a provider did so once and still holds its own reservation, whatever
\* was refused or asked twice.
SentUnderReservation ==
    /\ account.usedCalls = Cardinality({k \in BudgetKeys : account.entry[k] \in Live})
    /\ account.usedCalls <= CallLimit
    /\ account.unreported = Cardinality({k \in BudgetKeys : usage[k] = "missing"
                                         \/ (limited /\ account.entry[k] = "unknown")})
    /\ \A k \in BudgetKeys : sent[k] > 0 => account.entry[k] \in Live
    /\ \A k \in ModelKeys \cup ConnectorKeys : sent[k] <= 1
=============================================================================
