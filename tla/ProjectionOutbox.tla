--------------------------- MODULE ProjectionOutbox ---------------------------
(* The PostgreSQL outbox of collaboration-projection.ts: the life of projection     *)
(* events that several processes deliver to an external sink.  A delivery holds a   *)
(* session advisory lock across the external call; the row is written before and    *)
(* after it, and an answer nobody can vouch for waits for an operator.              *)
EXTENDS Integers, FiniteSets

CONSTANTS
    OutboxProcs,        \* processes that share the table
    Projections,        \* idempotency keys of events
    Unlocked,           \* no process holds the advisory lock
    MaxRequests,        \* bound: requests the sink receives for one event
    MaxOutboxFaults     \* bound: crashes, lost connections, failed writes

ASSUME OutboxAssumption ==
    Unlocked \notin OutboxProcs /\ MaxRequests \in Nat /\ MaxOutboxFaults \in Nat

VARIABLES
    row,            \* [event -> status of its row; "absent" before enqueue]
    deliveryLock,   \* [event -> the process whose session holds its advisory lock]
    delivery,       \* [process -> [event -> where its delivery of the event is]]
    received,       \* history: [event -> requests the sink took in]
    excused,        \* history: [event -> times something justified another request]
    strayed,        \* history: events one of whose deliveries lost its session and lock
    outboxFaults

outboxVars == <<row, deliveryLock, delivery, received, excused, strayed, outboxFaults>>

Answers == {"acked", "refused", "garbled", "lost", "unheard"}
TakenIn(a) == a \in {"acked", "garbled", "unheard"}

OutboxInit ==
    /\ row = [e \in Projections |-> "absent"]
    /\ deliveryLock = [e \in Projections |-> Unlocked]
    /\ delivery = [p \in OutboxProcs |-> [e \in Projections |-> "none"]]
    /\ received = [e \in Projections |-> 0] /\ excused = [e \in Projections |-> 0]
    /\ strayed = {} /\ outboxFaults = 0

\* INSERT ... ON CONFLICT DO NOTHING: a second enqueue answers with the row there is.
Enqueue(e) ==
    /\ row[e] = "absent"
    /\ row' = [row EXCEPT ![e] = "pending"]
    /\ UNCHANGED <<deliveryLock, delivery, received, excused, strayed, outboxFaults>>

MovesTo(p, e, step) == delivery' = [delivery EXCEPT ![p][e] = step]

\* deliver(): callers in one process share the delivery under way.
Deliver(p, e) ==
    /\ row[e] # "absent" /\ delivery[p][e] = "none"
    /\ MovesTo(p, e, "waiting")
    /\ UNCHANGED <<row, deliveryLock, received, excused, strayed, outboxFaults>>

\* Mutant: only the callers of one process are kept apart.
LockFreeForAnyone(p, e) == TRUE

LockFree(p, e) == deliveryLock[e] = Unlocked

AcquireLock(p, e) ==
    /\ delivery[p][e] = "waiting" /\ LockFree(p, e)
    /\ deliveryLock' = [deliveryLock EXCEPT ![e] = p]
    /\ MovesTo(p, e, "locked")
    /\ UNCHANGED <<row, received, excused, strayed, outboxFaults>>

Unlock(p, e) ==
    deliveryLock' = IF deliveryLock[e] = p THEN [deliveryLock EXCEPT ![e] = Unlocked] ELSE deliveryLock

\* Mutant: the row that was deliverable when the delivery was asked for is sent.
SendableStill(e) == TRUE

Sendable(e) == row[e] \notin {"delivered", "unknown"}

\* get() and reserve(): the row is read again under the lock.
ReserveRow(p, e) ==
    /\ delivery[p][e] = "locked"
    /\ IF Sendable(e)
       THEN MovesTo(p, e, "reserved") /\ UNCHANGED deliveryLock
       ELSE MovesTo(p, e, "none") /\ Unlock(p, e)
    /\ UNCHANGED <<row, received, excused, strayed, outboxFaults>>

\* HttpProjectionSink.deliver(): an acknowledgement that does not parse is an error like
\* a refusal although the sink has taken the event in.
Request(p, e, a) ==
    /\ delivery[p][e] = "reserved"
    /\ TakenIn(a) => received[e] < MaxRequests
    /\ received' = IF TakenIn(a) THEN [received EXCEPT ![e] = @ + 1] ELSE received
    /\ MovesTo(p, e, a)
    /\ UNCHANGED <<row, deliveryLock, excused, strayed, outboxFaults>>

StatusOf(a) ==
    CASE a = "acked" -> "delivered" [] a \in {"refused", "garbled"} -> "failed"
      [] a \in {"lost", "unheard"} -> "unknown"

\* Counted up to MaxRequests, which the requests never exceed.
Excuse(E) ==
    excused' = [e \in Projections |->
                   IF e \in E /\ excused[e] < MaxRequests THEN excused[e] + 1 ELSE excused[e]]

\* finish() writes the outcome whatever the row says by now.
Finish(p, e) ==
    /\ delivery[p][e] \in Answers
    /\ row' = [row EXCEPT ![e] = StatusOf(delivery[p][e])]
    /\ Excuse(IF delivery[p][e] = "garbled" THEN {e} ELSE {})
    /\ MovesTo(p, e, "none") /\ Unlock(p, e)
    /\ UNCHANGED <<received, strayed, outboxFaults>>

OutboxFault == outboxFaults < MaxOutboxFaults /\ outboxFaults' = outboxFaults + 1

\* The write fails: the row says what it said before the request.
FinishFails(p, e) ==
    /\ delivery[p][e] \in Answers /\ OutboxFault
    /\ Excuse(IF TakenIn(delivery[p][e]) THEN {e} ELSE {})
    /\ MovesTo(p, e, "none") /\ Unlock(p, e)
    /\ UNCHANGED <<row, received, strayed>>

\* The process ends and its sessions with it.
OutboxCrash(p) ==
    /\ \E e \in Projections : delivery[p][e] # "none"
    /\ OutboxFault
    /\ delivery' = [delivery EXCEPT ![p] = [e \in Projections |-> "none"]]
    /\ deliveryLock' = [e \in Projections |-> IF deliveryLock[e] = p THEN Unlocked ELSE deliveryLock[e]]
    /\ Excuse({e \in Projections : TakenIn(delivery[p][e])})
    /\ UNCHANGED <<row, received, strayed>>

\* The database ends the session that holds the lock; the delivery goes on without it.
LoseSession(p, e) ==
    /\ deliveryLock[e] = p /\ OutboxFault
    /\ deliveryLock' = [deliveryLock EXCEPT ![e] = Unlocked]
    /\ strayed' = strayed \cup {e}
    /\ Excuse({e})
    /\ UNCHANGED <<row, delivery, received>>

\* The operator's word on an event whose outcome nobody knows.
Reconcile(e, outcome) ==
    /\ row[e] = "unknown"
    /\ row' = [row EXCEPT ![e] = IF outcome = "completed" THEN "delivered" ELSE "failed"]
    /\ Excuse(IF outcome = "failed" THEN {e} ELSE {})
    /\ UNCHANGED <<deliveryLock, delivery, received, strayed, outboxFaults>>

OutboxNext ==
    \/ \E e \in Projections : Enqueue(e) \/ \E o \in {"completed", "failed"} : Reconcile(e, o)
    \/ \E p \in OutboxProcs, e \in Projections :
          \/ Deliver(p, e) \/ AcquireLock(p, e) \/ ReserveRow(p, e) \/ Finish(p, e)
          \/ FinishFails(p, e) \/ LoseSession(p, e)
          \/ \E a \in Answers : Request(p, e, a)
    \/ \E p \in OutboxProcs : OutboxCrash(p)

OutboxSpec == OutboxInit /\ [][OutboxNext]_outboxVars
-----------------------------------------------------------------------------
(* Properties *)

OutboxTypeOK ==
    /\ row \in [Projections -> {"absent", "pending", "failed", "delivered", "unknown"}]
    /\ deliveryLock \in [Projections -> OutboxProcs \cup {Unlocked}]
    /\ delivery \in [OutboxProcs -> [Projections ->
                        {"none", "waiting", "locked", "reserved"} \cup Answers]]
    /\ received \in [Projections -> Nat] /\ excused \in [Projections -> Nat]
    /\ strayed \subseteq Projections
    /\ outboxFaults \in Nat

\* The sink takes an event in once, and once more for each crash or failed write after it
\* did, each lost session, each acknowledgement that does not parse and each operator who
\* says that it did not arrive: never because two processes or two pumps deliver it.
ResentOnlyForCause == \A e \in Projections : received[e] <= 1 + excused[e]

\* As long as no delivery of it has lost its session, an event that was delivered never
\* changes again, and one whose outcome is unknown changes only by an operator's word:
\* no delivery another process or pump had under way writes over the outcome.
OutcomeStands ==
    [][\A e \in Projections \ strayed :
         row[e] \in {"delivered", "unknown"} /\ row'[e] # row[e] =>
            row[e] = "unknown" /\ delivery' = delivery]_outboxVars
=============================================================================
