------------------------------- MODULE Routines -------------------------------
(***************************************************************************)
(* Routines (routines.ts): an owner's prompt started on a schedule, by a   *)
(* webhook or by hand.  One routine is modelled, with the workers that     *)
(* start it: passes of the pump, in any number of processes, and requests. *)
(* A start is first stored as a delivery, then claimed, handed to the      *)
(* conversation (which makes one Run per delivery: the key is the          *)
(* delivery's), and marked; each is a step of its own.                     *)
(*                                                                         *)
(* Time is a counter and the calendar has a start at every tick.  The      *)
(* owner's deletion, the signature and the rate limit are left out.        *)
(***************************************************************************)
EXTENDS Naturals, FiniteSets, FiniteSetsExt

CONSTANTS
    Horizon,               \* the last moment
    Workers,
    MaxDeliveryAttempts,   \* 5 in the code
    MaxByHand,             \* starts by hand among them
    MaxDeliveries,         \* webhook delivery ids
    MaxOwnerActs,          \* starts by hand and changes by the owner
    MaxRoutineFaults       \* crashes, failed and slow starts, Runs retried

ASSUME RoutineAssumption ==
    /\ IsFiniteSet(Workers)
    /\ {Horizon, MaxDeliveryAttempts, MaxByHand, MaxDeliveries, MaxOwnerActs, MaxRoutineFaults} \subseteq Nat

VARIABLES
    trigger,      \* "schedule" or "webhook"
    now,
    routine,      \* [status, nextDueAt, pendingDueAt, pendingMissed, lastRun]
    rows,         \* delivery id -> its row
    runOf,        \* delivery id -> what has become of its Run
    worker,       \* what each worker is doing
    givenUp,      \* scheduled starts the owner's changes or a dying worker took away
    ownerActs, routineFaults

routineVars == <<trigger, now, routine, rows, runOf, worker, givenUp, ownerActs, routineFaults>>

Scheduled(t) == <<"schedule", t>>
ByHand(n) == <<"manual", n>>
Webhook(n) == <<"webhook", n>>
DeliveryIds == {Scheduled(t) : t \in 1..Horizon} \cup {ByHand(n) : n \in 1..MaxByHand}
                   \cup {Webhook(n) : n \in 1..MaxDeliveries}
NoDelivery == <<"none", 0>>

NoRow == [state |-> "absent", missed |-> 0, attempts |-> 0, leased |-> FALSE]
NotBusy == [at |-> "idle", pass |-> "none", id |-> NoDelivery, missed |-> 0, attempts |-> 0,
            seen |-> NoDelivery, clear |-> FALSE, todo |-> {}]

RoutinesInit ==
    /\ trigger \in {"schedule", "webhook"}
    /\ now = 0
    /\ routine = [status |-> "active", nextDueAt |-> 1, pendingDueAt |-> 0, pendingMissed |-> 0, lastRun |-> NoDelivery]
    /\ rows = [d \in DeliveryIds |-> NoRow]
    /\ runOf = [d \in DeliveryIds \cup {NoDelivery} |-> "none"]
    /\ worker = [w \in Workers |-> NotBusy]
    /\ givenUp = 0 /\ ownerActs = 0 /\ routineFaults = 0

RunActive(d) == runOf[d] \in {"active", "retried"}
Fault == routineFaults < MaxRoutineFaults /\ routineFaults' = routineFaults + 1
NoFault == UNCHANGED routineFaults
ActOfOwner == ownerActs < MaxOwnerActs /\ ownerActs' = ownerActs + 1
TurnsTo(w, record) == worker' = [worker EXCEPT ![w] = record]
Puts(d, row) == rows' = [rows EXCEPT ![d] = row]

\* A pass goes on to the deliveries still pending, but for the one it has just
\* tried; it reads them in the step that ends its work on the schedule.
Sweep(todo) == IF todo = {} THEN NotBusy ELSE [NotBusy EXCEPT !.at = "todo", !.pass = "sweep", !.todo = todo]
PendingBut(tried) == {d \in DeliveryIds \ {tried} : rows[d].state = "pending"}

\* Where a worker is when it has done with one delivery.
Onward(w) ==
    CASE worker[w].pass = "schedule" -> Sweep(PendingBut(worker[w].id))
      [] worker[w].pass = "sweep" -> Sweep(worker[w].todo)
      [] OTHER -> NotBusy

---------------------------------------------------------------------------
(* The schedule (pump and fireSchedule). *)

DueNow == trigger = "schedule" /\ routine.status = "active"
             /\ (routine.pendingDueAt # 0 \/ routine.nextDueAt <= now)

\* The pass reads the due routine and whether its last Run is over.
BeginPass(w) ==
    /\ worker[w] = NotBusy
    /\ TurnsTo(w, IF DueNow
               THEN [NotBusy EXCEPT !.at = "due", !.pass = "schedule",
                                 !.seen = routine.lastRun, !.clear = ~RunActive(routine.lastRun)]
               ELSE Sweep(PendingBut(NoDelivery)))
    /\ NoFault /\ UNCHANGED <<trigger, now, routine, rows, runOf, givenUp, ownerActs>>

\* A bug: a start that passes while one waits is taken for the waiting one.
AdvancedOnto ==
    LET passed == IF routine.nextDueAt <= now THEN now + 1 - routine.nextDueAt ELSE 0
        waits == routine.pendingDueAt # 0
    IN  [routine EXCEPT !.nextDueAt = @ + passed,
                        !.pendingDueAt = IF ~waits /\ passed > 0 THEN routine.nextDueAt ELSE @,
                        !.pendingMissed = @ + (IF passed = 0 THEN 0 ELSE passed - 1)]

\* The first passed start is owed unless one is waiting already; the others are counted.
Advanced ==
    LET passed == IF routine.nextDueAt <= now THEN now + 1 - routine.nextDueAt ELSE 0
        waits == routine.pendingDueAt # 0
    IN  [routine EXCEPT !.nextDueAt = @ + passed,
                        !.pendingDueAt = IF ~waits /\ passed > 0 THEN routine.nextDueAt ELSE @,
                        !.pendingMissed = @ + (IF waits \/ passed = 0 THEN passed ELSE passed - 1)]

\* The last Run is over, and is still the one the pass looked at.
Clear(w) == worker[w].clear /\ routine.lastRun = worker[w].seen

AdvanceSchedule(w) ==
    /\ worker[w].at = "due"
    /\ IF routine.status = "active" /\ Advanced.pendingDueAt # 0 /\ Clear(w)
       THEN /\ routine' = [Advanced EXCEPT !.pendingDueAt = 0, !.pendingMissed = 0]
            /\ TurnsTo(w, [worker[w] EXCEPT !.at = "add", !.id = Scheduled(Advanced.pendingDueAt),
                                         !.missed = Advanced.pendingMissed])
       ELSE /\ routine' = IF routine.status = "active" THEN Advanced ELSE routine
            /\ TurnsTo(w, Onward(w))
    /\ NoFault /\ UNCHANGED <<trigger, now, rows, runOf, givenUp, ownerActs>>

AddScheduled(w) ==
    LET d == worker[w].id IN
    /\ worker[w].at = "add"
    /\ IF rows[d].state = "absent"
       THEN Puts(d, [NoRow EXCEPT !.state = "pending", !.missed = worker[w].missed])
       ELSE UNCHANGED rows
    /\ TurnsTo(w, IF rows[d].state \in {"absent", "pending"}
               THEN [worker[w] EXCEPT !.at = "claim"] ELSE Onward(w))
    /\ NoFault /\ UNCHANGED <<trigger, now, routine, runOf, givenUp, ownerActs>>

\* The deliveries the pass found pending, one after the other.
TakePending(w) ==
    /\ worker[w].at = "todo"
    /\ \E d \in worker[w].todo : TurnsTo(w, [worker[w] EXCEPT !.at = "claim", !.id = d, !.todo = @ \ {d}])
    /\ NoFault /\ UNCHANGED <<trigger, now, routine, rows, runOf, givenUp, ownerActs>>

---------------------------------------------------------------------------
(* Requests. *)

\* The owner starts it now; a new delivery each time.
RunNow(w, n) ==
    /\ worker[w] = NotBusy /\ routine.status = "active" /\ ~RunActive(routine.lastRun)
    /\ \A k \in Workers : worker[k].id # ByHand(n)
    /\ rows[ByHand(n)].state = "absent"
    /\ TurnsTo(w, [NotBusy EXCEPT !.at = "insert", !.id = ByHand(n), !.clear = TRUE])
    /\ ActOfOwner /\ NoFault /\ UNCHANGED <<trigger, now, routine, rows, runOf, givenUp>>

ReceiveWebhook(w, n) ==
    /\ worker[w] = NotBusy /\ trigger = "webhook"
    /\ TurnsTo(w, [NotBusy EXCEPT !.at = "insert", !.id = Webhook(n), !.clear = (routine.status = "active")])
    /\ NoFault /\ UNCHANGED <<trigger, now, routine, rows, runOf, givenUp, ownerActs>>

\* Only the request that inserted the delivery goes on with it; a routine that
\* was paused when it was read is refused after the insertion.
InsertRequested(w) ==
    LET d == worker[w].id IN
    /\ worker[w].at = "insert"
    /\ IF rows[d].state = "absent"
       THEN /\ Puts(d, [NoRow EXCEPT !.state = "pending"])
            /\ TurnsTo(w, [worker[w] EXCEPT !.at = IF worker[w].clear THEN "claim" ELSE "refuse"])
       ELSE UNCHANGED rows /\ TurnsTo(w, NotBusy)
    /\ NoFault /\ UNCHANGED <<trigger, now, routine, runOf, givenUp, ownerActs>>

RefusePaused(w) ==
    /\ worker[w].at = "refuse"
    /\ Puts(worker[w].id, [NoRow EXCEPT !.state = "failed"])
    /\ TurnsTo(w, NotBusy)
    /\ NoFault /\ UNCHANGED <<trigger, now, routine, runOf, givenUp, ownerActs>>

---------------------------------------------------------------------------
(* One attempt to start a delivery (attempt). *)

Claim(w) ==
    LET d == worker[w].id  row == rows[worker[w].id] IN
    /\ worker[w].at = "claim"
    /\ IF row.state = "pending" /\ ~row.leased
       THEN Puts(d, [row EXCEPT !.leased = TRUE]) /\ TurnsTo(w, [worker[w] EXCEPT !.at = "start", !.attempts = row.attempts])
       ELSE UNCHANGED rows /\ TurnsTo(w, Onward(w))
    /\ NoFault /\ UNCHANGED <<trigger, now, routine, runOf, givenUp, ownerActs>>

\* The conversation answers a key it has seen with the Run it made then.
MakesRun(d) == runOf' = [runOf EXCEPT ![d] = IF @ = "none" THEN "active" ELSE @]

StartRun(w) ==
    /\ worker[w].at = "start"
    /\ MakesRun(worker[w].id)
    /\ TurnsTo(w, [worker[w] EXCEPT !.at = "mark"])
    /\ NoFault /\ UNCHANGED <<trigger, now, routine, rows, givenUp, ownerActs>>

\* The start throws, before or after its Run was made, or the Run cannot be
\* recorded; the row the claim returned is written back as not started.
StartFails(w, made) ==
    LET d == worker[w].id  tried == worker[w].attempts + 1 IN
    /\ worker[w].at \in {"start", "last"} /\ Fault
    /\ IF made THEN MakesRun(d) ELSE UNCHANGED runOf
    /\ Puts(d, [rows[d] EXCEPT !.state = IF tried >= MaxDeliveryAttempts THEN "failed" ELSE "pending",
                                   !.attempts = tried, !.leased = FALSE])
    /\ TurnsTo(w, Onward(w))
    /\ UNCHANGED <<trigger, now, routine, givenUp, ownerActs>>

MarkStarted(w) ==
    LET d == worker[w].id IN
    /\ worker[w].at = "mark"
    /\ Puts(d, [rows[d] EXCEPT !.state = "started", !.attempts = worker[w].attempts + 1, !.leased = FALSE])
    /\ TurnsTo(w, [worker[w] EXCEPT !.at = "last"])
    /\ NoFault /\ UNCHANGED <<trigger, now, routine, runOf, givenUp, ownerActs>>

SetLastRun(w) ==
    /\ worker[w].at = "last"
    /\ routine' = [routine EXCEPT !.lastRun = worker[w].id]
    /\ TurnsTo(w, Onward(w))
    /\ NoFault /\ UNCHANGED <<trigger, now, rows, runOf, givenUp, ownerActs>>

---------------------------------------------------------------------------
(* The surroundings. *)

TimePasses ==
    /\ now < Horizon /\ now' = now + 1
    /\ NoFault /\ UNCHANGED <<trigger, routine, rows, runOf, worker, givenUp, ownerActs>>

\* Starts that have passed and are neither delivered nor in a worker's hands.
Waiting == IF routine.pendingDueAt = 0 THEN 0 ELSE 1 + routine.pendingMissed

\* A resume or a new calendar counts from now; a pause drops the waiting start.
ChangeRoutine(status, calendar) ==
    LET recount == trigger = "schedule" /\ (calendar \/ (status = "active" /\ routine.status = "paused"))
        drops == recount \/ status = "paused"
    IN
    /\ ActOfOwner
    /\ routine' = [routine EXCEPT !.status = status,
                                  !.nextDueAt = IF recount THEN now + 1 ELSE @,
                                  !.pendingDueAt = IF drops THEN 0 ELSE @,
                                  !.pendingMissed = IF drops THEN 0 ELSE @]
    /\ givenUp' = givenUp + (IF drops THEN Waiting ELSE 0) + (routine'.nextDueAt - routine.nextDueAt)
    /\ NoFault /\ UNCHANGED <<trigger, now, rows, runOf, worker>>

RunEnds(d) ==
    /\ RunActive(d)
    /\ runOf' = [runOf EXCEPT ![d] = "ended"]
    /\ NoFault /\ UNCHANGED <<trigger, now, routine, rows, worker, givenUp, ownerActs>>

\* A Run that failed may be retried, and is active again.
RunRetried(d) ==
    /\ runOf[d] = "ended" /\ Fault
    /\ runOf' = [runOf EXCEPT ![d] = "retried"]
    /\ UNCHANGED <<trigger, now, routine, rows, worker, givenUp, ownerActs>>

\* A minute passes and the worker is gone, or, rarely, still at its start.
LeaseOutlived(d) ==
    /\ rows[d].leased
    /\ IF \E w \in Workers : worker[w].at \in {"start", "mark"} /\ worker[w].id = d THEN Fault ELSE NoFault
    /\ Puts(d, [rows[d] EXCEPT !.leased = FALSE])
    /\ UNCHANGED <<trigger, now, routine, runOf, worker, givenUp, ownerActs>>

\* A start taken from the schedule and not yet stored dies with its worker.
InHand(w) == IF worker[w].at = "add" THEN 1 + worker[w].missed ELSE 0

WorkerCrash(w) ==
    /\ worker[w] # NotBusy /\ Fault
    /\ givenUp' = givenUp + InHand(w)
    /\ TurnsTo(w, NotBusy)
    /\ UNCHANGED <<trigger, now, routine, rows, runOf, ownerActs>>

---------------------------------------------------------------------------
RoutinesNext ==
    \/ \E w \in Workers :
          \/ BeginPass(w) \/ AdvanceSchedule(w) \/ AddScheduled(w) \/ TakePending(w)
          \/ \E n \in 1..MaxByHand : RunNow(w, n)
          \/ \E n \in 1..MaxDeliveries : ReceiveWebhook(w, n)
          \/ InsertRequested(w) \/ RefusePaused(w)
          \/ Claim(w) \/ StartRun(w) \/ MarkStarted(w) \/ SetLastRun(w)
          \/ \E made \in BOOLEAN : StartFails(w, made)
          \/ WorkerCrash(w)
    \/ \E d \in DeliveryIds : RunEnds(d) \/ RunRetried(d) \/ LeaseOutlived(d)
    \/ \E status \in {"active", "paused"}, calendar \in BOOLEAN : ChangeRoutine(status, calendar)
    \/ TimePasses

RoutinesSpec == RoutinesInit /\ [][RoutinesNext]_routineVars

---------------------------------------------------------------------------
\* Every start the schedule has come to is accounted for once: delivered or
\* told to a delivery as missed, waiting for the last Run, in the hands of a
\* pass that has yet to store it, or given up.  Two passes never take the same
\* start, a delivery that exists never swallows one, and putting a start off
\* loses none.
StartsAccountedFor ==
    routine.nextDueAt - 1 =
        FoldSet(LAMBDA d, n : n + (IF rows[d].state = "absent" THEN 0 ELSE 1 + rows[d].missed),
                0, {Scheduled(t) : t \in 1..Horizon})
        + FoldSet(LAMBDA w, n : n + InHand(w), 0, Workers)
        + Waiting + givenUp
=============================================================================
