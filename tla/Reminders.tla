----------------------------- MODULE Reminders -----------------------------
(***************************************************************************)
(* The reminder store and the pumps that fire it (src/reminders.ts).       *)
(*                                                                         *)
(* A reminder is one durable row.  Several server processes run a          *)
(* ReminderPump over the same store: a pump claims the due rows under a    *)
(* lease, inserts one outbox event per claimed occurrence, and then        *)
(* commits the occurrence.  A claim is the triple (occurrence, attempts,   *)
(* leaseUntil): whoever still holds the row's current triple may commit.   *)
(* Every store operation is one transaction; everything a process holds    *)
(* between two of them is volatile and is lost when it crashes.            *)
(***************************************************************************)
EXTENDS Integers, FiniteSets

CONSTANTS
    Ids,            \* reminders
    Pumps,          \* server processes, each with one ReminderPump
    MaxAttempts,    \* reminder.maxAttempts
    MaxOccurrences, \* [Ids -> Nat]: recurrence.maxOccurrences, 1 if it does not recur
    Interval,       \* recurrence.intervalMs, in clock ticks
    Lease,          \* options.leaseMs, in clock ticks
    RetryDelay,     \* options.retryDelayMs, in clock ticks
    BatchSize,      \* options.batchSize
    MaxTime,        \* bound: after it the clock moves only while a row waits for it
    MaxFaults,      \* bound: process crashes and failing store transactions
    MaxRetries      \* bound: owner retries

ASSUME ConstantsAssumption ==
    /\ MaxAttempts \in Nat \ {0} /\ BatchSize \in Nat \ {0}
    /\ Interval \in Nat \ {0} /\ Lease \in Nat \ {0} /\ RetryDelay \in Nat
    /\ MaxOccurrences \in [Ids -> Nat \ {0}]
    /\ MaxTime \in Nat /\ MaxFaults \in Nat /\ MaxRetries \in Nat

VARIABLES
    now,        \* wall clock shared by every process
    reminders,  \* the durable rows
    outbox,     \* idempotency keys <<reminder, occurrence>> of enqueued events
    pump,       \* [Pumps -> [busy, startedAt]]: pumpInFlight and the pump's `now`
    inFlight,   \* [Pumps -> set of project() calls under way]
    faults, retries

vars == <<now, reminders, outbox, pump, inFlight, faults, retries>>

Status == {"absent", "scheduled", "firing", "projected", "cancelled", "failed"}
NoLease == 0

Rows == [status : Status, occurrence : Nat, attempts : Nat,
         dueAt : Nat, nextAttemptAt : Nat, leaseUntil : Nat]
Claims == [occurrence : Nat, attempts : Nat, leaseUntil : Nat]
Work == [id : Ids, claim : Claims, startedAt : Nat,
         pc : {"enqueue", "mark", "error", "fail"}]

TypeOK ==
    /\ now \in Nat
    /\ reminders \in [Ids -> Rows]
    /\ outbox \subseteq Ids \X Nat
    /\ pump \in [Pumps -> [busy : BOOLEAN, claimed : BOOLEAN, startedAt : Nat]]
    /\ inFlight \in [Pumps -> SUBSET Work]
    /\ faults \in Nat
    /\ retries \in Nat

ClaimOf(row) ==
    [occurrence |-> row.occurrence, attempts |-> row.attempts, leaseUntil |-> row.leaseUntil]

MatchesClaim(row, claim) == ClaimOf(row) = claim

\* Mutant: rows whose pump died are never claimed again.
DueForClaimUnlessFiring(row, at) ==
    /\ row.attempts < MaxAttempts /\ row.dueAt <= at /\ row.nextAttemptAt <= at
    /\ row.status \in {"scheduled", "failed"}

\* `at` is the pump's own clock reading, which may be older than now.
DueForClaim(row, at) ==
    /\ row.attempts < MaxAttempts
    /\ row.dueAt <= at
    /\ row.nextAttemptAt <= at
    /\ \/ row.status \in {"scheduled", "failed"}
       \/ row.status = "firing" /\ row.leaseUntil <= at

Idle == [busy |-> FALSE, claimed |-> FALSE, startedAt |-> 0]

Init ==
    /\ now = 1
    /\ reminders = [r \in Ids |-> [status |-> "absent", occurrence |-> 0, attempts |-> 0,
                                   dueAt |-> 0, nextAttemptAt |-> 0, leaseUntil |-> NoLease]]
    /\ outbox = {}
    /\ pump = [p \in Pumps |-> Idle]
    /\ inFlight = [p \in Pumps |-> {}]
    /\ faults = 0
    /\ retries = 0

Store(r, row) == reminders' = [reminders EXCEPT ![r] = row]

Fault == faults < MaxFaults /\ faults' = faults + 1

-----------------------------------------------------------------------------
(* The owner. *)

Create(r) ==
    /\ reminders[r].status = "absent"
    /\ \E due \in {now, now + 1} :
          Store(r, [reminders[r] EXCEPT !.status = "scheduled", !.dueAt = due,
                                        !.nextAttemptAt = due])
    /\ UNCHANGED <<now, outbox, pump, inFlight, faults, retries>>

Cancel(r) ==
    /\ reminders[r].status \in {"scheduled", "failed"}
    /\ Store(r, [reminders[r] EXCEPT !.status = "cancelled"])
    /\ UNCHANGED <<now, outbox, pump, inFlight, faults, retries>>

\* Mutant: a retry gives one attempt back instead of clearing the count.
RetryOneAttempt(r) ==
    /\ reminders[r].status \in {"failed", "cancelled"}
    /\ retries < MaxRetries
    /\ retries' = retries + 1
    /\ Store(r, [reminders[r] EXCEPT !.status = "scheduled", !.attempts = @ - 1,
                                     !.nextAttemptAt = now])
    /\ UNCHANGED <<now, outbox, pump, inFlight, faults>>

Retry(r) ==
    /\ reminders[r].status \in {"failed", "cancelled"}
    /\ retries < MaxRetries
    /\ retries' = retries + 1
    /\ Store(r, [reminders[r] EXCEPT !.status = "scheduled", !.attempts = 0,
                                     !.nextAttemptAt = now])
    /\ UNCHANGED <<now, outbox, pump, inFlight, faults>>

-----------------------------------------------------------------------------
(* One pump.  pump() reads the clock once, claims, and starts one project() *)
(* call per claimed row.  A second pump() in the same process joins the one *)
(* under way.                                                               *)

StartPump(p) ==
    /\ ~pump[p].busy
    /\ pump' = [pump EXCEPT ![p] = [busy |-> TRUE, claimed |-> FALSE, startedAt |-> now]]
    /\ UNCHANGED <<now, reminders, outbox, inFlight, faults, retries>>

\* The at most BatchSize due rows, those due first.
Batch(S, at) ==
    LET due == {r \in Ids : DueForClaim(reminders[r], at)}
    IN  /\ S \subseteq due
        /\ Cardinality(S) <= BatchSize
        /\ S = due \/ Cardinality(S) = BatchSize
        /\ \A r \in S, q \in due \ S : reminders[r].dueAt <= reminders[q].dueAt

ClaimDue(p) ==
    LET at == pump[p].startedAt IN
    /\ pump[p].busy /\ ~pump[p].claimed
    /\ \E S \in SUBSET Ids :
          /\ Batch(S, at)
          /\ reminders' = [r \in Ids |->
                IF r \in S
                THEN [reminders[r] EXCEPT !.status = "firing", !.attempts = @ + 1,
                                          !.leaseUntil = at + Lease]
                ELSE reminders[r]]
          /\ inFlight' = [inFlight EXCEPT ![p] = @ \cup
                {[id |-> r, claim |-> ClaimOf(reminders'[r]), startedAt |-> at,
                  pc |-> "enqueue"] : r \in S}]
    /\ pump' = [pump EXCEPT ![p].claimed = TRUE]
    /\ UNCHANGED <<now, outbox, faults, retries>>

FinishPump(p) ==
    /\ pump[p].claimed /\ inFlight[p] = {}
    /\ pump' = [pump EXCEPT ![p] = Idle]
    /\ UNCHANGED <<now, reminders, outbox, inFlight, faults, retries>>

Become(p, w, pc) == inFlight' = [inFlight EXCEPT ![p] = (@ \ {w}) \cup {[w EXCEPT !.pc = pc]}]
Settle(p, w) == inFlight' = [inFlight EXCEPT ![p] = @ \ {w}]

\* Mutant: a throwing insert is swallowed and the occurrence is committed.
EnqueueSwallowed(p, w) ==
    /\ w.pc = "enqueue"
    /\ outbox' \in {outbox, outbox \cup {<<w.id, w.claim.occurrence>>}}
    /\ Become(p, w, "mark")
    /\ UNCHANGED <<now, reminders, pump, faults, retries>>

\* The outbox insert is idempotent on its key.  When it throws, the row may
\* or may not have been inserted.
Enqueue(p, w) ==
    LET key == <<w.id, w.claim.occurrence>> IN
    /\ w.pc = "enqueue"
    /\ \/ outbox' = outbox \cup {key} /\ Become(p, w, "mark")
       \/ outbox' \in {outbox, outbox \cup {key}} /\ Become(p, w, "error")
    /\ UNCHANGED <<now, reminders, pump, faults, retries>>

NextDue(row) == IF row.dueAt + Interval > now THEN row.dueAt + Interval ELSE now + Interval

Projected(r) ==
    LET row == reminders[r]
        done == [row EXCEPT !.occurrence = @ + 1, !.leaseUntil = NoLease]
    IN  IF row.occurrence + 1 < MaxOccurrences[r]
        THEN [done EXCEPT !.status = "scheduled", !.attempts = 0,
                          !.dueAt = NextDue(row), !.nextAttemptAt = NextDue(row)]
        ELSE [done EXCEPT !.status = "projected"]

\* assertClaim, then only a firing row may be projected.  A refused or failed
\* transaction throws; a commit whose answer is lost throws too.
MarkProjected(p, w) ==
    LET row == reminders[w.id]
        accepted == MatchesClaim(row, w.claim) /\ row.status = "firing"
    IN  /\ w.pc = "mark"
        /\ \/ /\ accepted
              /\ Store(w.id, Projected(w.id))
              /\ \/ Settle(p, w) /\ faults' = faults
                 \/ Become(p, w, "error") /\ Fault
           \/ ~accepted /\ Become(p, w, "error") /\ UNCHANGED <<reminders, faults>>
           \/ accepted /\ Become(p, w, "error") /\ Fault /\ reminders' = reminders
        /\ UNCHANGED <<now, outbox, pump, retries>>

\* The error handler re-reads the row and gives up when the claim is no
\* longer its own; a failing read sends it on to markFailed.
HandleError(p, w) ==
    LET row == reminders[w.id]
        lost == ~MatchesClaim(row, w.claim) \/ row.status \in {"projected", "cancelled"}
    IN  /\ w.pc = "error"
        /\ \/ lost /\ Settle(p, w) /\ faults' = faults
           \/ ~lost /\ Become(p, w, "fail") /\ faults' = faults
           \/ lost /\ Become(p, w, "fail") /\ Fault
        /\ UNCHANGED <<now, reminders, outbox, pump, retries>>

\* A throwing markFailed rejects the Promise.all a pump waits on after its
\* claims: the pump returns while its other project() calls are under way.
MarkFailed(p, w) ==
    LET row == reminders[w.id]
        accepted == MatchesClaim(row, w.claim) /\ row.status = "firing"
    IN  /\ w.pc = "fail"
        /\ Settle(p, w)
        /\ \/ /\ accepted
              /\ Store(w.id, [row EXCEPT !.status = "failed", !.leaseUntil = NoLease,
                                         !.nextAttemptAt = w.startedAt + RetryDelay])
              /\ UNCHANGED <<pump, faults>>
           \/ /\ \/ ~accepted /\ faults' = faults
                 \/ accepted /\ Fault
              /\ pump' = [pump EXCEPT ![p] = IF @.claimed THEN Idle ELSE @]
              /\ reminders' = reminders
        /\ UNCHANGED <<now, outbox, retries>>

Crash(p) ==
    /\ pump[p].busy \/ inFlight[p] # {}
    /\ Fault
    /\ pump' = [pump EXCEPT ![p] = Idle]
    /\ inFlight' = [inFlight EXCEPT ![p] = {}]
    /\ UNCHANGED <<now, reminders, outbox, retries>>

Tick ==
    /\ \/ now < MaxTime
       \/ \E r \in Ids : \E t \in {"dueAt", "nextAttemptAt", "leaseUntil"} : reminders[r][t] > now
    /\ now' = now + 1
    /\ UNCHANGED <<reminders, outbox, pump, inFlight, faults, retries>>

-----------------------------------------------------------------------------

PumpStep(p) ==
    \/ StartPump(p) \/ ClaimDue(p) \/ FinishPump(p)
    \/ \E w \in inFlight[p] :
          Enqueue(p, w) \/ MarkProjected(p, w) \/ HandleError(p, w) \/ MarkFailed(p, w)

Next ==
    \/ Tick
    \/ \E r \in Ids : Create(r) \/ Cancel(r) \/ Retry(r)
    \/ \E p \in Pumps : PumpStep(p) \/ Crash(p)

Spec == Init /\ [][Next]_vars

\* Server interval timers keep every pump going and the clock advances; owners
\* and crashes are under no obligation.
Fairness == WF_vars(Tick) /\ \A p \in Pumps : WF_vars(PumpStep(p))

FairSpec == Spec /\ Fairness

-----------------------------------------------------------------------------
(* Properties. *)

\* An occurrence is left behind only once its event is in the outbox: no
\* interleaving of expired leases, throwing inserts and crashes skips one
\* (markProjectedState after projector.enqueue in project()).
NoSkippedOccurrence ==
    \A r \in Ids : \A k \in 0 .. reminders[r].occurrence - 1 : <<r, k>> \in outbox


\* A firing row whose lease has run out, left by a crash or a failing store.
Abandoned(row) == row.status = "firing" /\ row.leaseUntil <= now

\* Whatever crashes or fails, every reminder comes to rest: projected, cancelled, failed
\* with its attempts used up (README.md: a failed projection is tried again within a
\* bounded number of attempts), or abandoned in the last of them.
Settled(row) ==
    \/ row.status \in {"projected", "cancelled"}
    \/ row.attempts >= MaxAttempts /\ (row.status = "failed" \/ Abandoned(row))

EveryReminderSettles ==
    \A r \in Ids : reminders[r].status # "absent" ~> Settled(reminders[r])

\* "A restart claims expired leases again" (README.md): a row left firing by a
\* crash does not keep its expired lease.
ExpiredLeaseReclaimed ==
    \A r \in Ids : Abandoned(reminders[r]) ~> ~Abandoned(reminders[r])
=============================================================================
