--------------------------- MODULE TaskScheduler ----------------------------
(***************************************************************************)
(* The scheduler of a plan's tasks (src/task-scheduler.ts), the plan it    *)
(* reads (module TaskPlan) and the bound Runs it creates.                  *)
(*                                                                         *)
(* Three stores hold the durable state: the plan, the dispatch ledger with *)
(* one reservation per task, and the Run repository with one Run per task  *)
(* under a deterministic id.  Nothing spans two of them: a worker (the     *)
(* recovery pump, or an HTTP call) reads and writes them one at a time,    *)
(* and job is what it remembers in between.  The creator of a Run holds a  *)
(* lease in the reservation while it is between the stores.                *)
(*                                                                         *)
(* Run t is advanced by its runner once a notify for it was accepted; the  *)
(* runner reports to the plan through the transitions of syncDomainState,  *)
(* one at a time.  How a Run is advanced is module RunEngine's subject;    *)
(* here a step of it is asked, answered and reported.                      *)
(***************************************************************************)
EXTENDS TaskPlan, FiniteSets

CONSTANTS
    Pumps,      \* processes whose timer calls reconcileAll
    Callers,    \* HTTP requests to the scheduler or to a Run
    NoWorker,   \* a reservation without createLease
    CallBudget, \* how often a Run that failed can be revived with its model-call budget
    Requests,   \* bound: which requests come, of plan, task, sweep, dispatch and Commands
    OwnerMoves, \* bound: which transitions the owner makes by hand
    MaxMoves,   \* bound: how many of both
    Faults,     \* bound: which faults come, of notify, create, crash and runner
    MaxFaults,  \* bound: how many
    MaxBad      \* bound: model requests that fail, are lost or end the Run early

Workers == Pumps \cup Callers

ASSUME SchedulerAssumption ==
    /\ Pumps \cap Callers = {} /\ NoWorker \notin Workers
    /\ OwnerMoves \subseteq Transitions
    /\ Requests \subseteq {"plan", "task", "sweep", "dispatch", "pause", "resume", "cancel",
                           "retry", "reconcile", "approve", "answer"}
    /\ Faults \subseteq {"notify", "create", "crash", "runner"}
    /\ CallBudget \in Nat /\ MaxMoves \in Nat /\ MaxFaults \in Nat /\ MaxBad \in Nat

VARIABLES
    node,       \* the plan's nodes
    ledger,     \* the dispatch records
    run,        \* the bound Runs
    delivered,  \* tasks for whose Run some notify was accepted
    job,        \* [Workers -> what the call in progress holds]
    tick,       \* [Tasks -> where the Run's runner is]
    addressed,  \* history: tasks somebody has addressed a request to
    moves, faults, bad

vars == <<node, ledger, run, delivered, job, tick, addressed, moves, faults, bad>>
stores == <<node, ledger, run, delivered>>
counters == <<addressed, moves, faults, bad>>

Runnable == {"queued", "running", "reviewing"}
Wakeable == Runnable \cup {"needs_approval"}
Terminal == {"succeeded", "failed", "cancelled"}
RunStatuses == Wakeable \cup Terminal \cup {"needs_input", "paused", "unknown"}
DispatchStates == {"absent", "queued", "dispatched", "waiting", "succeeded", "failed",
                   "unknown", "cancelled"}
Stages == {"new", "planned", "done", "accepted"}
Commands == {"pause", "resume", "cancel", "retry", "reconcile", "approve", "answer"}

\* resume is the status a paused Run resumes to, stage what it has got to: no plan, a
\* plan, its one step done, its review accepted.
Runs == [status : RunStatuses \cup {"absent"}, resume : RunStatuses, stage : Stages,
         partial : BOOLEAN, revived : Nat]
Records == [state : DispatchStates, attempt : Nat, token : Workers \cup {NoWorker}, live : BOOLEAN]

\* Mutant: the ledger shows the Run's own status.
StateForRunRaw(status) == IF status \in Wakeable THEN "dispatched" ELSE status

StateForRun(status) ==
    CASE status \in Terminal \cup {"unknown"} -> status
      [] status \in {"needs_input", "paused"} -> "waiting"
      [] OTHER -> "dispatched"

\* What a worker remembers: the task at hand; the page of the scan, the missing Runs and
\* the success it met; the attempts of the ready tasks as it read them and those still to
\* be scheduled; where reconcileRecord returns to; whether a sweep follows; the status
\* seen last; and a command with the transitions it has still to send.
Readings == [state : DispatchStates, token : Workers \cup {NoWorker}, live : BOOLEAN]
PCs == {"idle", "scan", "requeue", "observe", "record", "unlock", "loop", "sweep", "lease",
        "look", "create", "insert", "signal", "view", "ack", "release", "command", "sync",
        "apply", "recount", "notify", "decide", "decideReady"}
Jobs == [pc : PCs,
         task : Tasks,
         page : [Tasks -> Readings], missing : SUBSET Tasks, saw : BOOLEAN,
         ready : [Tasks -> Nat], queue : SUBSET Tasks,
         ret : {"loop", "scan", "decide", "decideReady"},
         sweep : BOOLEAN, seen : DispatchStates \cup RunStatuses, todo : Seq(Transitions),
         act : Commands \cup {"none", "redo", "dispatch"}]
Ticks == [pc : {"idle", "planned", "asking", "judging", "read", "apply", "closing", "throw",
                "down", "cutoff"},
          mode : {"trail", "review", "finish", "recover", "refinish"}, todo : Seq(Transitions)]

Unread == [state |-> "absent", token |-> NoWorker, live |-> FALSE]
NoJob == [pc |-> "idle", task |-> 1, page |-> [t \in Tasks |-> Unread], missing |-> {},
          saw |-> FALSE, ready |-> [t \in Tasks |-> 0], queue |-> {}, ret |-> "loop", sweep |-> FALSE,
          seen |-> "absent", todo |-> <<>>, act |-> "none"]
NoTick == [pc |-> "idle", mode |-> "trail", todo |-> <<>>]

TypeOK ==
    /\ node \in [Tasks -> [status : TaskStatuses, attempt : Nat]]
    /\ ledger \in [Tasks -> Records]
    /\ run \in [Tasks -> Runs]
    /\ delivered \subseteq Tasks /\ addressed \subseteq Tasks
    /\ job \in [Workers -> Jobs]
    /\ tick \in [Tasks -> Ticks]
    /\ moves \in Nat /\ faults \in Nat /\ bad \in Nat

-----------------------------------------------------------------------------
(* Shorthands *)

At(w, p) == job[w].pc = p
Become(w, j) == job' = [job EXCEPT ![w] = j]
Goto(w, p) == Become(w, [job[w] EXCEPT !.pc = p])
Abort(w) == Become(w, NoJob)

\* scheduleNode returns: to the rest of the loop, to the sweep that follows it, or for good.
Resting(j) ==
    LET left == j.missing \cup j.queue IN
    IF left = {} /\ ~j.sweep THEN NoJob
    ELSE [NoJob EXCEPT !.pc = IF left = {} THEN "sweep" ELSE "loop", !.sweep = j.sweep,
                       !.missing = j.missing, !.queue = j.queue,
                       !.ready = [t \in Tasks |-> IF t \in left THEN j.ready[t] ELSE 0]]
Rest(w) == Become(w, Resting(job[w]))

Fault(kind) ==
    /\ kind \in Faults /\ faults < MaxFaults
    /\ faults' = faults + 1 /\ UNCHANGED <<addressed, moves, bad>>
Move == moves < MaxMoves /\ moves' = moves + 1 /\ UNCHANGED <<faults, bad>>
Quiet == UNCHANGED counters

ReadyTasks == {t \in Tasks : node[t].status = "ready"}
\* The ready tasks with their attempts, beside what was read of others before.
Reread(ready) == [t \in Tasks |-> IF t \in ReadyTasks THEN node[t].attempt ELSE ready[t]]
ReadyNodes == Reread([t \in Tasks |-> 0])
Reserved == {t \in Tasks : ledger[t].state # "absent"}
Page == [t \in Tasks |-> [state |-> ledger[t].state, token |-> ledger[t].token,
                          live |-> ledger[t].live]]
Unscanned(j) == {t \in Tasks : j.page[t].state # "absent"}

SetRecord(t, rec) == ledger' = [ledger EXCEPT ![t] = rec]
\* resumeStatus means nothing once the Run is not paused.
SetRun(t, r) ==
    run' = [run EXCEPT ![t] = IF r.status = "paused" THEN r ELSE [r EXCEPT !.resume = "running"]]
Status(t) == run[t].status

\* Of the Run it has read a worker uses only what the ledger would say of it;
\* to notify is worth it exactly where that is `dispatched`.
Glimpse(t) == IF Status(t) = "absent" THEN "absent" ELSE StateForRun(Status(t))
Seeing(w, p) == Become(w, [job[w] EXCEPT !.pc = p, !.seen = Glimpse(job[w].task)])

Init ==
    /\ node = FirstNodes
    /\ ledger = [t \in Tasks |-> [state |-> "absent", attempt |-> 0, token |-> NoWorker,
                                  live |-> FALSE]]
    /\ run = [t \in Tasks |-> [status |-> "absent", resume |-> "running", stage |-> "new",
                               partial |-> FALSE, revived |-> 0]]
    /\ delivered = {} /\ addressed = {}
    /\ job = [w \in Workers |-> NoJob]
    /\ tick = [t \in Tasks |-> NoTick]
    /\ moves = 0 /\ faults = 0 /\ bad = 0

-----------------------------------------------------------------------------
(* reconcilePlan: scan the ledger, then schedule what is ready *)

Scanning == [NoJob EXCEPT !.pc = "scan", !.page = Page]

\* The timer.  The recovery lease and `pumping` let one sweep run at a time.
StartSweep(p) ==
    /\ \A q \in Pumps : At(q, "idle")
    /\ Reserved # {}
    /\ Become(p, Scanning)
    /\ UNCHANGED <<stores, tick, counters>>

\* Mutant: a reservation with a lease is left to its creator for good.
LeaseRunsForGood(t, rec) == rec.token # NoWorker

\* The lease in the snapshot of a record, judged by the clock of now.
LeaseRuns(t, rec) == rec.live /\ (ledger[t].token = rec.token => ledger[t].live)

\* Mutant: a Run that has not begun is not woken.
WakesStarted(t) == Status(t) \in Wakeable \ {"queued"}

Wakes(t) == Status(t) \in Wakeable

\* One record of the page.  A queued one whose Run exists was never
\* acknowledged: notify the Run before its status is copied.
ScanRecord(w, t) ==
    /\ At(w, "scan") /\ t \in Unscanned(job[w])
    /\ LET rec == job[w].page[t]
           rest == [job[w] EXCEPT
                      !.page[t] = Unread, !.saw = @ \/ rec.state = "succeeded", !.task = t, !.ret = "scan"]
           leased == rec.state = "queued" /\ LeaseRuns(t, rec)
           owed == rec.state = "queued" /\ Wakes(t)
       IN  \/ leased /\ Become(w, rest) /\ Quiet /\ UNCHANGED delivered
           \/ /\ ~leased /\ rec.state = "queued" /\ Status(t) = "absent"
              /\ Become(w, [rest EXCEPT !.missing = @ \cup {t}])
              /\ Quiet /\ UNCHANGED delivered
           \/ /\ ~leased /\ rec.state = "queued" /\ Status(t) # "absent"
              /\ Become(w, [rest EXCEPT !.pc = "observe"])
              /\ delivered' = IF owed THEN delivered \cup {t} ELSE delivered
              /\ Quiet
           \/ /\ rec.state # "queued"
              /\ Become(w, [rest EXCEPT !.pc = "record", !.seen = Glimpse(t)])
              /\ Quiet /\ UNCHANGED delivered
           \/ /\ ~leased /\ owed
              /\ Fault("notify")
              /\ Become(w, [rest EXCEPT !.pc = "requeue"])
              /\ UNCHANGED delivered
    /\ UNCHANGED <<node, ledger, run, tick>>

\* The notification failed: the record goes back to queued, the sweep is over.
Requeue(w) ==
    /\ At(w, "requeue")
    /\ SetRecord(job[w].task, [ledger[job[w].task] EXCEPT !.state = "queued"])
    /\ Abort(w)
    /\ UNCHANGED <<node, run, delivered, tick, counters>>

\* Mutant: the ready tasks are left to the calls that name them.
EndScanMissingOnly(w) ==
    /\ At(w, "scan") /\ Unscanned(job[w]) = {}
    /\ Become(w, Resting([job[w] EXCEPT !.ready = ReadyNodes, !.missing = @ \cap ReadyTasks]))
    /\ UNCHANGED <<stores, tick, counters>>

EndScan(w) ==
    /\ At(w, "scan") /\ Unscanned(job[w]) = {}
    /\ Become(w, Resting([job[w] EXCEPT !.ready = ReadyNodes, !.missing = @ \cap ReadyTasks,
                                        !.queue = IF job[w].saw THEN ReadyTasks ELSE {}]))
    /\ UNCHANGED <<stores, tick, counters>>

-----------------------------------------------------------------------------
(* reconcileRecord: copy the Run's status to its record *)

\* reconcileRecord returns to the scan, to scheduleNode's loop or to controlTask.
Return(w, j) ==
    Become(w, CASE j.ret = "loop" -> Resting(j)
                [] j.ret = "scan" -> [j EXCEPT !.pc = "scan", !.task = 1, !.seen = "absent"]
                [] OTHER -> [j EXCEPT !.pc = j.ret])

Observe(w) ==
    /\ At(w, "observe")
    /\ IF Status(job[w].task) = "absent" THEN Return(w, job[w]) ELSE Seeing(w, "record")
    /\ UNCHANGED <<stores, tick, counters>>

\* Mutant: only a queued record takes over what was read.
RecordOnce(w) ==
    /\ At(w, "record")
    /\ LET t == job[w].task IN
       /\ IF ledger[t].state = "queued" THEN SetRecord(t, [ledger[t] EXCEPT !.state = job[w].seen])
          ELSE UNCHANGED ledger
       /\ IF job[w].ret # "scan" /\ job[w].seen = "succeeded" THEN Goto(w, "unlock")
          ELSE Return(w, [job[w] EXCEPT !.saw = @ \/ job[w].seen = "succeeded"])
    /\ UNCHANGED <<node, run, delivered, tick, counters>>

Record(w) ==
    /\ At(w, "record")
    /\ LET t == job[w].task IN
       /\ SetRecord(t, [ledger[t] EXCEPT !.state = job[w].seen])
       /\ IF job[w].ret # "scan" /\ job[w].seen = "succeeded" THEN Goto(w, "unlock")
          ELSE Return(w, [job[w] EXCEPT !.saw = @ \/ job[w].seen = "succeeded"])
    /\ UNCHANGED <<node, run, delivered, tick, counters>>

\* A succeeded record unlocks the tasks that are ready by now.
Unlock(w) ==
    /\ At(w, "unlock")
    /\ Become(w, Resting([job[w] EXCEPT !.ready = Reread(@),
                                        !.queue = @ \cup ReadyTasks]))
    /\ UNCHANGED <<stores, tick, counters>>

-----------------------------------------------------------------------------
(* scheduleNode: the loop over the tasks to schedule, and one of them *)

\* Missing Runs come first, then the ready tasks in the plan's order.
IsNext(w, t) ==
    IF job[w].missing # {} THEN t \in job[w].missing
    ELSE t \in job[w].queue /\ \A u \in job[w].queue : t <= u

\* schedulePlan ends with a sweep of its plan.
SweepAfter(w) ==
    /\ At(w, "sweep")
    /\ Become(w, Scanning)
    /\ UNCHANGED <<stores, tick, counters>>

Reserve(w, t) ==
    /\ At(w, "loop") /\ IsNext(w, t)
    /\ LET attempt == job[w].ready[t]
           rec == ledger[t]
           rest == [job[w] EXCEPT !.task = t, !.ret = "loop",
                       !.missing = @ \ {t},
                       !.queue = IF t \in job[w].missing THEN @ ELSE @ \ {t}]
           revive == rec.state = "failed" /\ attempt > rec.attempt
       IN  /\ Become(w, CASE rec.state \in {"absent", "queued"} -> [rest EXCEPT !.pc = "lease"]
                          [] rec.state \in {"dispatched", "waiting"} -> [rest EXCEPT !.pc = "observe"]
                          [] revive -> [rest EXCEPT !.pc = "command", !.act = "redo"]
                          [] OTHER -> Resting(rest))
           /\ IF rec.state = "absent"
              THEN SetRecord(t, [rec EXCEPT !.state = "queued", !.attempt = attempt])
              ELSE UNCHANGED ledger
    /\ UNCHANGED <<node, run, delivered, tick, counters>>

Lease(w) ==
    /\ At(w, "lease")
    /\ LET t == job[w].task IN
       IF ledger[t].state # "queued" \/ ledger[t].live
       THEN Rest(w) /\ UNCHANGED ledger
       ELSE /\ SetRecord(t, [ledger[t] EXCEPT !.token = w, !.live = TRUE])
            /\ Goto(w, "look")
    /\ UNCHANGED <<node, run, delivered, tick, counters>>

\* createLeaseMs pass.
Expire(t) ==
    /\ ledger[t].live
    /\ SetRecord(t, [ledger[t] EXCEPT !.live = FALSE])
    /\ UNCHANGED <<node, run, delivered, job, tick, counters>>

\* Is there a Run to adopt?
Look(w) ==
    /\ At(w, "look")
    /\ Seeing(w, IF Status(job[w].task) = "absent" THEN "create" ELSE "signal")
    /\ UNCHANGED <<stores, tick, counters>>

\* AgentEngine.create looks again, and refuses a task that is not ready.
Create(w) ==
    /\ At(w, "create")
    /\ LET t == job[w].task IN
       \/ Status(t) # "absent" /\ Seeing(w, "signal") /\ Quiet
       \/ /\ Status(t) = "absent"
          /\ node[t].status = "ready" /\ DependenciesSucceeded(node, t)
          /\ Goto(w, "insert") /\ Quiet
       \/ /\ Status(t) = "absent"
          /\ ~(node[t].status = "ready" /\ DependenciesSucceeded(node, t))
          /\ Goto(w, "release") /\ Quiet
       \/ Status(t) = "absent" /\ Fault("create") /\ Goto(w, "release")
    /\ UNCHANGED <<stores, tick>>

\* The repository's key makes the second creator adopt the first one's Run.
Insert(w) ==
    /\ At(w, "insert")
    /\ LET t == job[w].task IN
       IF Status(t) = "absent"
       THEN /\ SetRun(t, [run[t] EXCEPT !.status = "queued"])
            /\ Become(w, [job[w] EXCEPT !.pc = "signal", !.seen = "dispatched"])
       ELSE Seeing(w, "signal") /\ UNCHANGED run
    /\ UNCHANGED <<node, ledger, delivered, tick, counters>>

\* Only the holder of the token notifies.
Signal(w) ==
    /\ At(w, "signal")
    /\ LET t == job[w].task IN
       \/ ledger[t].token # w /\ Rest(w) /\ Quiet /\ UNCHANGED delivered
       \/ /\ ledger[t].token = w
          /\ Goto(w, "view")
          /\ delivered' = IF job[w].seen = "dispatched" THEN delivered \cup {t} ELSE delivered
          /\ Quiet
       \/ /\ ledger[t].token = w /\ job[w].seen = "dispatched"
          /\ Fault("notify") /\ Goto(w, "release") /\ UNCHANGED delivered
    /\ UNCHANGED <<node, ledger, run, tick>>

View(w) ==
    /\ At(w, "view")
    /\ Seeing(w, "ack")
    /\ UNCHANGED <<stores, tick, counters>>

Closed(t, state) == [ledger[t] EXCEPT !.state = state, !.token = NoWorker, !.live = FALSE]

\* Mutant: whoever comes back acknowledges the reservation.
AckUnfenced(w) ==
    /\ At(w, "ack")
    /\ SetRecord(job[w].task, Closed(job[w].task, job[w].seen))
    /\ Rest(w)
    /\ UNCHANGED <<node, run, delivered, tick, counters>>

Ack(w) ==
    /\ At(w, "ack")
    /\ LET t == job[w].task IN
       IF ledger[t].token = w THEN SetRecord(t, Closed(t, job[w].seen))
       ELSE UNCHANGED ledger
    /\ Rest(w)
    /\ UNCHANGED <<node, run, delivered, tick, counters>>

\* Creation or notification failed: give the reservation back, and throw.
Release(w) ==
    /\ At(w, "release")
    /\ LET t == job[w].task IN
       IF ledger[t].token = w THEN SetRecord(t, Closed(t, "queued")) ELSE UNCHANGED ledger
    /\ Abort(w)
    /\ UNCHANGED <<node, run, delivered, tick, counters>>

-----------------------------------------------------------------------------
(* A command on the bound Run: AgentEngine.command, its report to the plan, *)
(* and what the scheduler does afterwards                                   *)

Restarted(stage) ==
    CASE stage = "new" -> "queued" [] stage = "planned" -> "running" [] OTHER -> "reviewing"

Revived(r) == [r EXCEPT !.status = Restarted(r.stage), !.revived = @ + 1]

\* Mutant: a retry also takes a Run whose outcome is unknown.
AfterRetryingUnknown(r, act) ==
    CASE act = "pause" /\ r.status \in Runnable ->
             {[r EXCEPT !.status = "paused", !.resume = r.status]}
      [] act = "resume" /\ r.status = "paused" -> {[r EXCEPT !.status = r.resume]}
      [] act = "cancel" /\ r.status \notin {"absent", "succeeded", "cancelled"} ->
             {[r EXCEPT !.status = "cancelled"]}
      [] act \in {"retry", "redo", "reconcile"} /\ r.status \in {"failed", "unknown"}
             /\ r.revived < CallBudget -> {Revived(r)}
      [] act = "approve" /\ r.status = "needs_approval" -> {[r EXCEPT !.status = "running"]}
      [] act = "answer" /\ r.status = "needs_input" -> {[r EXCEPT !.status = "running"]}
      [] OTHER -> {}

\* The Run after a command; nothing if the command is refused.
After(r, act) ==
    CASE act = "pause" /\ r.status \in Runnable ->
             {[r EXCEPT !.status = "paused", !.resume = r.status]}
      [] act = "resume" /\ r.status = "paused" -> {[r EXCEPT !.status = r.resume]}
      [] act = "cancel" /\ r.status \notin {"absent", "succeeded", "cancelled"} ->
             {[r EXCEPT !.status = "cancelled"]}
      [] act \in {"retry", "redo"} /\ r.status = "failed" /\ r.revived < CallBudget -> {Revived(r)}
      [] act = "reconcile" /\ r.status = "unknown" /\ r.revived < CallBudget -> {Revived(r)}
      [] act = "approve" /\ r.status = "needs_approval" -> {[r EXCEPT !.status = "running"]}
      [] act = "answer" /\ r.status = "needs_input" -> {[r EXCEPT !.status = "running"]}
      [] OTHER -> {}

Command(w) ==
    /\ At(w, "command")
    /\ LET t == job[w].task
           after == After(run[t], job[w].act)
       IN  \/ after = {} /\ Abort(w) /\ UNCHANGED run
           \/ \E r \in after :
                 /\ SetRun(t, r)
                 /\ Become(w, [job[w] EXCEPT !.pc = "sync", !.seen = r.status])
    /\ UNCHANGED <<node, ledger, delivered, tick, counters>>

\* Once the plan knows: retry renews the record's attempt, pause and cancel only look.
Reporting(w, todo) ==
    Become(w, [job[w] EXCEPT !.todo = todo,
        !.pc = CASE todo # <<>> -> "apply"
                 [] job[w].act \in {"retry", "redo"} -> "recount"
                 [] job[w].act \in {"pause", "cancel"} -> "observe"
                 [] OTHER -> "notify"])

\* syncDomainState(result) reads the plan, then sends its transitions.
CommandSync(w) ==
    /\ At(w, "sync")
    /\ Reporting(w, SyncSteps(job[w].seen, node[job[w].task].status))
    /\ UNCHANGED <<stores, tick, counters>>

\* A refused transition makes the command throw after the Run has changed.
CommandApply(w) ==
    /\ At(w, "apply")
    /\ LET t == job[w].task
           todo == job[w].todo
       IN  \/ /\ Accepts(node, t, Head(todo))
              /\ node' = Reported(node, t, Head(todo))
              /\ Reporting(w, Tail(todo))
           \/ /\ ~Accepts(node, t, Head(todo))
              /\ Abort(w)
              /\ UNCHANGED node
    /\ UNCHANGED <<ledger, run, delivered, tick, counters>>

\* The record takes over the attempt: scheduleNode's own snapshot, or for a
\* retry control the plan's present one if it is newer.
Recount(w) ==
    /\ At(w, "recount")
    /\ LET t == job[w].task
           attempt == IF job[w].act = "redo" THEN job[w].ready[t]
                      ELSE IF node[t].attempt > ledger[t].attempt THEN node[t].attempt
                      ELSE ledger[t].attempt
       IN  SetRecord(t, [ledger[t] EXCEPT !.attempt = attempt])
    /\ Goto(w, "notify")
    /\ UNCHANGED <<node, run, delivered, tick, counters>>

\* A Run's own route (approve, answer) drops a failing notification; the scheduler's throw.
Notify(w) ==
    /\ At(w, "notify")
    /\ LET done == IF job[w].act \in {"approve", "answer"} THEN NoJob
                   ELSE [job[w] EXCEPT !.pc = "observe"] IN
       \/ Become(w, done) /\ delivered' = delivered \cup {job[w].task} /\ Quiet
       \/ Fault("notify") /\ Abort(w) /\ UNCHANGED delivered
    /\ UNCHANGED <<node, ledger, run, tick>>

Scheduled(t, ready) == Resting([NoJob EXCEPT !.ready = ready, !.queue = {t}])

\* controlTask(dispatch), after its first reconcileRecord.  To notify a Run that
\* does not exist does nothing.
Decide(w) ==
    /\ At(w, "decide") \/ At(w, "decideReady")
    /\ LET t == job[w].task
           again == At(w, "decideReady") /\ job[w].seen \in {"absent", "failed"}
       IN  \/ again /\ Become(w, Scheduled(t, job[w].ready))
           \/ ~again /\ job[w].seen \in {"absent", "unknown", "cancelled"} /\ Abort(w)
           \/ /\ ~again /\ job[w].seen \notin {"absent", "unknown", "cancelled"}
              /\ Become(w, [job[w] EXCEPT !.pc = "notify", !.ret = "loop", !.act = "dispatch"])
    /\ UNCHANGED <<stores, tick, counters>>

-----------------------------------------------------------------------------
(* HTTP requests *)

Begin(c, j) == At(c, "idle") /\ Move /\ Become(c, j) /\ UNCHANGED <<stores, tick>>

SchedulePlan(c) ==
    /\ Begin(c, Resting([NoJob EXCEPT !.ready = ReadyNodes, !.queue = ReadyTasks, !.sweep = TRUE]))
    /\ UNCHANGED addressed

ReconcilePlan(c) == Begin(c, Scanning) /\ UNCHANGED addressed

\* scheduleNodeById: a task that is not ready is only looked at.
ScheduleTask(c, t) ==
    \/ /\ node[t].status = "ready"
       /\ Begin(c, Scheduled(t, ReadyNodes)) /\ UNCHANGED addressed
    \/ /\ node[t].status # "ready" /\ t \in Reserved
       /\ Begin(c, [NoJob EXCEPT !.pc = "observe", !.task = t])
       /\ addressed' = addressed \cup {t}

\* controlTask on a reservation, or the Run's own route for approve and answer.
Control(c, t, act) ==
    /\ t \in Reserved
    /\ Begin(c, [NoJob EXCEPT !.pc = "command", !.task = t, !.act = act])
    /\ addressed' = addressed \cup {t}

ControlDispatch(c, t) ==
    /\ t \in Reserved
    /\ Begin(c, [NoJob EXCEPT !.pc = "observe", !.task = t, !.ready = ReadyNodes,
                     !.ret = IF t \in ReadyTasks THEN "decideReady" ELSE "decide"])
    /\ addressed' = addressed \cup {t}

\* The owner moves a task by hand.
TransitionTask(t, transition) ==
    /\ Move
    /\ CanMove(node, t, transition)
    /\ node' = Moved(node, t, transition)
    /\ addressed' = addressed \cup {t}
    /\ UNCHANGED <<ledger, run, delivered, job, tick>>

Crash(w) ==
    /\ ~At(w, "idle")
    /\ Fault("crash")
    /\ Abort(w)
    /\ UNCHANGED <<stores, tick>>

-----------------------------------------------------------------------------
(* The runner of a bound Run: advance() and recoverRun() *)

TickGoto(t, p) == tick' = [tick EXCEPT ![t].pc = p]
Syncing(mode) == [pc |-> "read", mode |-> mode, todo |-> <<>>]
TickSync(t, mode) == tick' = [tick EXCEPT ![t] = Syncing(mode)]
Due(t) == tick[t].pc = "idle" /\ t \in delivered

\* A paused Run stays paused; the new status is what it resumes to.
Landed(t, s) ==
    IF Status(t) = "paused" THEN [run[t] EXCEPT !.resume = s] ELSE [run[t] EXCEPT !.status = s]

\* The plan of a bound Run is its task, if the task is still ready.
TickPlan(t) ==
    /\ Due(t) /\ Status(t) = "queued"
    /\ TickGoto(t, IF node[t].status = "ready" THEN "planned" ELSE "throw")
    /\ UNCHANGED <<stores, job, counters>>

Plan(t) ==
    /\ tick[t].pc = "planned"
    /\ \/ /\ Status(t) = "queued"
          /\ \E s \in {"running", "needs_approval"} :
                SetRun(t, [run[t] EXCEPT !.status = s, !.stage = "planned"])
       \/ Status(t) # "queued" /\ UNCHANGED run
    /\ TickSync(t, "trail")
    /\ UNCHANGED <<node, ledger, delivered, job, counters>>

TickExecute(t) ==
    /\ Due(t) /\ Status(t) = "running" /\ run[t].stage = "planned"
    /\ \/ /\ Accepts(node, t, "start")
          /\ node' = Reported(node, t, "start")
          /\ TickGoto(t, "asking")
       \/ ~Accepts(node, t, "start") /\ TickGoto(t, "throw") /\ UNCHANGED node
    /\ UNCHANGED <<ledger, run, delivered, job, counters>>

\* Every step is done: on to the review, or closed with what there is.
TickDone(t) ==
    /\ Due(t) /\ Status(t) = "running" /\ run[t].stage \in {"done", "accepted"}
    /\ \/ SetRun(t, [run[t] EXCEPT !.status = "reviewing"])
       \/ SetRun(t, [run[t] EXCEPT !.status = "succeeded", !.partial = TRUE])
    /\ TickSync(t, "trail")
    /\ UNCHANGED <<node, ledger, delivered, job, counters>>

TickReview(t) ==
    /\ Due(t) /\ Status(t) = "reviewing"
    /\ IF run[t].stage = "accepted" THEN TickSync(t, "finish") ELSE TickGoto(t, "judging")
    /\ UNCHANGED <<stores, job, counters>>

Open(t) == Status(t) \notin Terminal

\* A late answer to a Run that is over is only filed.
AnswerDiscarded(t) ==
    /\ tick[t].pc \in {"asking", "judging"} /\ ~Open(t)
    /\ TickSync(t, "trail")
    /\ UNCHANGED <<stores, job, counters>>

\* Whichever phase asked, the request may fail, be lost, or end the Run with what it has.
AnswerBad(t) ==
    /\ tick[t].pc \in {"asking", "judging"} /\ Open(t)
    /\ bad < MaxBad /\ bad' = bad + 1 /\ UNCHANGED <<addressed, moves, faults>>
    /\ \/ TickGoto(t, "throw") /\ UNCHANGED run
       \/ SetRun(t, [run[t] EXCEPT !.status = "unknown"]) /\ TickSync(t, "trail")
       \/ /\ Status(t) # "paused"
          /\ SetRun(t, [run[t] EXCEPT !.status = "succeeded", !.partial = TRUE])
          /\ TickSync(t, "trail")
    /\ UNCHANGED <<node, ledger, delivered, job>>

\* One executor answer: a tool step, a question, or the finished artifact.
AnswerStep(t) ==
    /\ tick[t].pc = "asking" /\ Open(t)
    /\ \/ UNCHANGED run
       \/ SetRun(t, Landed(t, "needs_input"))
       \/ SetRun(t, [run[t] EXCEPT !.stage = "done"])
    /\ TickSync(t, "trail")
    /\ UNCHANGED <<node, ledger, delivered, job, counters>>

\* Mutant: the accepted Run is closed before its task has succeeded.
AnswerReviewClosing(t) ==
    /\ tick[t].pc = "judging" /\ Open(t)
    /\ \/ /\ SetRun(t, [Landed(t, "succeeded") EXCEPT !.stage = "accepted"])
          /\ TickSync(t, IF Status(t) = "paused" THEN "review" ELSE "finish")
       \/ /\ SetRun(t, [Landed(t, "running") EXCEPT !.stage = "planned"])
          /\ TickSync(t, "review")
       \/ SetRun(t, Landed(t, "failed")) /\ TickSync(t, "review")
    /\ UNCHANGED <<node, ledger, delivered, job, counters>>

\* The verdict.  An accepted Run stays in review until its task has succeeded.
AnswerReview(t) ==
    /\ tick[t].pc = "judging" /\ Open(t)
    /\ \/ /\ SetRun(t, [Landed(t, "reviewing") EXCEPT !.stage = "accepted"])
          /\ TickSync(t, IF Status(t) = "paused" THEN "review" ELSE "finish")
       \/ /\ SetRun(t, [Landed(t, "running") EXCEPT !.stage = "planned"])
          /\ TickSync(t, "review")
       \/ SetRun(t, Landed(t, "failed")) /\ TickSync(t, "review")
    /\ UNCHANGED <<node, ledger, delivered, job, counters>>

ReadStatus(t) == IF tick[t].mode \in {"finish", "refinish"} THEN "succeeded" ELSE Status(t)

\* What is left to send; when nothing is, each caller of syncDomainState goes on.
TickReporting(t, todo) ==
    tick' = [tick EXCEPT ![t] =
        CASE todo # <<>> -> [tick[t] EXCEPT !.pc = "apply", !.todo = todo]
          [] todo = <<>> /\ tick[t].mode \in {"finish", "refinish"} ->
                 [tick[t] EXCEPT !.pc = "closing", !.todo = <<>>]
          [] todo = <<>> /\ tick[t].mode = "review" -> Syncing("trail")
          [] OTHER -> NoTick]

TickRead(t) ==
    /\ tick[t].pc = "read"
    /\ TickReporting(t, SyncSteps(ReadStatus(t), node[t].status))
    /\ UNCHANGED <<stores, job, counters>>

TickApply(t) ==
    /\ tick[t].pc = "apply"
    /\ Accepts(node, t, Head(tick[t].todo))
    /\ node' = Reported(node, t, Head(tick[t].todo))
    /\ TickReporting(t, Tail(tick[t].todo))
    /\ UNCHANGED <<ledger, run, delivered, job, counters>>

\* Where a refused transition leaves them: advance() records and drops it at its
\* end, and fails the Run before that; a boot stops.
TickRefused(t) ==
    /\ tick[t].pc = "apply"
    /\ ~Accepts(node, t, Head(tick[t].todo))
    /\ tick' = [tick EXCEPT ![t] = [NoTick EXCEPT !.pc =
           CASE tick[t].mode = "trail" -> "idle"
             [] tick[t].mode \in {"finish", "review"} -> "throw"
             [] OTHER -> "down"]]
    /\ UNCHANGED <<stores, job, counters>>

\* finishBoundReview, after the task's receipt.
Close(t) ==
    /\ tick[t].pc = "closing"
    /\ IF Status(t) = "reviewing" THEN SetRun(t, [run[t] EXCEPT !.status = "succeeded"])
       ELSE UNCHANGED run
    /\ IF tick[t].mode = "finish" THEN TickSync(t, "trail")
       ELSE tick' = [tick EXCEPT ![t] = NoTick]
    /\ UNCHANGED <<node, ledger, delivered, job, counters>>

Throw(t) ==
    /\ tick[t].pc = "throw"
    /\ IF Status(t) \in Terminal \cup {"unknown"} THEN UNCHANGED run
       ELSE SetRun(t, Landed(t, "failed"))
    /\ TickSync(t, "trail")
    /\ UNCHANGED <<node, ledger, delivered, job, counters>>

\* The process of the runner dies; "cutoff" if a model request was under way.
CrashRunner(t) ==
    /\ Status(t) # "absent" /\ tick[t].pc \notin {"down", "cutoff"}
    /\ Fault("runner")
    /\ tick' = [tick EXCEPT ![t] = [NoTick EXCEPT !.pc =
           IF tick[t].pc \in {"asking", "judging"} THEN "cutoff" ELSE "down"]]
    /\ UNCHANGED <<stores, job>>

\* recoverRun: the request that was under way has an unknown outcome.
Recover(t) ==
    /\ tick[t].pc \in {"down", "cutoff"}
    /\ LET lost == tick[t].pc = "cutoff" /\ Open(t) IN
       /\ IF lost THEN SetRun(t, [run[t] EXCEPT !.status = "unknown"]) ELSE UNCHANGED run
       /\ TickSync(t, IF ~lost /\ Status(t) = "reviewing" /\ run[t].stage = "accepted"
                      THEN "refinish" ELSE "recover")
    /\ UNCHANGED <<node, ledger, delivered, job, counters>>

-----------------------------------------------------------------------------
ScheduleStep(w) ==
    \/ \E t \in Tasks : ScanRecord(w, t) \/ Reserve(w, t)
    \/ Requeue(w) \/ EndScan(w) \/ Observe(w) \/ Record(w) \/ Unlock(w) \/ SweepAfter(w)
    \/ Lease(w) \/ Look(w) \/ Create(w) \/ Insert(w) \/ Signal(w) \/ View(w) \/ Ack(w)
    \/ Release(w) \/ Command(w) \/ CommandSync(w) \/ CommandApply(w) \/ Recount(w)
    \/ Notify(w) \/ Decide(w)

Request(c) ==
    \/ "plan" \in Requests /\ SchedulePlan(c)
    \/ "task" \in Requests /\ \E t \in Tasks : ScheduleTask(c, t)
    \/ "sweep" \in Requests /\ ReconcilePlan(c)
    \/ "dispatch" \in Requests /\ \E t \in Tasks : ControlDispatch(c, t)
    \/ \E t \in Tasks, act \in Commands \cap Requests : Control(c, t, act)

RunnerStep(t) ==
    \/ TickPlan(t) \/ Plan(t) \/ TickExecute(t) \/ TickDone(t) \/ TickReview(t)
    \/ AnswerDiscarded(t) \/ AnswerBad(t) \/ AnswerStep(t) \/ AnswerReview(t)
    \/ TickRead(t) \/ TickApply(t) \/ TickRefused(t)
    \/ Close(t) \/ Throw(t) \/ CrashRunner(t) \/ Recover(t)

Next ==
    \/ \E p \in Pumps : StartSweep(p)
    \/ \E w \in Workers : ScheduleStep(w) \/ Crash(w)
    \/ \E c \in Callers : Request(c)
    \/ \E t \in Tasks, transition \in OwnerMoves : TransitionTask(t, transition)
    \/ \E t \in Tasks : Expire(t) \/ RunnerStep(t)

Spec == Init /\ [][Next]_vars

\* The pump's timer fires every second and a call that has begun goes on unless its
\* process dies; leases expire by the clock.  Nothing is assumed of the owner or the Runs.
FairSpec ==
    /\ Spec
    /\ \A p \in Pumps : WF_vars(StartSweep(p))
    /\ \A w \in Workers : WF_vars(ScheduleStep(w))
    /\ \A t \in Tasks : WF_vars(Expire(t))
-----------------------------------------------------------------------------
(* Properties *)

\* A task is worked on only after the tasks it depends on have succeeded, and a
\* task that has succeeded stays so: the scheduler, the runners, the owner's
\* transitions and every crash between the three stores implement TaskOrder.
Phase ==
    [t \in Tasks |-> IF node[t].status = "succeeded" THEN "done"
                     ELSE IF Status(t) = "absent" THEN "waiting" ELSE "started"]
Order == INSTANCE TaskOrder WITH phase <- Phase
ImplementsTaskOrder == Order!Spec

\* "This prevents clients from observing Run=succeeded while the canonical Task is
\* still running" (review in engine.ts), for a Run that was closed by its review.
ReviewedRunSucceededTask ==
    \A t \in Tasks : Status(t) = "succeeded" /\ ~run[t].partial => node[t].status = "succeeded"

\* A reservation nobody has addressed a request to is not acknowledged before
\* some runner was told of its Run: the existence of the Run is not enough.
UnaddressedMeansDelivered ==
    \A t \in Tasks : ledger[t].state = "dispatched" => t \in delivered \cup addressed

\* A create lease that is still running is ended by its holder alone.
LiveLeaseIsItsHolders ==
    [][\A t \in Tasks, w \in Workers :
          ledger[t].live /\ ledger[t].token = w /\ ledger'[t].token # w
          => job[w].pc \in {"ack", "release"} /\ job'[w] # job[w]]_vars

\* "unknown Runs must first be reconciled with the provider and are never silently
\* resent by a scheduler pump" (scheduleNode): only an owner's reconcile or cancel
\* moves one.
UnknownAwaitsOwner ==
    [][\A t \in Tasks : Status(t) = "unknown" /\ Status(t)' # "unknown" =>
          \E c \in Callers : /\ job[c].pc = "command" /\ job[c].task = t
                             /\ job[c].act \in {"reconcile", "cancel"}]_vars

\* In the end no reservation is left queued, whatever stopped its creator between the
\* stores, unless its task is no longer ready for a Run that does not exist.
QueuedIsSettled ==
    <>[](\A t \in Tasks : ledger[t].state = "queued" =>
            Status(t) = "absent" /\ node[t].status # "ready")

\* In the end the ledger has every success of a Run, whichever stale reading was
\* copied over it meanwhile.
SuccessIsRecorded ==
    <>[](\A t \in Reserved : Status(t) = "succeeded" => ledger[t].state = "succeeded")

\* In the end the pump alone has reserved each task that is ready next to a succeeded Run.
Awaiting(t) == node[t].status = "ready" /\ \E d \in DependsOn[t] : Status(d) = "succeeded"
DependentsAreReserved == <>[](\A t \in Tasks : Awaiting(t) => t \in Reserved)

\* "Notify the same Run id first, and only then write the dispatch state; when the
\* notification fails again keep queued" (task-dag-temporal-design.md): a reservation
\* that is acknowledged when every call has returned was delivered.
DispatchedMeansDelivered ==
    (\A w \in Workers : At(w, "idle")) =>
        \A t \in Tasks : ledger[t].state = "dispatched" => t \in delivered
=============================================================================
