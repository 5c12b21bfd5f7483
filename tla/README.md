# A verification project for AEEIS

AEEIS runs long-lived agent *Runs* for teams of people and bots: an owner states a goal, a
model plans it, the owner approves the plan, a model executes it step by step through tools
that have side effects, and a model reviews the result.  Around the Runs stand a graph of domain
tasks, reminders, outboxes to chat platforms, budgets and delegation to other agents.  Everything
durable is a row in a repository (files or Postgres); everything that moves is an in-process timer
or a Temporal workflow, in several server processes at once.

This directory models that machinery in TLA+, checks it with TLC on small instances and proves the
most important facts about it with TLAPS for every value of the constants.  `PROJECT.json` lists the
runs, the mutants every property is tried against, the source lines each definition stands for, the
hazards the properties were written for, and the disagreements with the documentation that the runs
show.  Paths below are relative to `src/src/` unless they say otherwise.

Contents: [1 Inventory](#1-inventory) · [2 What is hard](#2-what-is-hard) ·
[3 Modules](#3-modules) · [4 Runs](#4-runs-bounds-and-what-they-show) ·
[5 Fairness](#5-fairness) · [6 Proofs](#6-proofs) · [7 Disagreements](#7-disagreements-found) ·
[8 Not modelled](#8-what-is-not-modelled) · [9 Plan](#9-plan)

## 1 Inventory

State is durable unless it is called volatile.

| Part | State | Operations | What makes it correct |
|---|---|---|---|
| **Run engine** `runtime/engine.ts` | one row per Run: status, plan versions and approval, steps, model calls with receipts, the pending tool and its receipt, the action under approval; volatile: the snapshot an `advance()` works from | `createRun`, `advance` (plan / execute / tool / review), `recover`, the owner's commands (`mutateCommand`), `reconcileModelCall`, `reconcileCancelledExternal`, `terminalizeRun` | one request under way; a side effect is requested once and under consent; commands win over late answers; nothing is lost in a crash without a receipt somebody can settle; success means the work is done |
| **Task plan** `domain/plan.ts` | goal, plan, tasks with status, attempt and dependencies, one optimistic version | `createPlan`, `transitionTask`, `refreshReadyTasks` | a task starts only after its dependencies; a finished task stays finished |
| **Task scheduler** `task-scheduler.ts` | one dispatch record per task and attempt, with a create lease | `schedulePlan`, `controlTask`, `reconcilePlan`, `reconcileAll`, `scheduleNode` | every ready task of a started plan gets exactly one Run, whatever crashes between reserving, creating and notifying |
| **Run dispatch** `runtime/dispatcher.ts`, `temporal/*` | volatile queue and active set, or a Temporal workflow with its signals | `notify`, `start`, `tick`, `agentRunWorkflow`, `notifyRecoverableRuns` | a runnable Run is advanced eventually; no wake-up is lost |
| **Reminders** `reminders.ts` | one row per reminder with occurrence, attempts and a claim lease; volatile: `pumpInFlight` and the projections under way | `create`, `cancel`, `retry`, `claimDue`, `markProjected`, `markFailed`, `ReminderPump.pump` | every occurrence reaches the outbox once, none is skipped or early; a crash only delays |
| **Projection outbox** `collaboration-projection.ts` | one row per event: pending, delivered, failed or unknown; a session advisory lock per event | `enqueue`, `deliver` (`reserve`, the sink, `finish`), `reconcile` | the sink gets an event once unless something excuses a second request; an outcome is not overwritten |
| **Global budget ledger** `global-budget.ts` | one account per period: calls, tokens, unreported calls, an entry per idempotency key | reserve, mark unknown, settle, release, reconcile | nothing is sent without a reservation, settled twice or forgotten |
| **Agent gateway and ledger** `agent-gateway.ts`, `agent-ledger.ts` | delegations to other agents under grants with a budget | `delegate`, `acceptCallback`, `reconcile`, `settle`, `revokeGrant` | one submission, one charge and one decision per delegation |
| **Work grants** `work-grant-store.ts` | a budget the owner gives in advance, the share of each Run, a revocation | allocate, revoke, and the engine's creation and retry of Runs under it | shares stay within the total; a revocation reaches the Runs |
| **Evolution** `rsi.ts`, `evolution*.ts`, `rsi-*.ts` | change candidates with gates, attempts and observations; in a second store releases, revocations and traffic canaries | propose, evaluate, approve, shadow, canary, promote, reject, roll back; activate, revoke, route traffic | only what earned its promotion is promoted; only what is promoted is served |
| **Collaboration** `collaboration-service.ts`, `collaboration-triggers.ts`, `-pool.ts` | competitions and debates with an attempt per model request; triggers with a decision per event | start, run, reconcile, close; claim, complete, fail | a request is made once and only within its budget; what is kept has been paid for; a conversation takes each answer once and in turn |
| **Routines** `routines.ts` | schedule, the start waiting for the last Run, deliveries with a lease | `pump`, `runNow`, `receiveWebhook`, `update` | a start is made once, none is lost, a scheduled one waits for the last Run |
| **Run event scanner** `run-scan-cursor.ts` | one checkpoint per consumer | `batch`, `commit` | a sweep passes over no event; it does not stall |
| **Session events** `session-events.ts` | a numbered log per session | append, read after | gap-free numbers, idempotent appends |
| **JSON store** `adapters/json-store.ts`, `file-writer-lock.ts` | a snapshot with history files, a journal, a lock file | commit, replay, compaction, history reads | a restart has what was acknowledged, once |
| **Run repository** `runtime/repository.ts` | the Runs | `create`, `get`, `update`, scan pages | `update` is one atomic transaction per Run |
| Application service, conversations, channels, boards, brain, bots, identity, tool gateways, sandboxes, model client, HTTP API, UI, ingress, mobile apps, deployment | rows, views and adapters | CRUD, rendering, I/O | see section 8 |

How they interact.  `server.ts` builds them in one process: at boot it recovers the engine's Runs,
reconciles every plan, notifies the dispatcher of every Run that can go on, and starts the timers
(scheduler, reminders, outbox, triggers).  HTTP commands call the engine or the scheduler, and then
`notify` the dispatcher.  The dispatcher calls `engine.advance(runId)` until the Run's status is
not runnable.  An engine bound to a domain task writes the task's status through the application
service (`syncDomainState`); the scheduler reads it back and schedules what became ready.
Reminders and Runs insert outbox events; the outbox pump delivers them.  Two processes share nothing
but the repository.

## 2 What is hard

* **Everything waits in the middle.**  `advance()` reads the Run, asks a model for minutes, and then
  writes.  In between the owner pauses, cancels, revises or edits; another process ticks the same
  Run; the process dies.  The code's defences are the second look inside each transaction: the
  reservation of a model call (engine.ts:2068), the execution token of a tool call (3236, 3317), the
  claim triple of a reminder (reminders.ts:98), the lease token of an outbox event or a create.
* **Unknown outcomes.**  A lost answer may have been billed and its side effects requested.  The Run
  keeps a receipt and waits, as `unknown`, for a person; meanwhile commands go on.
* **Crash and restart.**  `recover()` must turn whatever a dead process left into something that can
  be settled, and must not repeat a side effect.
* **Commands in unforeseen orders.**  Approve, revise, edit, answer, pause, resume, cancel, retry,
  reconcile and replan are guarded by the status only, and statuses are reached on many paths.
* **Leases and clocks.**  Workers outlive their leases; a reading of the clock is used after a slow
  call.
* **Bounded budgets.**  Model calls, revisions, repairs, attempts: each ends a Run or a reminder, and
  each is read before it is spent.

`PROJECT.json` "hazards" has each of them at the line where it bites, with the properties that
would catch it.

## 3 Modules

### RunEngine

One Run and the engines (server processes) over its repository.  The Run's row is split over
variables: lifecycle (`status`, `resumeStatus`, `disposition`), planning (`plan`, `approved`,
`feedback`, `repair`), work (`done`, `output`, `preserved`, `revisions`), models (`calls`, `ncalls`,
`resumeCall`, `staged`) and external calls (`tool`, `action`).  `pc[e]` and `ctx[e]` are what engine
e holds in memory between two transactions: where its `advance()` is and the part of its snapshot
it will use.  A crash erases both.  `invoked` and `repeated` are history: how often each tool call was
handed to its provider, and whether a model call of unknown outcome was ever asked again.

| Actions | Code |
|---|---|
| `TickTool`, `TickPlan`, `TickReview`, `TickExecute` | `advance()` takes its snapshot and picks the operation; `Request` is `requestForCall` and the budget check |
| `PreflightFails`, `Throw`, `Exhausted` | `verifyTools`/`verifyResources` throwing, and the two catches of `advance()` |
| `Reserve` | the reservation transaction of `call()`: started, or refused because the Run stopped, another call is under way or calls were made since |
| `Answer*` | what the model may answer, per phase, applied in the transaction of `call()` |
| `Claim`, `Invoke`, `SettleTool`, `SettleStale`, `RecheckFails` | `executePendingTool`: token, provider, settlement under the token |
| `Crash`, `Restart`, `Recover`, `Requeue` | a process dies; `recoverRun` decides on a snapshot and then writes |
| `Approve` ... `Replan` | one action per owner command of `mutateCommand` |
| `SettleClosedCall`, `ReconcileCall*`, `ReconcileCancelled`, `Terminalize` | the operators' reconciliation, the recheck of a cancelled Run's tool, a workflow that gives up |

Data is abstracted to what the properties tell apart: a plan is its version number, a step is its
task's number and whether it is succeeded, a model call is its state, phase and task, a tool call is
its idempotency key (the number of the model call it names), its receipt and its token.  The
verdict of the action policy (`Gates`), of the review and of a model is a free choice.  Tasks are
numbered in a topological order, since `execute()` takes the first pending step whose dependencies
are done, and every plan version has the same tasks.  Several non-obvious points are kept
deliberately: results land *under* a pause (`Land`), a late answer is received but not applied when
the Run is over (`AnswerDiscarded`), the tool key names the Run's newest call and not the call that
asked for it (`AnswerTool`), and `resumeStatus` is not cleared by every command.

### Reminders

The rows, the outbox as its set of idempotency keys, and one pump per process.  A pump reads the
clock once (`StartPump`), claims a batch (`ClaimDue`), and runs one `project()` per claimed row
(`inFlight`): `Enqueue`, `MarkProjected`, and on an error `HandleError`, `MarkFailed`.  The insert
and every store transaction may throw, with or without having taken effect.  Clock ticks are the
unit of `Lease`, `Interval` and `RetryDelay`.

### TaskPlan, TaskScheduler and TaskOrder

`TaskPlan` is the pure part: the transition table, `transitionTask` followed by
`refreshReadyTasks` (which the application service commits in one compare-and-set, so `Moved` is both),
and `SyncSteps`, the transitions a bound Run sends when it reports its status to its task.
`TaskScheduler` extends it with the three durable stores and everybody who writes them:

| State | Code |
|---|---|
| `node` | the plan's nodes (status, attempt) |
| `ledger` | one dispatch record per task: state, attempt, the create lease's token and whether it still runs |
| `run` | the bound Run, one per task: its id is a digest of plan and task, so `run[t]` is the Run |
| `delivered` | history: the tasks for whose Run the dispatcher accepted some notification |
| `job[w]` | what worker w (the pump, or an HTTP call) remembers between two accesses of a store |
| `tick[t]` | where the `advance()` or `recoverRun()` of Run t is |

| Actions | Code |
|---|---|
| `StartSweep`, `ScanRecord`, `Requeue`, `EndScan` | the timer's `reconcileAll`, `reconcilePlan`: one record of the page at a time, then the missing Runs and, if a success was met, the ready tasks |
| `Observe`, `Record`, `Unlock` | `reconcileRecord`: read the Run, write the ledger, schedule what is ready by now |
| `Reserve`, `Lease`, `Look`, `Create`, `Insert`, `Signal`, `View`, `Ack`, `Release` | `scheduleNode`: one action per access of a store, `Create` and `Insert` being `engine.create`'s check and its insert |
| `Command`, `CommandSync`, `CommandApply`, `Recount`, `Notify`, `Decide` | `controlTask` and the revival in `scheduleNode`: `engine.command` changes the Run, then reports to the plan one transition at a time |
| `SchedulePlan` ... `ControlDispatch`, `TransitionTask` | the HTTP routes; `TransitionTask` is the owner moving a task by hand |
| `Tick*`, `Plan`, `Answer*`, `Close`, `Throw` | `advance()` of a bound Run, `finishBoundReview` and the trailing `syncDomainState` |
| `Crash`, `CrashRunner`, `Recover`, `Expire` | a worker or a runner dies; `recoverRun`; `createLeaseMs` pass |

Decisions.  There is no clock: a lease simply expires (`Expire`), which allows every timing.  A lease's
token is its worker's name, since a worker holds one at a time.  Nested unlock loops are flattened into the
worker's queue, in the plan's order and missing Runs first.  `transitionDomainTask` reads the plan
and then commits with a compare-and-set; the pair is one step.  A Run has one executor step and one
runner, and is ticked only after some notification was accepted: how a Run is advanced in detail is
`RunEngine`'s subject, and which process does it is `Dispatch`'s.  A Run's model-call
budget is abstracted to how often it can be revived (`CallBudget`).  Of the Run it has read, a worker keeps
what the ledger would say of it (`Glimpse`), which is all it uses.

`TaskOrder` is what the scheduler promises, in three phases per task: waiting, started, done.  A task
starts only when everything it depends on is done, and done is for good.  `TaskScheduler!Phase` is the
refinement mapping: done is the plan's `succeeded`, started is a Run that exists.

### The services around them

| Module | State | What its steps are |
|---|---|---|
| `JsonStore` | the journal's lines, the snapshot, the history files and the process's copy | a commit is an append and a change of memory; an append may leave the whole line, a part or a line without its newline; a compaction writes the history files, the snapshot and the empty journal in turn; `Open` replays what it finds |
| `RunScan` | the checkpoint, the workers' batches, each Run's number of events | `ReadPage`, `ReadRun` and `EndOfPage` read with a cursor that may be old by the time `Commit` compares its revision; Runs are created and grow meanwhile |
| `GlobalBudget` | one account, the Run records beside it, what each caller still has to do | the ledger's operations are atomic, the callers' sequences of them are not; a restart runs `recoverAll` step by step |
| `ProjectionOutbox` | the event rows, the session locks, each process's delivery | lock, read, reserve, send, finish; a lost session frees the lock while the request is out |
| `Dispatch` | what the dispatcher remembers, the driver of each Run and what its last advance reported | the local queue and pump, or a workflow that is signalled, started, awake, asleep or closing |
| `WorkGrants` | the grant, the shares, each Run's creation and record, the Runs behind the cursor of the revocation's listing and those it has still to mark | load, allocate, store; list a page, mark a Run; every write of a Run may move it ahead of the cursor |
| `AgentGrants` | the registration, the ledger's entries, three channels per delegation | register, reserve, submit, settle, hand over |
| `Evolution` | candidates, active release, revocations, traffic route, what each asker waits for | a candidate's transitions are one transaction each; an asker reads in one store and writes in the other |
| `Routines` | the routine, its deliveries, their Runs, each worker's place | advance the schedule, store the delivery, claim, start, mark, record the last Run |
| `Competition` | the competition's row with its attempts, its share of the global account, each worker's place in its list of calls | open, then per call: look at the row, reserve, record the call, ask, answer or fail, settle the account, keep the result; finish or fail the row; the owner submits candidates and scores, starts the evaluation and reconciles |
| `Debate` | the debate's row with its attempts, its conversation, each runner's place | the same sequence for each turn, review and verdict, replayed from the record when it has been asked already; append, review, close or hold; the owner reconciles |
| `Triggers` | the policy, a decision per event, each evaluator's place, the pump's checkpoint | read the policy, claim under its lock, create a competition or debate, bind it to the decision, run it; the pump passes an event when its evaluation has ended, in an error too; the owner edits the policy and settles decisions |

`CollaborationCalls` holds what `Competition` and `Debate` share: an attempt and its states, what its usage counts for,
`OverBudget`, and the entry of the global account.  Between two looks of a worker at the row without a
request or a write in between nothing is lost by taking them as one, and the modules do.

`MCServices` extends all twelve and composes them (section 4).

### Proof modules

Eight modules extend the components' modules and hold their theorems:

| Module | About |
|---|---|
| `Reminders_proofs`, `RunEngine_proofs`, `TaskScheduler_proofs` | the module of that name, and TaskPlan and TaskOrder |
| `LocalRun_proofs` | RunEngine again (it extends `RunEngine_proofs`): what holds of a Run that one process keeps |
| `Grants_proofs` | WorkGrants, AgentGrants, GlobalBudget, Routines, and sums over finite sets |
| `Delivery_proofs` | Dispatch, ProjectionOutbox, Triggers |
| `Collaboration_proofs` | Competition, Debate, CollaborationCalls |
| `Services_proofs` | Evolution, RunScan, JsonStore |

The `MC*` modules only give constants their values.

## 4 Runs, bounds and what they show

Every property is also checked against a mutated definition (PROJECT.json "mutants") in which TLC
does find it violated, so none of the runs below holds for want of behaviours.

| Run | Instance | Shows |
|---|---|---|
| `run_local` | one engine, two tasks, four model calls, two plan versions, every gate, one crash, review mode auto | `TypeOK`; a side effect is requested once (`ToolInvokedOnce`) and, if the policy asks, with the owner's consent to that very call (`AskedBeforeInvoked`); success means the latest plan's tasks are done (`SuccessMeansDone`); the executor is asked under an approved plan although the approval was read earlier (`ExecutorAskedUnderApproval`) |
| `run_engines` | two engines (interchangeable, so symmetric), one task, three calls, one crash | `AtMostOneStarted`: the reservation is fence enough without any lock; `OneAttemptAtATime`: so is the execution token, until a process dies or an unknown model call is asked again (`repeated`) |
| `run_operators` | one engine, two crashes, operators' reconciliation, workflows that give up, read-only tools that retry themselves; fair | `StartedHasAsker`, `SucceededIsFinal`, and the liveness property `RunRests` |
| `run_cancel`, `run_gate`, `run_twice` | smallest instances, in review mode auto, auto and yolo (under yolo the policy never asks) | the disagreements of section 7 |
| `reminders_pumps` | one reminder with two occurrences, two pumps, a lease of one tick, one fault, one owner retry; fair | `TypeOK`, `NoSkippedOccurrence`, and the liveness property `EveryReminderSettles` |
| `reminders_reclaim` | one pump, one crash | a disagreement of section 7 |
| `tasks_owner` | one task, two HTTP calls at a time (symmetric) and three in all, every command, the owner's `retry` and `cancel` transitions, one bad model request | `TypeOK`; a Run closed by its review has a succeeded task whatever the owner did meanwhile (`ReviewedRunSucceededTask`); an unknown Run waits for its owner (`UnknownAwaitsOwner`) |
| `tasks_chain` | two tasks in a row, the pump, one HTTP call, one fault of any kind; fair | the refinement `ImplementsTaskOrder`; the existence of a Run is not taken for a delivery (`UnaddressedMeansDelivered`); a live create lease is ended by its holder alone (`LiveLeaseIsItsHolders`); and three liveness properties: `QueuedIsSettled`, `SuccessIsRecorded`, `DependentsAreReserved` |
| `tasks_notify` | one task, one caller, two failing notifications | a disagreement of section 7 |
| `services` | the twelve service modules, one at a time; see below | eighteen properties, of which the table below gives each module its own |

`services` composes twelve modules that share no variable.  Its variable `focus` picks one of them at
the start, and only that module moves, so that one run explores twelve state spaces side by side
instead of their product, 1.2 million states in all.  Per focus:

| Focus | Instance | Properties |
|---|---|---|
| store | four commits, compaction after two, three crashes or failed writes (on its own also with compaction after each commit, and with five commits or four faults) | `RestartKeepsCommits`, `RefusesOnlyBlemished` |
| scan | two workers, two Runs of up to two events, pages and batches of one, two checkpoints | `SweepMissesNothing` |
| budget | a model call, a connector lookup and an owner's call for two calls of budget; two callers, two restarts; with and without a token limit | `SentUnderReservation` |
| outbox | one event, two processes, two faults | `ResentOnlyForCause`, `OutcomeStands` |
| dispatch | one Run, two request handlers, three crashes or failed advances; local and Temporal | `NoRunForgotten` |
| grants | two Runs asking for 1 or 2 of a total of 3, a revocation asked any number of times and listing any pages, two faults | `SharesWithinTotal`, `RevocationReachesRuns` |
| delegations | two delegations for one call of budget, three channels, two crashes | `OneDecisionPerDelegation` |
| evolution | the active release and a candidate proposed against it, low risk and higher (one observation and two), two askers, three requests | `ServedIsPromoted`, `PromotionEarned` |
| routines | two moments, two workers, a webhook delivery, one act of the owner (a start by hand or a change), one fault; schedule and webhook | `StartsAccountedFor` |
| competition | two participants and an evaluator, two workers, three requests, one fault; no limit with and without a global account, two calls with one, a token limit without | `AskedInTurn`, `KeptResultsArePaid` |
| debate | two runners, two runs, one reconciliation, one fault; a room of one turn without limit or account, one of two turns with two calls and an account, one of one turn with a token limit and an account | `HeardOnce`, `RunEndsOrWaits` |
| triggers | two events, a pump and a caller, a cooldown of one tick, one fault, two acts (events handed in, edits of the policy, the owner's verdicts); of the events one is later than the other, or too deep in its chain | `EventTriggersOnce` |

The bounds of `services` are the least in which two parties meet twice: a second worker, caller or
process for every lease, lock and compare-and-set; a second attempt for every retry; a second commit
or checkpoint after every failed one.  A history variable that excuses a case (`excused`, `late`,
`strayed`, `overtaken`, `givenUp`) marks what the code is known not to prevent, so that the property says that
nothing else goes wrong; section 7 lists each.  `CHECK_DEADLOCK FALSE` is set since each service
stops when its requests and faults are used up.

Why the bounds are enough.  Two tasks give a plan with an inner node and a leaf, so that a revision
reopens a part of it.  Four model calls are a planner, two executor calls and a reviewer or a second
plan; three are the least in which a lost call is asked again after a newer one.  A single crash
reaches every `Recover` branch; two let a recovery be interrupted.  Two pumps are the least that
compete for a row, and with a lease of one tick the first outlives it.  The clock of Reminders
stops at `MaxTime` unless a row still waits for a later time.  Of tasks, two in a row are the least with a
dependent to unlock, and one suffices for what concerns a reservation and its Run; two calls are the
least that compete for a lease, and the third revives what they left.  One fault reaches each recovery path
of the scheduler from every step it can interrupt; the requests and the faults are finite, so that the
liveness properties have the form "in the end, for good" (`<>[]`).  `CHECK_DEADLOCK FALSE` is set for the
task runs since the system stops when the requests are used up and no Run can go on, and for the
engine because a Run that is succeeded, or that waits with its budget spent, really stops.

With two engines and a crash of one of them, the other's `recover()` takes the survivor's live call
for an interrupted one.  The properties of `run_local` that rest on a receipt do not survive that
(section 7, observations), so they are stated for one process; a deployment with several processes
recovers at every boot.

## 5 Fairness

`RunEngine!FairSpec` has weak fairness on each engine's steps as a whole: the dispatcher goes on
ticking a runnable Run (`runtime/dispatcher.ts`), model and tool requests have timeouts, and a dead
process is started again by its supervisor.  No owner, operator or workflow command is fair: a Run
that waits for a person may wait for ever, and `RunRests` says no more than that engines bring a
Run to such a point.  `Reminders!FairSpec` has weak fairness on the clock and on each pump, which a
`setInterval` of server.ts drives; owners and faults are not fair.  `TaskScheduler!FairSpec` has weak
fairness on the pump (`setInterval` of one second, server.ts:882), on each worker that has begun (a call
goes on unless its process dies, which is the action `Crash`) and on the expiry of leases.  Nothing is
assumed of the owner or of the Runs: `DependentsAreReserved` speaks of tasks that are ready, and
`SuccessIsRecorded` of Runs that have succeeded.  `services` assumes no fairness: its properties are safety
properties, since what those services leave unfinished waits for an operator or the next start.

## 6 Proofs

tlapm checks every obligation (SMT, Zenon, LS4).  The assumptions are each module's named
`ASSUME` on its constants, evaluated by TLC on every run; `PlanAssumption` is what `validateGraph` refuses
a plan without.

* `Reminders_proofs!TypeCorrect`: `TypeOK` is inductive as it stands.
* `Reminders_proofs!NoSkip`: `NoSkippedOccurrence` is not inductive: `MarkProjected` advances the
  occurrence without looking at the outbox.  It is strengthened with `CommitAfterEnqueue`: a
  `project()` that is about to commit has its event in the outbox.  The claim check then ties the
  committed occurrence to the enqueued one.
* `RunEngine_proofs!TypeCorrect`: `IInv` adds to `TypeOK` that an engine about to reserve or asking
  holds a call number within the budget, a phase, and a task if it executes (`RequestInRange`).
  That the executor's task exists rests on a least-element lemma from the library's
  well-founded induction.
* `RunEngine_proofs!OneRequest`: `AtMostOneStarted`, inductive with `IInv`: `Reserve` is the only
  step that starts a call, and it refuses while another is started.
* `RunEngine_proofs!NoForgottenRequest`: `StartedHasAsker`, inductive with the two: an engine that
  stops asking settles its call in the same step, unless it crashes, and a crashed engine leaves
  `recovering` only through `Recover`, which settles every started call.
* `RunEngine_proofs!SuccessIsFinal`: `SucceededIsFinal`, from the guards of every action.

* `TaskScheduler_proofs!TypeCorrect` and `TasksInOrder`, for every acyclic plan and any number of workers,
  faults and transitions.  The invariant `IInv` is `TypeOK` with five facts: a worker or a runner
  with a report under way has transitions left to send, and what a worker is about to write is a state of the
  ledger (`GoodJob`, `GoodTick`); a task that is neither planned nor cancelled has its dependencies
  succeeded (`OpenIsCleared`); so has the task of a Run
  that exists, and of a Run a worker is about to insert (`RunsAreCleared`); and a runner that is not idle
  has a Run (`RunnersHaveRuns`).  They are needed because `Insert` does not look at the plan again (what
  `Create` saw must still hold, which it does since a success is never lost: `ClearedKept`), and because
  a report may send `succeed` long after `start`.  The refinement then takes each step to `Start`, `Finish`
  or a stutter of TaskOrder (`StepOrder`): every step either leaves the Runs and moves one node by the
  table (`Grows`), or leaves the plan and sets one Run.

* `TaskScheduler_proofs`, further: `LeasesAreHeld` and `UnknownIsTheOwners` are action properties.
  The first needs only the type invariant: whoever ends a lease compares its token or waits for its
  expiry.  The second needs `UnknownInv`: no pause hides an unknown Run, no runner asks one, and the pump's
  only command is the redo of a failed Run.  `ReviewClosesAfterTask` rests on `ReviewInv`: the close of a
  review sends the task's success last and comes after it.  `AcknowledgedMeansTold` rests on `ColdInv`:
  until somebody addresses a task or its runner is told, neither its Run, its record, its runner
  nor any worker's intention about it has gone past the states a Run has before it begins.
* `RunEngine_proofs!OneAttempt` (`AttemptInv`, for any number of engines): while nobody died and no
  unknown call was repeated, the call under way is the latest and one engine asks it, a tool's key
  names an answered call, so that no answer can give it out again, and who attempts the pending call
  holds its token.  It assumes `~Temporal`: a workflow that terminalizes a Run frees a token under a live
  attempt.
* `LocalRun_proofs` proves the four properties of `run_local` for `Local(e)`: one engine keeps the Run
  and no workflow terminalizes it, with any number of crashes and restarts.  That is what `run_local`
  checks, and TLC refutes the four for two engines, where one's `recover()` takes the other's live
  call for an interrupted one.  `LocalInv` says that there is one
  thing outside at a time (one open model call, the latest, or one tool call: `OneOpen`), that what
  the engine remembers is still so when it acts on it (`SnapshotHolds`), that a tool's key is fresh
  (`KeysFresh`), and that nothing is under way while the owner has the plan (`Parked`).
* `Delivery_proofs`: `NoRunLeftAlone` (`DispatchInv`: an advance's report still holds unless the Run was
  resumed under it, and whoever put a Run into the queue has a pump scheduled or a signal on its way).
  `EveryResendExcused` counts: requests made, plus the deliveries that have lost their session and may
  yet ask, plus one if the row or the holder of the lock lets the sink be asked, never exceed one and the
  excuses (`Owed`).  `OutcomesStand` needs that without a lost session only the lock's holder is past the lock,
  and found the row sendable (`LockKeeps`).  `EventsTriggerOnce` (`TriggersInv`): an evaluator works on
  decisions it claimed itself, and a decision that counts for the cooldown keeps its distance from every other.
* `Grants_proofs`: `SharesStayWithinTotal` needs that a creation that has loaded the grant asks for something and one
  that was allocated has its share; `RevocationComplete` that from the first page on what acts unmarked is still
  unread, listed, late, or has been moved ahead of the cursor (`RevocationOnCourse`), and that a Run stored
  then had its share while the grant was active (`SharesEntitled`).  `DelegationsDecidedOnce` reads off a delegation's entry how often it was sent, charged
  and decided (`DelegationSound`), and what each channel may bring for it (`FlowSound`).  `AccountTrue` ties
  every caller's remaining steps to the entry of its key (`CallerSound`) and keeps two callers from one model
  call or lookup (`OneCaller`).  `EveryStartAccountedFor` is a sum over deliveries and workers; it needs that
  a start is never in two places (`EachStartOnce`).
* `Collaboration_proofs`: `EverybodyAskedInTurn` (`CompetitionInv`: an attempt was left for every slot before the one
  a worker is at, and while the evaluator is asked nobody else can be), `ResultsArePaid`,
  `EverySlotHeardOnce` (`DebateInv`: a runner uses only what a completed call said, and the turns before its own
  are in the room) and `RunsEndOrWait`.
* `Services_proofs`: `OnlyPromotedServe` (`EvolutionInv`: what an asker read of a candidate still holds or the
  candidate was revoked since; a release's base is older, which makes the walk of a
  rollback down the bases end at one that stands), `PromotionIsEarned`, and `SweepIsComplete` (`ScanInv`: a batch that
  can still commit has covered every owed event behind its cursor, and what is ahead is in its
  reach).
* `Services_proofs!RestartsKeepCommits` and `!RefusesOnlyTheBlemished` (`StoreInv`): memory shows what was
  committed, and so does a snapshot of the same number (`MemoryTrue`); the only record ahead of memory is the one that
  failed last (`OneAhead`); what a start would make of the files as they stand is one or the other
  (`ReplayTrue`); and the journal begins no later than behind the snapshot (`FirstFits`).

Two operators of the library are recursions, the sum over a set and the fold over a sequence.  They
are reasoned about without induction: the recursion has a function that satisfies it, since there
would otherwise be a least size without one (`LeastNumber`, from well-founded induction), and from it come
the facts used.  `FoldIsSum` of
`Grants_proofs` gives the library's fold as the number of tokens in a set, of which the library's facts on
cardinality say what a change of one summand does; `ReplayCourse` of
`Services_proofs` turns the replay of the journal into the sequence of its states after each line, and
`UpTo` carries a fact from line to line.

Assumptions that are more than the type of a constant: `PlanAssumption`; `BudgetAssumption` (the keys of
model calls, lookups and owner's calls are different keys); `RoutineAssumption` (finitely many workers);
`~Temporal` and `Local(e)` as said above.  The theorems hold for every value of the bounds, however
large.

Only model-checked: the five liveness properties (`EveryReminderSettles`, `RunRests`, `QueuedIsSettled`,
`SuccessIsRecorded`, `DependentsAreReserved`), since fairness and ENABLED are out of the prover's reach.
Every safety invariant and action property of a passing run is stated by a theorem.

What the proofs found.  Four properties that TLC had passed were false beyond the bounds, each seen when its
invariant could not be made inductive, shown by TLC on a larger instance and then restated:

* `AskedInTurn` said that the evaluator never judges beside an open call of a participant.  Without a budget, in a
  competition that keeps an account, a candidate handed in by hand passes for the one whose reserved call nobody
  has recovered yet; the evaluator is then asked beside it.
* `EventTriggersOnce` measured a cooldown of zero, for which the code does not look at other decisions.
* `OneAttemptAtATime` fails with three engines when an unknown call is asked again, or a workflow gives the Run up,
  under a live attempt: the repeated call gives the tool's key out a second time.
* `RefusesOnlyBlemished` knew two blemishes of a journal.  With four faults there is a third, a missing
  number; section 7 has the course of events.

## 7 Disagreements found

Each has a run in which TLC exhibits the behaviour; "findings" in PROJECT.json quotes the text.

* **A cancelled Run is revived** (`run_cancel`).  `reconcileDisposition` is written when an answer is
  lost and trusted when it is settled (engine.ts:1870); a cancel in between does not touch it.
* **A gated tool runs unapproved** (`run_gate`).  Reconciling an older lost call sets the status to
  the old call's resume status while a later tool request waits in `needs_approval`; the next
  tick hands the pending tool to its provider.
* **One idempotency key for two tool requests** (`run_twice`).  The key names `calls.at(-1)`; after
  `terminalizeRun`, `retry` and a reconciliation the older call is asked again, and its new request
  gets the key of a tool call already made.
* **Dispatched without a delivery** (`tasks_notify`).  `controlTask('dispatch')` runs `reconcileRecord`
  before it notifies (task-scheduler.ts:440).  For a queued record whose Run exists, after a first failed
  notification, the ledger says `dispatched` from then on, so if the second one fails too no sweep
  ever notifies that Run; the design note says to notify first and keep `queued` on failure.
* **A reminder stuck firing** (`reminders_reclaim`).  After a crash during the last attempt
  `dueForClaim` refuses the row before it looks at the lease, and `cancel` and `retry` refuse `firing`.

Observations from reading and from exploring the model that have no run of their own:

* The stale disposition of `run_cancel` overrides a pause in the same way.
* `retry` after a failed replan computes the status from the old plan's steps (engine.ts:1656), so
  the Run may go on to review the old plan.
* A Run failed by `reconcileModelCall` on a closed Run keeps `resumeModelCallId` on a call that is no
  longer unknown (engine.ts:1843); every later request finds it "changed" and fails.
* A tool requested under the old plan is kept by `replan` and runs before the new plan is approved
  (engine.ts:1712).
* A notification that fails after `engine.command` in `scheduleNode` (task-scheduler.ts:578) or `controlTask`
  (:460) has the same effect as in `tasks_notify`: the Run is runnable again, the next sweep writes
  `dispatched`, and nobody is told.
* `recoverRun` calls `syncDomainState` outside any try (engine.ts:1479); for a bound Run whose task was
  cancelled or succeeded by hand the transition is refused, so `engine.recover()` of server.ts:561
  fails at every boot.  In the model the runner never comes up again.
* `preserveRunOutput` closes a bound Run as a partial success before its task has a receipt, unlike the
  comment at engine.ts:3702 has it; `ReviewedRunSucceededTask` is therefore stated for Runs closed by
  their review (`~partial`).
* A cancel or pause that lands between the task's receipt and the Run's closing leaves a succeeded task
  with a cancelled or paused Run (engine.ts:3716).
* A failed Run whose model-call budget is spent and whose task the owner retries makes
  `engine.command('retry')` throw in every sweep (task-scheduler.ts:573); the loop over the plan's ready
  tasks ends there, so later ones are not reserved by the pump.
* The catch of a failed notification in `reconcilePlan` writes `queued` without looking at the lease token or the
  present state (task-scheduler.ts:492).
* With several processes, `recover()` of one treats the live call or tool of another as
  interrupted (engine.ts:1402).

Observations on the services; the model has each unless it says otherwise, and the properties state
them as exceptions:

* JSON store.  A commit answered as failed may be there after the restart.  A record appended after a
  failed append is glued to its remains and lost at the next start, or repeats a sequence number and
  `init()` refuses the journal (json-store.ts:330, 365).  A record that shares a line may also lead to a gap:
  when the snapshot holds it already, the next start cuts the line off, the journal goes on behind the
  records it kept, and if the next compaction renames its snapshot but does not come to empty the
  journal, `init()` finds a number missing and refuses.  Two processes that find a dead writer's
  lock file at once may both reclaim it (file-writer-lock.ts; reading only).
* Event scan.  A Run that has outgrown the captured end by more than a batch holds every later sweep
  at that place (run-scan-cursor.ts:155).
* Global budget.  A model error that is not an unknown outcome leaves its entry reserved; a
  settlement without usage blocks an account with a token limit until somebody reconciles it; a
  reconciliation past the limit is refused and the call stays unknown; an owner's repeated call is sent under the
  reservation of the first while that is in flight; a crash between the reservation and the Run's
  record leaks the reservation.
* Projection outbox.  `deliverOnce` returns `finish()` un-awaited inside its try, so a failing write
  of the outcome leaves the row pending although the sink took the event, and it is sent again; an
  acknowledgement that does not parse counts as a failure and the event is sent again.  As many
  deliveries as the pool has connections wait for one another (:219; reading only).
* Dispatch.  `LocalDispatcher.start` drops a notification that arrives while `advance()` returns a
  status that is not runnable (dispatcher.ts:128); `closeUnknownRun` may terminate a Run that was
  resumed since the workflow decided to give it up (temporal/workflows.ts:28).
* Work grants.  `revokeWorkGrant` says that it "marks every unfinished Run under it" (engine.ts:3826),
  and does not: `ownerRuns` awaits between pages of 200 that are ordered by the last write, the latest
  first, so a Run written between two pages moves ahead of the cursor and is in none of them.  It goes on under
  the revoked grant until somebody revokes again (`movedAhead`; without that set in `RevocationReachesRuns`
  TLC finds it with one Run and other Runs of its owner on the first page).  The same holds of a Run stored or retried
  when the listing had gone past it (`late`).  A creation that fails after its allocation leaks the
  share; a retry never looks at the grant, so a Run that failed before the revocation is retried after it
  unmarked.
* Evolution.  A candidate rejected while an evaluation is out keeps the attempt `started` until
  somebody reconciles it as failed.  An observation recorded by hand under the case id of a request
  that is out makes every settlement of that attempt throw, and only a rollback is left.  A
  candidate held by a failed rollout may be approved again, since its gates still stand, and if its risk is low be promoted from
  there.
* Routines.  A crash or a store error between the two writes of `fireSchedule` loses the start and its
  missed count (routines.ts:589; `givenUp`).  "One at a time" (:499, :551) holds for what the schedule reads and not
  for deliveries: the retry of a pending delivery, two starts by hand, or a start before `lastRunId` is
  written run beside a Run that is still going.  A start that outlives its lease of a minute,
  or whose last write fails, overwrites `started` with `pending` or `failed`.  A webhook delivery to a paused
  routine, and any pending delivery of one, may be started by a pump pass.
* Competitions.  A late failure of the evaluator (collaboration-service.ts:759) and any error of a
  second worker (`failCompetition`, :884, whose write looks at nothing) overwrite a competition that has
  completed meanwhile, although docs/design/2026-09-18-external-project-contracts.md:177 says that a
  late response does not overwrite a final state.  Recovering an attempt (:675, :735) and reconciling one (:829)
  open a closed competition again.  `beginEvaluation` under a call budget that is spent leaves the
  row in `evaluating`.  A call that fails without usage leaves its entry of the account
  reserved; `settleGlobal` throws when the account would be overrun, so an attempt whose real cost does
  not fit can never be reconciled and its competition goes on `running`.  `reserveGlobal` comes
  before the row, so that a crash leaks the reservation.
* Debates.  Two runners that replay the same completed answer both append it: the second append is
  refused as existing already, and the debate is closed as held although its conversation is whole.  A
  reservation that a refused admission left behind is later recovered as an unknown outcome although
  nothing was sent.  An attempt recovered after its debate has closed can no longer be reconciled
  (:953).

* Triggers.  The evaluator's writes look at nothing (collaboration-triggers.ts:419, :425, :432), so they overrule an
  owner who has settled the decision meanwhile; when the owner had settled it as failed, another event may have
  been admitted within the cooldown (`revived`).  The pump commits its checkpoint past events whose
  evaluation threw (collaboration-trigger-pump.ts:171; `missed`), and past a refusal for depth that a crash kept
  from its Run if the policy has been disabled since.

## 8 What is not modelled

Of the Run engine: a model timeout's automatic retries and `stopReview`, context compaction, the
model-written review of a gated action, final-only answers and output repairs, delegations to other
agents with their callbacks, takeover between bots and the direct (model-free) plan.  The reports to a domain task are in
TaskScheduler, the engine's calls of the budget in GlobalBudget, its Runs under a grant in WorkGrants.  They add requests of a form the module already has (compaction, action review) or belong to
other parts.  TLC's runs and not the
model bound the number of engines.

Of the task scheduler: pages, scopes and the advisory lock (one pump sweeps at a time), Runs started by
the direct task route of http.ts:1447, the first sweep of a boot, the reports of a Run that is not bound
to a single task, and the action policy of a bound Run.

Of the services: the writer lock and the file form of the outbox (each serialises within one process), money as
a second dimension of a budget, the tool and delegation reservations, the registry and the signatures of
agents, how evolution proposals come about (automation, claims, pump, synthesizer), traffic
percentages, a routine's deletion, webhook signatures and the rate limit, Temporal's
continue-as-new and polling intervals, and the Postgres twins of file stores.  Of work grants: two
revocations of one grant at the same time, and a Run repository without `page`, of which `ownerRuns` takes the
1000 Runs written last; the repositories the server builds (files and Postgres) have it, and only the
in-memory one of tests and scripts does not.  Of collaboration: a debate with a moderator and no adjudicator,
or the reverse (a room has both or neither), which
events match a trigger's policy, the closing of a competition with what there is (`finalizePartial`), messages put into
a debate by hand or by a channel, the account of a later day, and money as a second limit.

Of Reminders: tenants, pages, calendar recurrences other than the fixed interval.

Left out altogether: pure I/O and rendering (HTTP API, UI, channel views, ingress adapters, mobile
apps, deployment scripts), storage behind an interface whose atomic transactions the modules assume
(repository, Postgres adapters), and registration data that is one row per change (bots,
releases, identity).  PROJECT.json "components" gives the reason for each.

## 9 Plan

The modules of sections 3 and 4 are written, and every safety property a run checks is proved.  What is left,
in order of importance:

1. **Refinements.**  An abstract tool call (requested, attempted, settled; attempted once) that
   `RunEngine` implements for one process, and an abstract store (a set of commits, of which the last may
   be undecided) that `JsonStore` implements while no line is glued: `StoreInv` has what its proof needs.
2. **Coverage of RunEngine.**  Delegations with their callbacks, output repairs and the model-written action
   review, as actions of the same module.
3. **Weaker assumptions.**  `OneAttempt` through crashes, with what `recover()` of another process is known to undo
   as a history variable, in place of `faults = 0`.
