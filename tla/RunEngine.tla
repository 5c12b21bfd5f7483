----------------------------- MODULE RunEngine -----------------------------
(***************************************************************************)
(* One agent Run and the engines that advance it (src/runtime/engine.ts).  *)
(*                                                                         *)
(* A Run is one durable row.  An engine's advance() takes a snapshot of it *)
(* and performs one bounded operation: it asks the model (planner,         *)
(* executor or reviewer), or hands the pending external tool call to its   *)
(* provider.  Every write is a transaction on the row; between two of them *)
(* an engine waits on the outside, and meanwhile the owner may pause,      *)
(* cancel, revise, retry or reconcile the Run, another engine may advance  *)
(* it, and the process may die.  pc and ctx hold what an engine keeps in   *)
(* memory across such a wait; a crash loses them, and recover() rewrites   *)
(* what the dead process left behind.                                      *)
(*                                                                         *)
(* Tasks are numbered in a topological order of the plan, and every        *)
(* version of the plan has the same ones.                                  *)
(***************************************************************************)
EXTENDS Integers, FiniteSets

CONSTANTS
    Engines,        \* server processes over one repository
    NoEngine,       \* a tool call without executionToken
    NumTasks,       \* nodes of a plan
    Leaves,         \* nodes no other node depends on
    MaxModelCalls,  \* run.maxModelCalls
    ReviewMode,     \* run.executionReview
    Gates,          \* verdicts of decideAction: allow, ask, refuse
    AutoRetryTool,  \* the tool is one of AUTO_RETRY_TOOL_IDS
    ModelReconcile, \* operators settle unknown model calls through /model-reconcile
    Temporal,       \* a workflow drives the Run and may terminalize it
    MaxPlans,       \* bound: the owner edits no plan past this version
    MaxFaults       \* bound: process crashes

Tasks == 1 .. NumTasks
CallIds == 1 .. MaxModelCalls

ASSUME ConstantsAssumption ==
    /\ NoEngine \notin Engines
    /\ NumTasks \in Nat \ {0} /\ Leaves \subseteq Tasks /\ NumTasks \in Leaves
    /\ MaxModelCalls \in Nat /\ MaxPlans \in Nat /\ MaxFaults \in Nat
    /\ ReviewMode \in {"required", "auto", "yolo"}
    /\ Gates \subseteq {"allow", "ask", "refuse"}
    /\ AutoRetryTool \in BOOLEAN /\ ModelReconcile \in BOOLEAN /\ Temporal \in BOOLEAN

VARIABLES
    status, resumeStatus,
    disposition,  \* reconcileDisposition: what an unknown model call returns to
    plan,         \* plans.at(-1).version, 0 before the first plan
    approved,     \* the version approval approves, 0 if it approves none
    feedback,     \* the owner's last revision request has no plan yet
    repair,       \* phases that have used their one repair: plannerRepair, reviewRepair
    done,         \* tasks whose step is succeeded
    output,       \* the Run holds an artifact worth keeping
    preserved,    \* preserveRunOutput closed the Run without a review
    revisions,    \* review.revision_requested events
    calls, ncalls,
    resumeCall,   \* resumeModelCallId, 0 if none
    staged,       \* reconciledModelCall.callId, 0 if none
    tool,         \* pendingTool and what its receipt says
    action,       \* actionApproval
    pc, ctx,      \* where each engine's advance() is, and its snapshot
    invoked,      \* history: how often the provider was asked to run a tool call
    repeated,     \* history: an unknown model call has been asked again
    faults

lifecycle == <<status, resumeStatus, disposition>>
planning == <<plan, approved, feedback, repair>>
work == <<done, output, preserved, revisions>>
models == <<calls, ncalls, resumeCall, staged>>
external == <<tool, action>>
workers == <<pc, ctx>>
history == <<invoked, repeated, faults>>
vars == <<lifecycle, planning, work, models, external, workers, history>>

Runnable == {"queued", "planning", "running", "reviewing"}
Terminal == {"succeeded", "failed", "cancelled"}
Statuses == Runnable \cup Terminal \cup {"needs_approval", "needs_input", "paused", "unknown"}
Phases == {"planner", "executor", "reviewer"}
CallStates == {"absent", "started", "completed", "failed", "unknown", "discarded"}
Receipts == {"none", "interrupted", "unknown"}

Calls == [state : CallStates, phase : Phases, task : 0 .. NumTasks]
Tools == [key : 0 .. MaxModelCalls, receipt : Receipts,
          token : Engines \cup {NoEngine}, inFlight : BOOLEAN]
Work == [phase : Phases \cup {"none", "tool"}, task : 0 .. NumTasks,
         call : Nat, fresh : BOOLEAN, staged : BOOLEAN, receipt : Receipts]
PCs == {"idle", "reserve", "asking", "throwing", "exhausted", "finishing",
        "claim", "recheck", "claimed", "invoking", "down", "recovering", "requeueing"}

NoCall == [state |-> "absent", phase |-> "planner", task |-> 0]
NoTool == [key |-> 0, receipt |-> "none", token |-> NoEngine, inFlight |-> FALSE]
NoWork == [phase |-> "none", task |-> 0, call |-> 0,
           fresh |-> FALSE, staged |-> FALSE, receipt |-> "none"]

TypeOK ==
    /\ status \in Statuses
    /\ resumeStatus \in Statuses \cup {"none"}
    /\ disposition \in {"none", "running", "paused", "cancelled"}
    /\ plan \in Nat
    /\ approved \in Nat
    /\ feedback \in BOOLEAN
    /\ repair \subseteq {"planner", "reviewer"}
    /\ done \subseteq Tasks
    /\ output \in BOOLEAN
    /\ preserved \in BOOLEAN
    /\ revisions \in 0 .. 2
    /\ calls \in [CallIds -> Calls]
    /\ ncalls \in 0 .. MaxModelCalls
    /\ resumeCall \in 0 .. MaxModelCalls
    /\ staged \in 0 .. MaxModelCalls
    /\ tool \in Tools
    /\ action \in [status : {"none", "pending", "approved", "denied"}, key : 0 .. MaxModelCalls]
    /\ pc \in [Engines -> PCs]
    /\ ctx \in [Engines -> Work]
    /\ invoked \in [CallIds -> Nat]
    /\ repeated \in BOOLEAN
    /\ faults \in Nat

-----------------------------------------------------------------------------
CallsIn(state) == {c \in CallIds : calls[c].state = state}
Started == CallsIn("started")
Unknown == CallsIn("unknown")
Approved == plan # 0 /\ approved = plan

\* resumeStatus ?? "running"
Resumed == IF resumeStatus = "none" THEN "running" ELSE resumeStatus

\* The status under a pause.
Base == IF status = "paused" THEN Resumed ELSE status

\* A paused Run stays paused; the new status is what it resumes to.
Land(s) ==
    IF status = "paused"
    THEN resumeStatus' = s /\ UNCHANGED status
    ELSE status' = s /\ UNCHANGED resumeStatus

Goto(e, p) == pc' = [pc EXCEPT ![e] = p]

\* advance() returns and forgets its snapshot.
Rest(e) == Goto(e, "idle") /\ ctx' = [ctx EXCEPT ![e] = NoWork]

NextTask == CHOOSE t \in Tasks \ done : \A u \in Tasks \ done : t <= u

-----------------------------------------------------------------------------
(* advance(): one snapshot, one operation *)

CanTick(e) == pc[e] = "idle" /\ status \in Runnable /\ Started = {}

\* A tick that goes on to a model request or a tool call remembers what it read.
Remember(e, p, phase, task, call, fresh) ==
    /\ Goto(e, p)
    /\ ctx' = [ctx EXCEPT ![e] =
           [phase |-> phase, task |-> task, call |-> call, fresh |-> fresh,
            staged |-> ~fresh /\ staged # 0 /\ staged = call, receipt |-> tool.receipt]]
    /\ UNCHANGED <<lifecycle, planning, work, models, external, history>>

TickTool(e) ==
    /\ CanTick(e)
    /\ tool.key # 0
    /\ Remember(e, "claim", "tool", 0, tool.key, FALSE)

\* Mutant: the call budget is checked one call too late.
RequestPastBudget(e, phase, task) ==
    /\ resumeCall = 0
    /\ ncalls <= MaxModelCalls
    /\ Remember(e, "reserve", phase, task, ncalls + 1, TRUE)

\* requestForCall and the call budget: a reconciled call must be the one this phase makes.
Request(e, phase, task) ==
    \/ /\ resumeCall # 0
       /\ calls[resumeCall].phase = phase
       /\ calls[resumeCall].task = task
       /\ Remember(e, "reserve", phase, task, resumeCall, FALSE)
    \/ /\ resumeCall # 0
       /\ calls[resumeCall].phase # phase \/ calls[resumeCall].task # task
       /\ Remember(e, "throwing", phase, task, 0, FALSE)
    \/ /\ resumeCall = 0
       /\ ncalls < MaxModelCalls
       /\ Remember(e, "reserve", phase, task, ncalls + 1, TRUE)
    \/ /\ resumeCall = 0
       /\ ncalls >= MaxModelCalls
       /\ Remember(e, "exhausted", phase, task, 0, FALSE)

TickPlan(e) ==
    /\ CanTick(e) /\ tool.key = 0
    /\ status \in {"queued", "planning"}
    /\ Request(e, "planner", 0)

TickReview(e) ==
    /\ CanTick(e) /\ tool.key = 0
    /\ status = "reviewing"
    /\ Request(e, "reviewer", 0)

\* Mutant: a running Run is taken to be an approved one.
TickExecuteUnapproved(e) ==
    /\ CanTick(e) /\ tool.key = 0
    /\ status = "running"
    /\ \/ done = Tasks /\ Remember(e, "finishing", "executor", 0, 0, FALSE)
       \/ done # Tasks /\ Request(e, "executor", NextTask)

TickExecute(e) ==
    /\ CanTick(e) /\ tool.key = 0
    /\ status = "running"
    /\ \/ ~Approved /\ Remember(e, "throwing", "executor", 0, 0, FALSE)
       \/ Approved /\ done = Tasks /\ Remember(e, "finishing", "executor", 0, 0, FALSE)
       \/ Approved /\ done # Tasks /\ Request(e, "executor", NextTask)

\* verifyResources or verifyTools throws before anything was reserved.
PreflightFails(e) ==
    /\ pc[e] \in {"reserve", "claim"}
    /\ Goto(e, "throwing")
    /\ UNCHANGED <<lifecycle, planning, work, models, external, ctx, history>>

\* preserveRunOutput: the Run closes with what it has.
Preserve ==
    /\ status' = "succeeded"
    /\ resumeStatus' = "none"
    /\ preserved' = TRUE

\* Every task is done: on to the review, unless no model call is left for it.
FinishExecution(e) ==
    /\ pc[e] = "finishing"
    /\ IF status = "running"
       THEN IF ncalls >= MaxModelCalls /\ output
            THEN Preserve
            ELSE status' = "reviewing" /\ UNCHANGED <<resumeStatus, preserved>>
       ELSE UNCHANGED <<status, resumeStatus, preserved>>
    /\ Rest(e)
    /\ UNCHANGED <<disposition, planning, done, output, revisions, models, external, history>>

\* The catch of advance(): a Run that is not over fails, under its pause if it has one.
Throw(e) ==
    /\ pc[e] = "throwing"
    /\ IF status \in Terminal \cup {"unknown"}
       THEN UNCHANGED <<status, resumeStatus>>
       ELSE Land("failed")
    /\ Rest(e)
    /\ UNCHANGED <<disposition, planning, work, models, external, history>>

\* The same catch for a spent call budget: retained output, or an excerpt of what
\* some unfinished task has read, closes the Run as a partial success.
Exhausted(e) ==
    /\ pc[e] = "exhausted"
    /\ \/ /\ status \notin Terminal \cup {"unknown", "paused"}
          /\ \/ output /\ UNCHANGED done
             \/ plan # 0 /\ \E t \in Tasks : done' = done \cup {t}
          /\ output' = TRUE
          /\ Preserve
       \/ /\ status \in Terminal \cup {"unknown"}
          /\ UNCHANGED <<status, resumeStatus, preserved, done, output>>
       \/ /\ status \notin Terminal \cup {"unknown"}
          /\ status = "paused" \/ ~output
          /\ Land("failed")
          /\ UNCHANGED <<preserved, done, output>>
    /\ Rest(e)
    /\ UNCHANGED <<disposition, planning, revisions, models, external, history>>

-----------------------------------------------------------------------------
(* call(): reserve a model call, ask, and apply the answer *)

CallStarted(e) ==
    [state |-> "started", phase |-> ctx[e].phase, task |-> ctx[e].task]

\* Mutant: the reservation trusts the snapshot.
ReserveFromSnapshot(e) ==
    /\ pc[e] = "reserve"
    /\ ctx[e].call \in CallIds
    /\ calls' = [calls EXCEPT ![ctx[e].call] = CallStarted(e)]
    /\ ncalls' = IF ctx[e].fresh THEN ctx[e].call ELSE ncalls
    /\ resumeCall' = 0
    /\ status' = IF ctx[e].phase = "planner" THEN "planning" ELSE status
    /\ Goto(e, "asking")
    /\ UNCHANGED <<resumeStatus, disposition, planning, work, staged, external, ctx, history>>

\* The durable fence: nothing is reserved if the Run stopped, another call is
\* under way, or calls were made since the snapshot.
Reserve(e) ==
    /\ pc[e] = "reserve"
    /\ LET w == ctx[e]
           lost == \/ status \notin Runnable
                   \/ Started \ {w.call} # {}
                   \/ w.fresh /\ ncalls + 1 # w.call
           changed == ~w.fresh /\ calls[w.call].state # "unknown"
       IN  \/ /\ lost
              /\ Rest(e)
              /\ UNCHANGED <<lifecycle, models, repeated>>
           \/ /\ ~lost /\ changed
              /\ Goto(e, "throwing")
              /\ UNCHANGED <<lifecycle, models, repeated, ctx>>
           \/ /\ ~lost /\ ~changed
              /\ calls' = [calls EXCEPT ![w.call] = CallStarted(e)]
              /\ ncalls' = IF w.fresh THEN w.call ELSE ncalls
              /\ resumeCall' = 0
              /\ repeated' = (repeated \/ ~w.fresh)
              /\ status' = IF w.phase = "planner" THEN "planning" ELSE status
              /\ Goto(e, "asking")
              /\ UNCHANGED <<resumeStatus, disposition, staged, ctx>>
    /\ UNCHANGED <<planning, work, external, invoked, faults>>

Asking(e) == pc[e] = "asking"
SetCall(c, state) == calls' = [calls EXCEPT ![c].state = state]

\* The answer's receipt, written before anything looks at the Run's status.
Receive(e, state) ==
    /\ SetCall(ctx[e].call, state)
    /\ staged' = IF staged = ctx[e].call THEN 0 ELSE staged
    /\ disposition' = "none"
    /\ Rest(e)
    /\ UNCHANGED <<ncalls, resumeCall, history>>

\* Mutant: an answer revives a Run that is over.
AnswerDiscardedReviving(e) ==
    /\ Asking(e) /\ status \in Terminal
    /\ Receive(e, "discarded")
    /\ status' = "running"
    /\ UNCHANGED <<resumeStatus, planning, work, external>>

AnswerDiscarded(e) ==
    /\ Asking(e) /\ status \in Terminal
    /\ Receive(e, "discarded")
    /\ UNCHANGED <<status, resumeStatus, planning, work, external>>

Answered(e, phase) ==
    /\ Asking(e) /\ ctx[e].phase = phase /\ status \notin Terminal
    /\ Receive(e, "completed")

\* settlePlanApproval: a plan made at the owner's request always waits for the owner.
AutoApproval == ~feedback /\ ReviewMode # "required"
OwnerApproval == feedback \/ ReviewMode # "yolo"

AnswerPlan(e) ==
    /\ Answered(e, "planner")
    /\ plan' = plan + 1
    /\ done' = {}
    /\ feedback' = FALSE
    /\ repair' = repair \ {"planner"}
    /\ \/ AutoApproval /\ approved' = plan' /\ Land("running")
       \/ OwnerApproval /\ approved' = 0 /\ Land("needs_approval")
    /\ UNCHANGED <<output, preserved, revisions, external>>

\* A malformed plan or review is repaired once; the next one fails the Run.
AnswerMalformed(e, phase) ==
    /\ phase \in {"planner", "reviewer"}
    /\ Answered(e, phase)
    /\ repair' = repair \cup {phase}
    /\ Land(IF phase \in repair THEN "failed" ELSE Base)
    /\ UNCHANGED <<plan, approved, feedback, work, external>>

\* The executor read a source or asked for a repair: an observation, or an
\* error no repair is left for.
AnswerStep(e) ==
    /\ Answered(e, "executor")
    /\ \E s \in {Base, "failed"} : Land(s)
    /\ UNCHANGED <<planning, work, external>>

AnswerQuestion(e) ==
    /\ Answered(e, "executor")
    /\ Land("needs_input")
    /\ UNCHANGED <<planning, work, external>>

\* Mutant: the artifact is stored and its step left pending.
AnswerFinishWithoutStep(e) ==
    /\ Answered(e, "executor")
    /\ output' = TRUE
    /\ Land("reviewing")
    /\ UNCHANGED <<planning, done, preserved, revisions, external>>

AnswerFinish(e) ==
    /\ Answered(e, "executor")
    /\ done' = done \cup {ctx[e].task}
    /\ output' = TRUE
    /\ Land(Base)
    /\ UNCHANGED <<planning, preserved, revisions, external>>

\* The executor requests an external tool: gateExternalAction settles it
\* against the frozen policy, which never asks under yolo: it cannot wait.  The key
\* names the Run's latest model call.
AnswerTool(e) ==
    /\ Answered(e, "executor")
    /\ \/ /\ "allow" \in Gates
          /\ tool' = [NoTool EXCEPT !.key = ncalls]
          /\ Land(Base)
          /\ UNCHANGED action
       \/ /\ "ask" \in Gates /\ ReviewMode # "yolo"
          /\ tool' = [NoTool EXCEPT !.key = ncalls]
          /\ action' = [status |-> "pending", key |-> ncalls]
          /\ Land("needs_approval")
       \/ /\ "refuse" \in Gates
          /\ tool' = NoTool
          /\ \E s \in {Base, "failed"} : Land(s)
          /\ UNCHANGED action
    /\ UNCHANGED <<planning, work>>

AnswerReview(e) ==
    /\ Answered(e, "reviewer")
    /\ repair' = repair \ {"reviewer"}
    /\ \/ Land("succeeded") /\ UNCHANGED <<revisions, done>>
       \/ /\ revisions < 2
          /\ revisions' = revisions + 1
          /\ done' = done \ Leaves
          /\ Land("running")
       \/ revisions = 2 /\ Land("failed") /\ UNCHANGED <<revisions, done>>
    /\ UNCHANGED <<plan, approved, feedback, output, preserved, external>>

\* The provider rejected the request, or its answer was not usable at all.
AnswerFails(e) ==
    /\ Asking(e) /\ ~ctx[e].staged
    /\ SetCall(ctx[e].call, "failed")
    /\ Goto(e, "throwing")
    /\ UNCHANGED <<lifecycle, planning, work, ncalls, resumeCall, staged, external, ctx, history>>

\* ModelOutcomeUnknown: the request may have been billed.  The Run waits for
\* reconciliation, or closes with the output it already has.
AnswerLost(e) ==
    /\ Asking(e) /\ ~ctx[e].staged
    /\ SetCall(ctx[e].call, "unknown")
    /\ \/ /\ status \in Terminal
          /\ disposition' = IF status = "cancelled" THEN "cancelled" ELSE disposition
          /\ UNCHANGED <<status, resumeStatus, preserved>>
          /\ Goto(e, "throwing") /\ UNCHANGED ctx
       \/ /\ status \notin Terminal
          /\ ctx[e].phase = "planner" \/ ~output \/ status = "paused"
          /\ disposition' = IF status = "paused" THEN "paused" ELSE "running"
          /\ resumeStatus' = Base
          /\ status' = "unknown"
          /\ UNCHANGED preserved
          /\ Goto(e, "throwing") /\ UNCHANGED ctx
       \/ /\ status \notin Terminal
          /\ ctx[e].phase # "planner" /\ output /\ status # "paused"
          /\ disposition' = "running"
          /\ Preserve
          /\ Rest(e)
    /\ UNCHANGED <<planning, done, output, revisions, ncalls, resumeCall, staged, external, history>>

-----------------------------------------------------------------------------
(* executePendingTool(): claim the call, run it, settle the result *)

ClaimTool(e) ==
    /\ tool' = [tool EXCEPT !.token = e]
    /\ Goto(e, "claimed")
    /\ UNCHANGED ctx

\* Mutant: the attempt does not look for another one's token.
ClaimTaken(e) ==
    /\ pc[e] \in {"claim", "recheck"}
    /\ \/ /\ tool.key = ctx[e].call /\ tool.receipt = ctx[e].receipt
          /\ \/ status \in Runnable
             \/ status = "cancelled" /\ ctx[e].receipt # "none" /\ tool.inFlight
          /\ ClaimTool(e)
       \/ /\ status \notin Runnable
          /\ Rest(e) /\ UNCHANGED tool
    /\ UNCHANGED <<lifecycle, planning, work, models, action, history>>

\* The call is still the one in the snapshot, nobody runs it, and the Run is
\* going on, or is cancelled and its receipt is being checked.
Claimable(e) ==
    /\ tool.key = ctx[e].call
    /\ tool.token = NoEngine
    /\ tool.receipt = ctx[e].receipt
    /\ \/ status \in Runnable
       \/ status = "cancelled" /\ ctx[e].receipt # "none" /\ tool.inFlight

Claim(e) ==
    /\ pc[e] \in {"claim", "recheck"}
    /\ \/ Claimable(e) /\ ClaimTool(e)
       \/ ~Claimable(e) /\ Rest(e) /\ UNCHANGED tool
    /\ UNCHANGED <<lifecycle, planning, work, models, action, history>>

\* The check of a cancelled Run's receipt fails before the provider is asked.
RecheckFails(e) ==
    /\ pc[e] = "recheck"
    /\ tool' = [tool EXCEPT !.inFlight = FALSE]
    /\ Rest(e)
    /\ UNCHANGED <<lifecycle, planning, work, models, action, history>>

\* Mutant: an interrupted call is issued again, whatever the tool.
ReissuesAlways(e) == ctx[e].receipt = "interrupted"

\* A call with a receipt is reconciled at the provider under its old key, unless
\* it was only interrupted and may be issued again.
Reissues(e) == AutoRetryTool /\ ctx[e].receipt = "interrupted"

Invoke(e) ==
    /\ pc[e] = "claimed"
    /\ \/ /\ tool.key # 0 /\ tool.token = e
          /\ invoked' = IF ctx[e].receipt = "none" \/ Reissues(e)
                        THEN [invoked EXCEPT ![tool.key] = @ + 1] ELSE invoked
          /\ Goto(e, "invoking") /\ UNCHANGED ctx
       \/ /\ tool.key = 0 \/ tool.token # e
          /\ Rest(e) /\ UNCHANGED invoked
    /\ UNCHANGED <<lifecycle, planning, work, models, external, repeated, faults>>

\* The fence of a settlement: the attempt still holds the call.
HoldsTool(e) == tool.key = ctx[e].call /\ tool.token = e

\* The status a result leaves; under a pause it is what the Run resumes to.
Settled(s) ==
    IF status = "paused"
    THEN resumeStatus' = s /\ UNCHANGED status
    ELSE /\ status' = s
         /\ resumeStatus' = IF s = "unknown" THEN "running" ELSE resumeStatus

\* validateToolResult: a result is completed, failed or unknown; a thrown
\* transport error is unknown too and keeps the call for reconciliation.
SettleTool(e, result) ==
    /\ pc[e] = "invoking"
    /\ HoldsTool(e)
    /\ tool' = IF result = "unknown" THEN [NoTool EXCEPT !.key = tool.key, !.receipt = "unknown"]
                                     ELSE NoTool
    /\ \/ status \in Terminal /\ UNCHANGED <<status, resumeStatus>>
       \/ /\ status \notin Terminal
          /\ \/ result = "unknown" /\ Settled("unknown")
             \/ result = "failed" /\ Settled("failed")
             \/ result = "failed" /\ Approved /\ Settled("running")
             \/ result = "completed" /\ Settled(IF Approved THEN "running" ELSE "failed")
    /\ Rest(e)
    /\ UNCHANGED <<disposition, planning, work, models, action, history>>

SettleStale(e) ==
    /\ pc[e] = "invoking"
    /\ ~HoldsTool(e)
    /\ Rest(e)
    /\ UNCHANGED <<lifecycle, planning, work, models, external, history>>

-----------------------------------------------------------------------------
(* recover(): a process starts after a crash *)

Crash(e) ==
    /\ faults < MaxFaults
    /\ pc[e] # "down"
    /\ faults' = faults + 1
    /\ Goto(e, "down") /\ ctx' = [ctx EXCEPT ![e] = NoWork]
    /\ UNCHANGED <<lifecycle, planning, work, models, external, invoked, repeated>>

\* scheduleAutoRetry and isAutoRetryableInterruption
Requeueable(receipt) == AutoRetryTool /\ receipt = "interrupted"

\* recoverRun() decides on a snapshot of the Run.
Restart(e) ==
    /\ pc[e] = "down"
    /\ LET interrupted == Started # {} \/ tool.token # NoEngine \/ tool.inFlight IN
       \/ interrupted /\ Goto(e, "recovering")
       \/ /\ ~interrupted
          /\ Goto(e, IF status = "unknown" /\ Requeueable(tool.receipt) THEN "requeueing" ELSE "idle")
    /\ UNCHANGED <<lifecycle, planning, work, models, external, ctx, history>>

\* Mutant: recovery leaves the calls of the dead process started.
RecoverToolOnly(e) ==
    /\ pc[e] = "recovering"
    /\ tool' = IF tool.key = 0 THEN tool
               ELSE [tool EXCEPT !.token = NoEngine, !.inFlight = FALSE,
                                 !.receipt = IF @ = "none" THEN "interrupted" ELSE @]
    /\ IF status \in Terminal
       THEN UNCHANGED <<status, resumeStatus>>
       ELSE status' = "unknown" /\ resumeStatus' = Base
    /\ Rest(e)
    /\ UNCHANGED <<disposition, planning, work, models, action, history>>

Recover(e) ==
    /\ pc[e] = "recovering"
    /\ LET interrupted == tool.token # NoEngine /\ tool.receipt = "none"
           receipt == IF interrupted THEN "interrupted" ELSE tool.receipt
           resume == IF interrupted THEN "running" ELSE Base
           staysPaused == status = "paused" /\ Started = {}
           requeues == Requeueable(receipt) /\ Started = {} /\ Unknown = {}
       IN  /\ disposition' =
                  IF Started = {} \/ status \in {"succeeded", "failed"} THEN disposition
                  ELSE IF status \in {"cancelled", "paused"} THEN status ELSE "running"
           /\ calls' = [c \in CallIds |->
                  IF c \in Started THEN [calls[c] EXCEPT !.state = "unknown"] ELSE calls[c]]
           /\ tool' = [tool EXCEPT !.receipt = receipt, !.token = NoEngine, !.inFlight = FALSE]
           /\ \/ status \in Terminal /\ UNCHANGED <<status, resumeStatus>>
              \/ staysPaused /\ resumeStatus' = "unknown" /\ UNCHANGED status
              \/ /\ status \notin Terminal /\ ~staysPaused /\ requeues
                 /\ status' = IF resume \in Runnable THEN resume ELSE "running"
                 /\ resumeStatus' = "none"
              \/ /\ status \notin Terminal /\ ~staysPaused /\ ~requeues
                 /\ status' = "unknown"
                 /\ resumeStatus' = resume
    /\ Rest(e)
    /\ UNCHANGED <<planning, work, ncalls, resumeCall, staged, action, history>>

Requeue(e) ==
    /\ pc[e] = "requeueing"
    /\ IF status = "unknown" /\ Requeueable(tool.receipt) /\ Unknown = {}
       THEN /\ status' = IF resumeStatus \in Runnable THEN resumeStatus ELSE "running"
            /\ resumeStatus' = "none"
       ELSE UNCHANGED <<status, resumeStatus>>
    /\ Rest(e)
    /\ UNCHANGED <<disposition, planning, work, models, external, history>>

-----------------------------------------------------------------------------
(* mutateCommand(): the owner's commands *)

Serving(e) == pc[e] \notin {"down", "recovering", "requeueing"}

\* Commands that ask the serving engine whether this Run is active there.
Inactive == \E e \in Engines : pc[e] = "idle"
Served == \E e \in Engines : Serving(e)

\* assertReviewVersion: the Run waits for its plan, not for one of its actions.
Reviewing == Served /\ status = "needs_approval" /\ action.status # "pending" /\ plan # 0

Approve ==
    /\ Reviewing
    /\ approved' = plan
    /\ status' = "running"
    /\ UNCHANGED <<resumeStatus, disposition, plan, feedback, repair, work, models,
                   external, workers, history>>

ActionAsked == Served /\ status = "needs_approval" /\ action.status = "pending" /\ tool.key = action.key

ApproveAction ==
    /\ ActionAsked
    /\ action' = [action EXCEPT !.status = "approved"]
    /\ status' = "running"
    /\ UNCHANGED <<resumeStatus, disposition, planning, work, models, tool, workers, history>>

\* Mutant: the declined call stays pending.
DenyActionKeepingCall ==
    /\ ActionAsked
    /\ action' = [action EXCEPT !.status = "denied"]
    /\ status' = "running"
    /\ UNCHANGED <<resumeStatus, disposition, planning, work, models, tool, workers, history>>

DenyAction ==
    /\ ActionAsked
    /\ action' = [action EXCEPT !.status = "denied"]
    /\ tool' = NoTool
    /\ status' = "running"
    /\ UNCHANGED <<resumeStatus, disposition, planning, work, models, workers, history>>

RevisePlan ==
    /\ Reviewing /\ Inactive
    /\ ncalls < MaxModelCalls
    /\ approved' = 0
    /\ feedback' = TRUE
    /\ repair' = repair \ {"planner"}
    /\ status' = "planning"
    /\ UNCHANGED <<resumeStatus, disposition, plan, work, models, external, workers, history>>

EditPlan ==
    /\ Reviewing
    /\ plan < MaxPlans
    /\ plan' = plan + 1
    /\ done' = {}
    /\ approved' = 0
    /\ UNCHANGED <<lifecycle, feedback, repair, output, preserved, revisions, models,
                   external, workers, history>>

SetStatus(s) ==
    /\ status' = s
    /\ UNCHANGED <<disposition, planning, work, models, external, workers, history>>

AnswerOwner ==
    /\ Served /\ status = "needs_input"
    /\ SetStatus("running") /\ UNCHANGED resumeStatus

Pause ==
    /\ Served /\ status \in Runnable
    /\ SetStatus("paused") /\ resumeStatus' = status

Resume ==
    /\ Served /\ status = "paused"
    /\ SetStatus(Resumed) /\ resumeStatus' = "none"

Cancel ==
    /\ Served /\ status \notin {"succeeded", "cancelled"}
    /\ SetStatus("cancelled") /\ UNCHANGED resumeStatus

\* Where a Run that stopped goes on.
Restarted == IF plan = 0 THEN "queued" ELSE IF done = Tasks THEN "reviewing" ELSE "running"

Retry ==
    /\ Inactive /\ status = "failed"
    /\ ncalls < MaxModelCalls
    /\ SetStatus(Restarted) /\ UNCHANGED resumeStatus

\* Ask again under the same idempotency key: an unknown model call is resumed,
\* a tool call with a receipt is reconciled at its provider.
Reconcile ==
    /\ Inactive /\ status = "unknown"
    /\ Cardinality(Unknown) <= 1
    /\ resumeCall' = IF Unknown = {} THEN resumeCall ELSE CHOOSE c \in Unknown : TRUE
    /\ tool.receipt # "none" \/ ncalls < MaxModelCalls \/ resumeCall' # 0
    /\ status' = Restarted
    /\ UNCHANGED <<resumeStatus, disposition, planning, work, calls, ncalls, staged,
                   external, workers, history>>

Replan ==
    /\ Inactive /\ status = "failed"
    /\ ncalls < MaxModelCalls
    /\ status' = "planning"
    /\ resumeStatus' = "none"
    /\ approved' = 0
    /\ repair' = repair \ {"planner"}
    /\ UNCHANGED <<disposition, plan, feedback, work, models, external, workers, history>>

-----------------------------------------------------------------------------
(* reconcileModelCall(), reconcileCancelledExternal(), terminalizeRun() *)

\* reconcileDisposition ?? what the status says
Disposition ==
    IF disposition # "none" THEN disposition
    ELSE IF status \in {"cancelled", "paused"} THEN status ELSE "running"

Reconcilable(c) == ModelReconcile /\ Served /\ c \in Unknown

\* The Run is over: only the receipt of the call is settled.
SettleClosedCall(c) ==
    /\ Reconcilable(c)
    /\ status \in {"succeeded", "failed"}
    /\ \E s \in {"discarded", "failed"} : SetCall(c, s)
    /\ disposition' = "none"
    /\ UNCHANGED <<status, resumeStatus, planning, work, ncalls, resumeCall, staged,
                   external, workers, history>>

ReconcileCallFailed(c) ==
    /\ Reconcilable(c)
    /\ status \notin {"succeeded", "failed"}
    /\ SetCall(c, "failed")
    /\ \/ Disposition = "cancelled" /\ status' = "cancelled" /\ UNCHANGED resumeStatus
       \/ Disposition = "paused" /\ status' = "paused" /\ resumeStatus' = "failed"
       \/ Disposition = "running" /\ status' = "failed" /\ UNCHANGED resumeStatus
    /\ disposition' = "none"
    /\ resumeCall' = 0 /\ staged' = 0
    /\ UNCHANGED <<planning, work, ncalls, external, workers, history>>

\* The payload is staged; the next tick of its phase consumes it.
ReconcileCallCompleted(c) ==
    /\ Reconcilable(c)
    /\ status \notin {"succeeded", "failed"}
    /\ \/ /\ Disposition = "cancelled"
          /\ SetCall(c, "discarded")
          /\ resumeCall' = 0 /\ staged' = 0
          /\ status' = "cancelled" /\ resumeStatus' = "none" /\ disposition' = "none"
       \/ /\ Disposition = "paused"
          /\ resumeCall' = c /\ staged' = c
          /\ status' = "paused" /\ resumeStatus' = Resumed
          /\ UNCHANGED <<calls, disposition>>
       \/ /\ Disposition = "running"
          /\ resumeCall' = c /\ staged' = c
          /\ status' = Resumed /\ resumeStatus' = "none" /\ disposition' = "none"
          /\ UNCHANGED calls
    /\ UNCHANGED <<planning, work, ncalls, external, workers, history>>

ReconcileCancelled(e) ==
    /\ pc[e] = "idle"
    /\ status = "cancelled"
    /\ tool.receipt # "none" /\ ~tool.inFlight
    /\ tool' = [tool EXCEPT !.inFlight = TRUE]
    /\ Goto(e, "recheck")
    /\ ctx' = [ctx EXCEPT ![e] = [phase |-> "tool", task |-> 0, call |-> tool.key,
                                  fresh |-> FALSE, staged |-> FALSE, receipt |-> tool.receipt]]
    /\ UNCHANGED <<lifecycle, planning, work, models, action, history>>

\* A workflow gives up: a Run that is not waiting for anybody closes.
Terminalize ==
    /\ Temporal /\ Served
    /\ status \in Runnable \cup {"unknown"}
    /\ calls' = [c \in CallIds |->
           IF c \in Started THEN [calls[c] EXCEPT !.state = "unknown"] ELSE calls[c]]
    /\ \/ output /\ Preserve
       \/ ~output /\ status' = "failed" /\ resumeStatus' = "none" /\ UNCHANGED preserved
    /\ UNCHANGED <<disposition, planning, done, output, revisions, ncalls, resumeCall, staged,
                   external, workers, history>>

-----------------------------------------------------------------------------
Init ==
    /\ status = "queued" /\ resumeStatus = "none" /\ disposition = "none"
    /\ plan = 0 /\ approved = 0 /\ feedback = FALSE /\ repair = {}
    /\ done = {} /\ output = FALSE /\ preserved = FALSE /\ revisions = 0
    /\ calls = [c \in CallIds |-> NoCall] /\ ncalls = 0 /\ resumeCall = 0 /\ staged = 0
    /\ tool = NoTool /\ action = [status |-> "none", key |-> 0]
    /\ pc = [e \in Engines |-> "idle"] /\ ctx = [e \in Engines |-> NoWork]
    /\ invoked = [c \in CallIds |-> 0] /\ repeated = FALSE /\ faults = 0

Tick(e) == TickTool(e) \/ TickPlan(e) \/ TickReview(e) \/ TickExecute(e)

Answer(e) ==
    \/ AnswerDiscarded(e) \/ AnswerPlan(e) \/ AnswerStep(e) \/ AnswerQuestion(e)
    \/ \E phase \in {"planner", "reviewer"} : AnswerMalformed(e, phase)
    \/ AnswerFinish(e) \/ AnswerTool(e) \/ AnswerReview(e)
    \/ AnswerFails(e) \/ AnswerLost(e)

\* What an engine does by itself once it started, and what the model and the
\* providers answer it, a timeout included.
EngineStep(e) ==
    \/ Tick(e) \/ PreflightFails(e) \/ Reserve(e) \/ Answer(e)
    \/ FinishExecution(e) \/ Throw(e) \/ Exhausted(e)
    \/ Claim(e) \/ RecheckFails(e) \/ Invoke(e) \/ SettleStale(e)
    \/ \E result \in {"completed", "failed", "unknown"} : SettleTool(e, result)
    \/ Restart(e) \/ Recover(e) \/ Requeue(e)

OwnerStep ==
    \/ Approve \/ ApproveAction \/ DenyAction \/ RevisePlan \/ EditPlan \/ AnswerOwner
    \/ Pause \/ Resume \/ Cancel \/ Retry \/ Reconcile \/ Replan \/ Terminalize
    \/ \E c \in CallIds : SettleClosedCall(c) \/ ReconcileCallFailed(c) \/ ReconcileCallCompleted(c)
    \/ \E e \in Engines : ReconcileCancelled(e)

Next ==
    \/ \E e \in Engines : EngineStep(e) \/ Crash(e)
    \/ OwnerStep

Spec == Init /\ [][Next]_vars

\* The dispatcher keeps ticking a runnable Run, a request ends or times out, and
\* a dead process is started again.  Nobody has to issue a command.
FairSpec == Spec /\ \A e \in Engines : WF_vars(EngineStep(e))
-----------------------------------------------------------------------------
(* Properties *)

\* Two ticks of any engines never have model requests under way at once: the
\* reservation of call() is the Run's only fence (engine.ts:2068).
AtMostOneStarted == \A c, d \in Started : c = d

\* A started call blocks every tick, so somebody must be asking it, or about to
\* recover it after a crash: otherwise the Run would hang (engine.ts:1705).
StartedHasAsker ==
    \A c \in Started : \E e \in Engines :
        \/ pc[e] = "asking" /\ ctx[e].call = c
        \/ pc[e] \in {"down", "recovering"}

\* A side effect is requested from its provider once, through crashes, lost
\* answers, retries and reconciliation, unless the tool may be repeated.
ToolInvokedOnce == ~AutoRetryTool => \A c \in CallIds : invoked[c] <= 1

\* While no process dies and no unknown model call is asked again, two engines never
\* wait on the provider for the same call: the token of a claim keeps the other's stale
\* tick out (engine.ts:3235), and no answer hands out the key of a call under way.
OneAttemptAtATime ==
    faults = 0 /\ ~repeated => \A e, f \in Engines :
        /\ pc[e] = "invoking"
        /\ pc[f] = "invoking"
        /\ ctx[e].call = ctx[f].call
        => e = f

\* An action the policy asks about is handed to its provider only after the
\* owner approved that very call (gateExternalAction, approve-action).
AskedBeforeInvoked ==
    \A e \in Engines :
        pc[e] \in {"claimed", "invoking"} /\ HoldsTool(e) /\ tool.key = action.key
            => action.status = "approved"

\* A Run that does not say it only kept partial output succeeds with every task of
\* its latest plan done, though plans are replaced, steps reopened and calls repeated.
SuccessMeansDone == status = "succeeded" /\ ~preserved => plan # 0 /\ done = Tasks

\* Late answers, stale ticks, crashes and commands leave a succeeded Run alone.
SucceededIsFinal ==
    [][status = "succeeded" => UNCHANGED <<status, resumeStatus, planning, work>>]_vars

\* The executor is asked only while the current version of the plan is approved,
\* though the tick read the approval before its preflight checks (engine.ts:2447).
ExecutorAskedUnderApproval ==
    [][\A e \in Engines :
           pc[e] = "reserve" /\ pc'[e] = "asking" /\ ctx[e].phase = "executor" => Approved]_vars

\* Whatever the model and the providers answer, an engine brings a Run to an end
\* or to a point where somebody else has to act.
RunRests == status \in Runnable ~> status \notin Runnable

\* engine.ts:1895: cancellation is terminal for the Run, also when an unknown
\* model call of it is settled later.
ReconcileKeepsCancel == [][status = "cancelled" => status' = "cancelled"]_vars
=============================================================================
