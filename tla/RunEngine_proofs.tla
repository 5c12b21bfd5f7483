-------------------------- MODULE RunEngine_proofs --------------------------
(* Proofs about RunEngine for every number of engines, tasks and model calls. *)
EXTENDS RunEngine, WellFoundedInduction, TLAPS

\* A set of numbers that is not empty has a least one.
LEMMA LeastNumber ==
    ASSUME NEW S, S \subseteq Nat, S # {}
    PROVE  \E t \in S : \A u \in S : t <= u
<1> DEFINE R == OpToRel(<, Nat)
<1>1. PICK t \in S : \A u \in S : ~ (<<u, t>> \in R)
  <2>1. IsWellFoundedOn(R, Nat)
    BY NatLessThanWellFounded
  <2> HIDE DEF R
  <2> QED BY <2>1, WFMin
<1>2. ASSUME NEW u \in S PROVE t <= u
  <2>1. ~ (u < t)
    BY <1>1 DEF OpToRel
  <2> QED BY <2>1
<1> QED BY <1>2

\* A tick knows which task it is about.
LEMMA NextTaskType == ASSUME done # Tasks, done \subseteq Tasks PROVE NextTask \in Tasks
<1>1. Tasks \ done # {}
  OBVIOUS
<1>2. Tasks \ done \subseteq Nat
  BY ConstantsAssumption DEF Tasks
<1> QED BY <1>1, <1>2, LeastNumber DEF NextTask

-----------------------------------------------------------------------------
(* Type correctness *)

\* What a model request rests on: its tick numbered a call of the budget and,
\* for the executor, found a task.
RequestInRange ==
    \A e \in Engines :
        pc[e] \in {"reserve", "asking"} =>
            /\ ctx[e].call \in CallIds
            /\ ctx[e].phase \in Phases
            /\ ctx[e].phase = "executor" => ctx[e].task \in Tasks

IInv == TypeOK /\ RequestInRange

\* An engine that leaves its snapshot alone and goes on, or forgets it.
LEMMA WorkersType ==
    ASSUME IInv, NEW e \in Engines, NEW p \in PCs
    PROVE  /\ Goto(e, p) => pc' \in [Engines -> PCs]
           /\ Goto(e, p) /\ UNCHANGED ctx /\ p # "reserve" /\ (p = "asking" => pc[e] = "reserve")
                  => RequestInRange'
           /\ Rest(e) => /\ pc' \in [Engines -> PCs]
                         /\ ctx' \in [Engines -> Work]
                         /\ RequestInRange'
<1>1. pc \in [Engines -> PCs] /\ ctx \in [Engines -> Work]
  BY DEF IInv, TypeOK
<1>2. Goto(e, p) => pc' \in [Engines -> PCs]
  BY <1>1 DEF Goto
<1>3. Goto(e, p) /\ UNCHANGED ctx /\ p # "reserve" /\ (p = "asking" => pc[e] = "reserve")
                  => RequestInRange'
  BY <1>1 DEF Goto, IInv, RequestInRange
<1>4. NoWork \in Work /\ "idle" \in PCs
  BY ConstantsAssumption DEF NoWork, Work, Phases, Receipts, PCs
<1>5. Rest(e) => pc' \in [Engines -> PCs] /\ ctx' \in [Engines -> Work]
  BY <1>1, <1>4 DEF Rest, Goto
<1>6. Rest(e) => RequestInRange'
  BY <1>1 DEF Rest, Goto, IInv, RequestInRange
<1> QED BY <1>2, <1>3, <1>5, <1>6

\* Marking a call leaves the calls well formed.
LEMMA SetCallType ==
    ASSUME TypeOK, NEW c, NEW state \in CallStates, SetCall(c, state)
    PROVE  calls' \in [CallIds -> Calls]
<1>1. calls \in [CallIds -> Calls]
  BY DEF TypeOK
<1>2. \A d \in CallIds : [calls[d] EXCEPT !.state = state] \in Calls
  BY <1>1 DEF Calls
<1> QED BY <1>1, <1>2 DEF SetCall

\* A result lands on a Run as a status.
LEMMA LandType ==
    ASSUME TypeOK, NEW s \in Statuses, Land(s) \/ Settled(s)
    PROVE  status' \in Statuses /\ resumeStatus' \in Statuses \cup {"none"}
BY DEF TypeOK, Land, Settled, Statuses, Runnable

\* So is where a paused or restarted Run goes on.
LEMMA StatusTypes ==
    ASSUME TypeOK
    PROVE  /\ Base \in Statuses /\ Restarted \in Statuses
           /\ status = "paused" => Resumed \in Statuses
           /\ Resumed \in Statuses
BY DEF TypeOK, Base, Resumed, Restarted, Statuses, Runnable, Terminal

\* Every tick remembers a phase, a task and, if it is to reserve it, a call of the budget.
LEMMA RememberType ==
    ASSUME IInv, NEW e \in Engines, NEW p \in PCs, NEW phase \in Phases \cup {"tool"},
           NEW task \in 0 .. NumTasks, NEW call \in Nat, NEW fresh \in BOOLEAN,
           p # "asking",
           p = "reserve" => call \in CallIds /\ phase \in Phases
                            /\ (phase = "executor" => task \in Tasks),
           Remember(e, p, phase, task, call, fresh)
    PROVE  IInv'
<1> DEFINE w == [phase |-> phase, task |-> task, call |-> call, fresh |-> fresh,
                 staged |-> ~fresh /\ staged # 0 /\ staged = call, receipt |-> tool.receipt]
<1>1. pc \in [Engines -> PCs] /\ ctx \in [Engines -> Work] /\ tool.receipt \in Receipts
  BY DEF IInv, TypeOK, Tools
<1>2. w \in Work
  BY <1>1 DEF Work
<1>3. ctx' = [ctx EXCEPT ![e] = w] /\ w.call = call /\ w.phase = phase /\ w.task = task
  BY DEF Remember
<1> HIDE DEF w
<1>4. pc' \in [Engines -> PCs] /\ ctx' \in [Engines -> Work]
  BY <1>1, <1>2, <1>3 DEF Remember, Goto
<1>5. RequestInRange'
  BY <1>1, <1>3 DEF Remember, Goto, IInv, RequestInRange
<1>6. QED
  BY <1>4, <1>5 DEF IInv, TypeOK, Remember, lifecycle, planning, work, models, external, history

LEMMA RequestType ==
    ASSUME IInv, NEW e \in Engines, NEW phase \in Phases, NEW task \in 0 .. NumTasks,
           phase = "executor" => task \in Tasks,
           Request(e, phase, task)
    PROVE  IInv'
<1>1. /\ ncalls \in Nat /\ resumeCall \in Nat
      /\ ncalls < MaxModelCalls => ncalls + 1 \in CallIds
      /\ resumeCall # 0 => resumeCall \in CallIds
  BY ConstantsAssumption DEF IInv, TypeOK, CallIds
<1>2. /\ {"reserve", "throwing", "exhausted"} \subseteq PCs
      /\ "asking" \notin {"reserve", "throwing", "exhausted"} /\ "throwing" # "reserve"
      /\ "exhausted" # "reserve" /\ 0 \in Nat /\ phase \in Phases \cup {"tool"}
  BY DEF PCs
<1>3. CASE resumeCall # 0 /\ Remember(e, "reserve", phase, task, resumeCall, FALSE)
  BY <1>1, <1>2, <1>3, RememberType
<1>4. CASE Remember(e, "throwing", phase, task, 0, FALSE)
  BY <1>2, <1>4, RememberType
<1>5. CASE ncalls < MaxModelCalls /\ Remember(e, "reserve", phase, task, ncalls + 1, TRUE)
  <2>1. ncalls + 1 \in Nat
    BY <1>1
  <2> QED BY <1>1, <1>2, <1>5, <2>1, RememberType
<1>6. CASE Remember(e, "exhausted", phase, task, 0, FALSE)
  BY <1>2, <1>6, RememberType
<1> QED BY <1>3, <1>4, <1>5, <1>6 DEF Request

LEMMA TickType == ASSUME IInv, NEW e \in Engines, Tick(e) PROVE IInv'
<1>1. /\ {"claim", "throwing", "finishing"} \subseteq PCs
      /\ {"reserve", "asking"} \cap {"claim", "throwing", "finishing"} = {}
      /\ FALSE \in BOOLEAN
  BY DEF PCs
<1>2. 0 \in 0 .. NumTasks /\ Tasks \subseteq 0 .. NumTasks
  BY ConstantsAssumption DEF Tasks
<1>3. CASE TickTool(e)
  <2>1. tool.key \in Nat
    BY ConstantsAssumption DEF IInv, TypeOK, Tools
  <2> QED BY <1>1, <1>2, <1>3, <2>1, RememberType DEF TickTool
<1>4. CASE TickPlan(e)
  BY <1>2, <1>4, RequestType DEF TickPlan, Phases
<1>5. CASE TickReview(e)
  BY <1>2, <1>5, RequestType DEF TickReview, Phases
<1>6. CASE TickExecute(e)
  <2>1. done # Tasks => NextTask \in 0 .. NumTasks /\ NextTask \in Tasks
    BY <1>2, NextTaskType DEF IInv, TypeOK
  <2>2. CASE Remember(e, "throwing", "executor", 0, 0, FALSE)
    BY <1>1, <1>2, <2>2, RememberType DEF Phases
  <2>3. CASE Remember(e, "finishing", "executor", 0, 0, FALSE)
    BY <1>1, <1>2, <2>3, RememberType DEF Phases
  <2>4. CASE done # Tasks /\ Request(e, "executor", NextTask)
    BY <2>1, <2>4, RequestType DEF Phases
  <2> QED BY <1>6, <2>2, <2>3, <2>4 DEF TickExecute
<1> QED BY <1>3, <1>4, <1>5, <1>6 DEF Tick

\* The receipt of an answer, written before the answer is looked at.
LEMMA ReceiveType ==
    ASSUME IInv, NEW e \in Engines, NEW state \in CallStates, Receive(e, state)
    PROVE  /\ calls' \in [CallIds -> Calls] /\ staged' \in 0 .. MaxModelCalls
           /\ disposition' \in {"none", "running", "paused", "cancelled"}
           /\ pc' \in [Engines -> PCs] /\ ctx' \in [Engines -> Work] /\ RequestInRange'
           /\ UNCHANGED <<ncalls, resumeCall, history>>
<1>1. calls' \in [CallIds -> Calls]
  BY SetCallType DEF IInv, Receive
<1>2. "idle" \in PCs
  BY DEF PCs
<1>3. pc' \in [Engines -> PCs] /\ ctx' \in [Engines -> Work] /\ RequestInRange'
  BY <1>2, WorkersType DEF Receive
<1>4. staged' \in 0 .. MaxModelCalls
  BY ConstantsAssumption DEF IInv, TypeOK, Receive
<1> QED BY <1>1, <1>3, <1>4 DEF Receive, history

\* A received answer that moves the Run to a status and leaves the rest in its ranges.
LEMMA AnswerType ==
    ASSUME IInv, NEW e \in Engines, NEW state \in CallStates, Receive(e, state),
           /\ status' \in Statuses
           /\ resumeStatus' \in Statuses \cup {"none"}
           /\ plan' \in Nat /\ approved' \in Nat
           /\ feedback' \in BOOLEAN /\ repair' \subseteq {"planner", "reviewer"}
           /\ done' \subseteq Tasks /\ output' \in BOOLEAN /\ preserved' \in BOOLEAN
           /\ revisions' \in 0 .. 2
           /\ tool' \in Tools
           /\ action' \in [status : {"none", "pending", "approved", "denied"},
                           key : 0 .. MaxModelCalls]
    PROVE  IInv'
BY ReceiveType DEF IInv, TypeOK, history

\* The parts of the state an answer of one phase leaves alone.
LEMMA KeptTypes ==
    ASSUME TypeOK
    PROVE  /\ UNCHANGED planning => /\ plan' \in Nat /\ approved' \in Nat
                                    /\ feedback' \in BOOLEAN
                                    /\ repair' \subseteq {"planner", "reviewer"}
           /\ UNCHANGED work => /\ done' \subseteq Tasks /\ output' \in BOOLEAN
                                /\ preserved' \in BOOLEAN /\ revisions' \in 0 .. 2
           /\ UNCHANGED external =>
                  /\ tool' \in Tools
                  /\ action' \in [status : {"none", "pending", "approved", "denied"},
                                  key : 0 .. MaxModelCalls]
BY DEF TypeOK, planning, work, external

\* The calls a tool request writes.
LEMMA RequestedTypes ==
    ASSUME TypeOK
    PROVE  /\ NoTool \in Tools
           /\ [NoTool EXCEPT !.key = ncalls] \in Tools
           /\ [status |-> "pending", key |-> ncalls]
                  \in [status : {"none", "pending", "approved", "denied"}, key : 0 .. MaxModelCalls]
<1>1. NoTool \in Tools /\ ncalls \in 0 .. MaxModelCalls
  BY ConstantsAssumption DEF TypeOK, NoTool, Tools, Receipts
<1> QED BY <1>1 DEF Tools

LEMMA AnswerStepType ==
    ASSUME IInv, NEW e \in Engines, Answer(e)
    PROVE  IInv'
<1> USE DEF IInv
<1>1. /\ {"completed", "discarded", "failed", "unknown"} \subseteq CallStates
      /\ {"running", "failed", "needs_approval", "needs_input", "succeeded"} \subseteq Statuses
      /\ Base \in Statuses
  BY StatusTypes DEF CallStates, Statuses, Runnable, Terminal
<1>2. {"throwing", "idle"} \subseteq PCs /\ "throwing" # "reserve"
  BY DEF PCs
<1>3. CASE AnswerDiscarded(e)
  <2>1. status' \in Statuses /\ resumeStatus' \in Statuses \cup {"none"}
    BY <1>3 DEF AnswerDiscarded, TypeOK
  <2> QED BY <1>1, <1>3, <2>1, AnswerType, KeptTypes DEF AnswerDiscarded
<1>4. CASE AnswerPlan(e)
  <2>1. status' \in Statuses /\ resumeStatus' \in Statuses \cup {"none"}
    BY <1>1, <1>4, LandType DEF AnswerPlan
  <2>2. plan' \in Nat /\ approved' \in Nat
    BY <1>4 DEF AnswerPlan, TypeOK
  <2>3. /\ feedback' \in BOOLEAN /\ repair' \subseteq {"planner", "reviewer"}
        /\ done' \subseteq Tasks /\ output' \in BOOLEAN /\ preserved' \in BOOLEAN
        /\ revisions' \in 0 .. 2
    BY <1>4 DEF AnswerPlan, TypeOK
  <2> QED BY <1>1, <1>4, <2>1, <2>2, <2>3, AnswerType, KeptTypes DEF AnswerPlan, Answered
<1>5. CASE AnswerStep(e)
  <2>1. status' \in Statuses /\ resumeStatus' \in Statuses \cup {"none"}
    BY <1>1, <1>5, LandType DEF AnswerStep
  <2> QED BY <1>1, <1>5, <2>1, AnswerType, KeptTypes DEF AnswerStep, Answered
<1>6. CASE AnswerQuestion(e)
  <2>1. status' \in Statuses /\ resumeStatus' \in Statuses \cup {"none"}
    BY <1>1, <1>6, LandType DEF AnswerQuestion
  <2> QED BY <1>1, <1>6, <2>1, AnswerType, KeptTypes DEF AnswerQuestion, Answered
<1>7. ASSUME NEW phase \in {"planner", "reviewer"}, AnswerMalformed(e, phase) PROVE IInv'
  <2>1. status' \in Statuses /\ resumeStatus' \in Statuses \cup {"none"}
    BY <1>1, <1>7, LandType DEF AnswerMalformed
  <2>2. /\ plan' \in Nat /\ approved' \in Nat /\ feedback' \in BOOLEAN
        /\ repair' \subseteq {"planner", "reviewer"}
    BY <1>7 DEF AnswerMalformed, TypeOK
  <2> QED BY <1>1, <1>7, <2>1, <2>2, AnswerType, KeptTypes DEF AnswerMalformed, Answered
<1>8. CASE AnswerFinish(e)
  <2>1. status' \in Statuses /\ resumeStatus' \in Statuses \cup {"none"}
    BY <1>1, <1>8, LandType DEF AnswerFinish
  <2>2. ctx[e].task \in Tasks
    BY <1>8 DEF AnswerFinish, Answered, Asking, RequestInRange
  <2>3. /\ done' \subseteq Tasks /\ output' \in BOOLEAN /\ preserved' \in BOOLEAN
        /\ revisions' \in 0 .. 2
    BY <1>8, <2>2 DEF AnswerFinish, TypeOK
  <2> QED BY <1>1, <1>8, <2>1, <2>3, AnswerType, KeptTypes DEF AnswerFinish, Answered
<1>9. CASE AnswerTool(e)
  <2>1. status' \in Statuses /\ resumeStatus' \in Statuses \cup {"none"}
    BY <1>1, <1>9, LandType DEF AnswerTool
  <2>2. /\ tool' \in Tools
        /\ action' \in [status : {"none", "pending", "approved", "denied"},
                        key : 0 .. MaxModelCalls]
    BY <1>9, RequestedTypes DEF AnswerTool, TypeOK
  <2> QED BY <1>1, <1>9, <2>1, <2>2, AnswerType, KeptTypes DEF AnswerTool, Answered
<1>10. CASE AnswerReview(e)
  <2>1. status' \in Statuses /\ resumeStatus' \in Statuses \cup {"none"}
    BY <1>1, <1>10, LandType DEF AnswerReview
  <2>2. revisions' \in 0 .. 2
    BY <1>10 DEF AnswerReview, TypeOK
  <2>3. /\ plan' \in Nat /\ approved' \in Nat /\ feedback' \in BOOLEAN
        /\ repair' \subseteq {"planner", "reviewer"}
        /\ done' \subseteq Tasks /\ output' \in BOOLEAN /\ preserved' \in BOOLEAN
    BY <1>10 DEF AnswerReview, TypeOK
  <2> QED BY <1>1, <1>10, <2>1, <2>2, <2>3, AnswerType, KeptTypes DEF AnswerReview, Answered
<1>11. CASE AnswerFails(e)
  <2>1. calls' \in [CallIds -> Calls]
    BY <1>1, <1>11, SetCallType DEF AnswerFails
  <2>2. pc' \in [Engines -> PCs] /\ RequestInRange'
    BY <1>2, <1>11, WorkersType DEF AnswerFails
  <2> QED BY <1>11, <2>1, <2>2 DEF AnswerFails, TypeOK, lifecycle, planning, work, external, history
<1>12. CASE AnswerLost(e)
  <2>1. calls' \in [CallIds -> Calls]
    BY <1>1, <1>12, SetCallType DEF AnswerLost
  <2>2. pc' \in [Engines -> PCs] /\ ctx' \in [Engines -> Work] /\ RequestInRange'
    BY <1>2, <1>12, WorkersType DEF AnswerLost, TypeOK
  <2>3. /\ status' \in Statuses /\ resumeStatus' \in Statuses \cup {"none"}
        /\ disposition' \in {"none", "running", "paused", "cancelled"} /\ preserved' \in BOOLEAN
    BY <1>1, <1>12 DEF AnswerLost, TypeOK, Preserve, Statuses
  <2> QED BY <1>12, <2>1, <2>2, <2>3 DEF AnswerLost, TypeOK, planning, external, history
<1> QED BY <1>3, <1>4, <1>5, <1>6, <1>7, <1>8, <1>9, <1>10, <1>11, <1>12 DEF Answer

\* A step of an engine that keeps its snapshot, or drops it, and writes the Run's
\* status, its calls or its pending tool.
LEMMA QuietType ==
    ASSUME IInv, NEW e \in Engines, NEW p \in PCs,
           \/ Rest(e)
           \/ Goto(e, p) /\ UNCHANGED ctx /\ p # "reserve" /\ (p = "asking" => pc[e] = "reserve"),
           status' \in Statuses, resumeStatus' \in Statuses \cup {"none"},
           disposition' \in {"none", "running", "paused", "cancelled"},
           calls' \in [CallIds -> Calls], ncalls' \in 0 .. MaxModelCalls,
           resumeCall' \in 0 .. MaxModelCalls, tool' \in Tools, invoked' \in [CallIds -> Nat],
           repeated' \in BOOLEAN,
           UNCHANGED <<planning, work, staged, action, faults>>
    PROVE  IInv'
<1>1. pc' \in [Engines -> PCs] /\ ctx' \in [Engines -> Work] /\ RequestInRange'
  BY WorkersType DEF IInv, TypeOK
<1> QED BY <1>1 DEF IInv, TypeOK, planning, work

\* The pending call keeps its form when its receipt or its attempt changes.
LEMMA ToolTypes ==
    ASSUME TypeOK, NEW t \in Engines \cup {NoEngine}, NEW b \in BOOLEAN, NEW r \in Receipts
    PROVE  /\ [tool EXCEPT !.token = t] \in Tools
           /\ [tool EXCEPT !.inFlight = b] \in Tools
           /\ [tool EXCEPT !.receipt = r, !.token = t, !.inFlight = b] \in Tools
           /\ [NoTool EXCEPT !.key = tool.key, !.receipt = r] \in Tools
<1>1. tool \in Tools /\ NoTool \in Tools
  BY RequestedTypes DEF TypeOK
<1>2. [tool EXCEPT !.receipt = r] \in Tools
  BY <1>1 DEF Tools
<1>3. [[tool EXCEPT !.receipt = r] EXCEPT !.token = t] \in Tools
  BY <1>2 DEF Tools
<1>4. [[[tool EXCEPT !.receipt = r] EXCEPT !.token = t] EXCEPT !.inFlight = b] \in Tools
  BY <1>3 DEF Tools
<1>5. [NoTool EXCEPT !.key = tool.key] \in Tools
  BY <1>1 DEF Tools
<1>6. [[NoTool EXCEPT !.key = tool.key] EXCEPT !.receipt = r] \in Tools
  BY <1>5 DEF Tools
<1>7. [tool EXCEPT !.token = t] \in Tools /\ [tool EXCEPT !.inFlight = b] \in Tools
  BY <1>1 DEF Tools
<1> QED BY <1>4, <1>6, <1>7

LEMMA RequestStepType ==
    ASSUME IInv, NEW e \in Engines,
           \/ PreflightFails(e) \/ Reserve(e) \/ FinishExecution(e) \/ Throw(e) \/ Exhausted(e)
    PROVE  IInv'
<1> USE DEF IInv
<1>1. /\ {"throwing", "asking", "idle"} \subseteq PCs
      /\ {"throwing", "idle"} \cap {"reserve", "asking"} = {} /\ "asking" # "reserve"
  BY DEF PCs
<1>2. {"failed", "succeeded", "reviewing", "planning"} \subseteq Statuses
  BY DEF Statuses, Runnable, Terminal
<1>3. CASE PreflightFails(e)
  BY <1>1, <1>3, QuietType DEF PreflightFails, TypeOK, lifecycle, models, external, history
<1>4. CASE Reserve(e)
  <2>1. ctx[e].call \in CallIds /\ ctx[e].phase \in Phases \cup {"none", "tool"}
        /\ ctx[e].task \in 0 .. NumTasks
    BY <1>4 DEF Reserve, RequestInRange, TypeOK, Work
  <2>2. CASE Rest(e) /\ UNCHANGED <<lifecycle, models>>
    BY <1>1, <1>4, <2>2, QuietType DEF Reserve, TypeOK, lifecycle, models, external, history
  <2>3. CASE Goto(e, "throwing") /\ UNCHANGED <<lifecycle, models, ctx>>
    BY <1>1, <1>4, <2>3, QuietType DEF Reserve, TypeOK, lifecycle, models, external, history
  <2>4. CASE Goto(e, "asking") /\ calls' = [calls EXCEPT ![ctx[e].call] = CallStarted(e)]
    <3>1. CallStarted(e) \in Calls
      <4>1. ctx[e].phase \in Phases
        BY <1>4 DEF Reserve, RequestInRange
      <4> QED BY <2>1, <4>1 DEF CallStarted, Calls, CallStates
    <3>2. calls' \in [CallIds -> Calls]
      BY <2>4, <3>1 DEF TypeOK
    <3>3. ncalls' \in 0 .. MaxModelCalls /\ resumeCall' \in 0 .. MaxModelCalls
      <4>1. \/ UNCHANGED <<ncalls, resumeCall>>
            \/ ncalls' \in {ncalls, ctx[e].call} /\ resumeCall' = 0
        BY <1>4 DEF Reserve, models
      <4> QED BY <2>1, <4>1, ConstantsAssumption DEF TypeOK, CallIds
    <3>4. /\ status' \in Statuses /\ resumeStatus' \in Statuses \cup {"none"}
          /\ UNCHANGED <<disposition, staged>>
      BY <1>2, <1>4 DEF Reserve, TypeOK, lifecycle, models
    <3>5. UNCHANGED ctx /\ pc[e] = "reserve" /\ UNCHANGED <<planning, work, external, invoked, faults>>
      <4>1. "asking" \notin {"idle", "throwing"}
        OBVIOUS
      <4>2. pc'[e] = "asking"
        BY <2>4 DEF Goto, TypeOK
      <4> QED BY <1>4, <4>1, <4>2 DEF Reserve, Rest, Goto, TypeOK
    <3>6. repeated' \in BOOLEAN
      BY <1>4 DEF Reserve, TypeOK
    <3> QED BY <1>1, <2>4, <3>2, <3>3, <3>4, <3>5, <3>6, QuietType DEF TypeOK, external
  <2> QED BY <1>4, <2>2, <2>3, <2>4 DEF Reserve
<1>5. CASE FinishExecution(e)
  <2>1. pc' \in [Engines -> PCs] /\ ctx' \in [Engines -> Work] /\ RequestInRange'
    BY <1>1, <1>5, WorkersType DEF FinishExecution
  <2> QED BY <1>2, <1>5, <2>1
          DEF FinishExecution, TypeOK, Preserve, planning, models, external, history
<1>6. CASE Throw(e)
  <2>1. status' \in Statuses /\ resumeStatus' \in Statuses \cup {"none"}
    BY <1>2, <1>6, LandType DEF Throw, TypeOK
  <2> QED BY <1>1, <1>6, <2>1, QuietType DEF Throw, TypeOK, models, external, history
<1>7. CASE Exhausted(e)
  <2>1. pc' \in [Engines -> PCs] /\ ctx' \in [Engines -> Work] /\ RequestInRange'
    BY <1>1, <1>7, WorkersType DEF Exhausted
  <2>2. status' \in Statuses /\ resumeStatus' \in Statuses \cup {"none"}
    BY <1>2, <1>7, LandType DEF Exhausted, Preserve, TypeOK
  <2>3. done' \subseteq Tasks /\ output' \in BOOLEAN /\ preserved' \in BOOLEAN
    BY <1>7 DEF Exhausted, Preserve, TypeOK
  <2> QED BY <1>7, <2>1, <2>2, <2>3
          DEF Exhausted, TypeOK, planning, models, external, history
<1> QED BY <1>3, <1>4, <1>5, <1>6, <1>7

LEMMA ToolStepType ==
    ASSUME IInv, NEW e \in Engines,
           \/ Claim(e) \/ RecheckFails(e) \/ Invoke(e) \/ SettleStale(e)
           \/ \E result \in {"completed", "failed", "unknown"} : SettleTool(e, result)
    PROVE  IInv'
<1> USE DEF IInv
<1>1. /\ {"claimed", "invoking", "idle"} \subseteq PCs
      /\ {"claimed", "invoking", "idle"} \cap {"reserve", "asking"} = {}
  BY DEF PCs
<1>2. FALSE \in BOOLEAN /\ "unknown" \in Receipts /\ {"failed", "running", "unknown"} \subseteq Statuses
  BY DEF Receipts, Statuses, Runnable, Terminal
<1>3. CASE Claim(e)
  <2>1. tool' = [tool EXCEPT !.token = e] \/ UNCHANGED tool
    BY <1>3 DEF Claim, ClaimTool
  <2>2. [tool EXCEPT !.token = e] \in Tools
    BY <1>2, ToolTypes
  <2>3. tool' \in Tools
    BY <2>1, <2>2 DEF TypeOK
  <2> QED BY <1>1, <1>3, <2>3, QuietType
          DEF Claim, ClaimTool, TypeOK, lifecycle, models, history
<1>4. CASE RecheckFails(e)
  <2>1. tool' \in Tools
    BY <1>2, <1>4, ToolTypes DEF RecheckFails
  <2> QED BY <1>1, <1>4, <2>1, QuietType DEF RecheckFails, TypeOK, lifecycle, models, history
<1>5. CASE Invoke(e)
  <2>1. invoked' \in [CallIds -> Nat]
    BY <1>5 DEF Invoke, TypeOK
  <2> QED BY <1>1, <1>5, <2>1, QuietType DEF Invoke, TypeOK, lifecycle, models, external
<1>6. CASE SettleStale(e)
  BY <1>1, <1>6, QuietType DEF SettleStale, TypeOK, lifecycle, models, external, history
<1>7. ASSUME NEW result \in {"completed", "failed", "unknown"}, SettleTool(e, result)
      PROVE  IInv'
  <2>1. tool' \in Tools
    BY <1>2, <1>7, ToolTypes, RequestedTypes DEF SettleTool
  <2>2. status' \in Statuses /\ resumeStatus' \in Statuses \cup {"none"}
    BY <1>2, <1>7, LandType DEF SettleTool, TypeOK
  <2> QED BY <1>1, <1>7, <2>1, <2>2, QuietType DEF SettleTool, TypeOK, models, history
<1> QED BY <1>3, <1>4, <1>5, <1>6, <1>7

LEMMA RestartStepType ==
    ASSUME IInv, NEW e \in Engines, Crash(e) \/ Restart(e) \/ Recover(e) \/ Requeue(e)
    PROVE  IInv'
<1> USE DEF IInv
<1>1. /\ {"down", "recovering", "requeueing", "idle"} \subseteq PCs
      /\ {"down", "recovering", "requeueing", "idle"} \cap {"reserve", "asking"} = {}
  BY DEF PCs
<1>2. Runnable \cup {"running", "unknown"} \subseteq Statuses
  BY DEF Statuses, Runnable
<1>3. CASE Crash(e)
  <2>1. NoWork \in Work
    BY ConstantsAssumption DEF NoWork, Work, Phases, Receipts
  <2>2. pc' \in [Engines -> PCs] /\ ctx' \in [Engines -> Work] /\ RequestInRange'
    BY <1>1, <1>3, <2>1 DEF Crash, Goto, TypeOK, RequestInRange
  <2> QED BY <1>3, <2>2 DEF Crash, TypeOK, lifecycle, planning, work, models, external
<1>4. CASE Restart(e)
  BY <1>1, <1>4, QuietType DEF Restart, TypeOK, lifecycle, models, external, history
<1>5. CASE Recover(e)
  <2>1. calls' \in [CallIds -> Calls]
    <3>1. \A c \in CallIds : [calls[c] EXCEPT !.state = "unknown"] \in Calls
      BY DEF TypeOK, Calls, CallStates
    <3> QED BY <1>5, <3>1 DEF Recover, TypeOK
  <2>2. tool' \in Tools
    <3> DEFINE r == IF tool.token # NoEngine /\ tool.receipt = "none"
                    THEN "interrupted" ELSE tool.receipt
    <3>1. r \in Receipts /\ FALSE \in BOOLEAN
      BY DEF TypeOK, Tools, Receipts
    <3>2. tool' = [tool EXCEPT !.receipt = r, !.token = NoEngine, !.inFlight = FALSE]
      BY <1>5 DEF Recover
    <3> QED
      <4> HIDE DEF r
      <4> QED BY <3>1, <3>2, ToolTypes
  <2>3. status' \in Statuses /\ resumeStatus' \in Statuses \cup {"none"}
    BY <1>2, <1>5, StatusTypes DEF Recover, TypeOK
  <2>4. disposition' \in {"none", "running", "paused", "cancelled"}
    BY <1>5 DEF Recover, TypeOK
  <2> QED BY <1>1, <1>5, <2>1, <2>2, <2>3, <2>4, QuietType DEF Recover, TypeOK, history
<1>6. CASE Requeue(e)
  <2>1. status' \in Statuses /\ resumeStatus' \in Statuses \cup {"none"}
    BY <1>2, <1>6 DEF Requeue, TypeOK
  <2> QED BY <1>1, <1>6, <2>1, QuietType DEF Requeue, TypeOK, models, external, history
<1> QED BY <1>3, <1>4, <1>5, <1>6

\* A command changes the Run and no engine.
LEMMA CommandType ==
    ASSUME IInv, UNCHANGED <<workers, history>>,
           status' \in Statuses, resumeStatus' \in Statuses \cup {"none"},
           disposition' \in {"none", "running", "paused", "cancelled"},
           plan' \in Nat, approved' \in Nat, feedback' \in BOOLEAN,
           repair' \subseteq {"planner", "reviewer"},
           done' \subseteq Tasks, UNCHANGED <<output, revisions, ncalls>>, preserved' \in BOOLEAN,
           calls' \in [CallIds -> Calls],
           resumeCall' \in 0 .. MaxModelCalls, staged' \in 0 .. MaxModelCalls,
           tool' \in Tools,
           action' \in [status : {"none", "pending", "approved", "denied"}, key : 0 .. MaxModelCalls]
    PROVE  IInv'
<1>1. RequestInRange'
  BY DEF IInv, RequestInRange, workers
<1> QED BY <1>1 DEF IInv, TypeOK, workers, history

LEMMA CommandStepType ==
    ASSUME IInv,
           \/ Approve \/ ApproveAction \/ DenyAction \/ RevisePlan \/ EditPlan \/ AnswerOwner
           \/ Pause \/ Resume \/ Cancel \/ Retry \/ Reconcile \/ Replan
    PROVE  IInv'
<1> USE DEF IInv
<1>1. /\ {"running", "planning", "paused", "cancelled"} \subseteq Statuses
      /\ Resumed \in Statuses /\ Restarted \in Statuses
  BY StatusTypes DEF Statuses, Runnable, Terminal
<1>2. CASE Approve
  BY <1>1, <1>2, CommandType DEF Approve, TypeOK, work, models, external
<1>3. CASE ApproveAction \/ DenyAction
  <2>1. /\ tool' \in Tools
        /\ action' \in [status : {"none", "pending", "approved", "denied"},
                        key : 0 .. MaxModelCalls]
    BY <1>3, RequestedTypes DEF ApproveAction, DenyAction, TypeOK
  <2> QED BY <1>1, <1>3, <2>1, CommandType
          DEF ApproveAction, DenyAction, TypeOK, planning, work, models
<1>4. CASE RevisePlan
  BY <1>1, <1>4, CommandType DEF RevisePlan, TypeOK, work, models, external
<1>5. CASE EditPlan
  <2>1. plan' \in Nat
    BY <1>5 DEF EditPlan, TypeOK
  <2> QED BY <1>5, <2>1, CommandType DEF EditPlan, TypeOK, lifecycle, models, external
<1>6. CASE AnswerOwner \/ Pause \/ Resume \/ Cancel \/ Retry
  <2>1. /\ status' \in Statuses /\ resumeStatus' \in Statuses \cup {"none"}
        /\ UNCHANGED <<disposition, planning, work, models, external, workers, history>>
    BY <1>1, <1>6 DEF AnswerOwner, Pause, Resume, Cancel, Retry, SetStatus, TypeOK
  <2> QED BY <2>1, CommandType DEF TypeOK, planning, work, models, external
<1>7. CASE Reconcile
  <2>1. resumeCall' \in 0 .. MaxModelCalls
    <3>1. Unknown \subseteq 0 .. MaxModelCalls
      BY DEF Unknown, CallsIn, CallIds
    <3> QED BY <1>7, <3>1 DEF Reconcile, TypeOK
  <2> QED BY <1>1, <1>7, <2>1, CommandType DEF Reconcile, TypeOK, planning, work, external
<1>8. CASE Replan
  BY <1>1, <1>8, CommandType DEF Replan, TypeOK, work, models, external
<1> QED BY <1>2, <1>3, <1>4, <1>5, <1>6, <1>7, <1>8

LEMMA ReconcileStepType ==
    ASSUME IInv,
           \/ Terminalize
           \/ \E c \in CallIds :
                 SettleClosedCall(c) \/ ReconcileCallFailed(c) \/ ReconcileCallCompleted(c)
           \/ \E e \in Engines : ReconcileCancelled(e)
    PROVE  IInv'
<1> USE DEF IInv
<1>1. {"running", "paused", "failed", "cancelled", "succeeded"} \subseteq Statuses
  BY DEF Statuses, Runnable, Terminal
<1>2. Resumed \in Statuses /\ {"discarded", "failed"} \subseteq CallStates
  BY StatusTypes DEF CallStates
<1>3. CASE Terminalize
  <2>1. \A c \in CallIds : [calls[c] EXCEPT !.state = "unknown"] \in Calls
    BY DEF TypeOK, Calls, CallStates
  <2>2. calls' \in [CallIds -> Calls]
    BY <1>3, <2>1 DEF Terminalize, TypeOK
  <2> QED BY <1>1, <1>3, <2>2, CommandType
          DEF Terminalize, Preserve, TypeOK, planning, external
<1>4. ASSUME NEW c \in CallIds, SettleClosedCall(c) PROVE IInv'
  <2>1. calls' \in [CallIds -> Calls]
    BY <1>2, <1>4, SetCallType DEF SettleClosedCall
  <2> QED BY <1>4, <2>1, CommandType DEF SettleClosedCall, TypeOK, planning, work, external
<1>5. ASSUME NEW c \in CallIds, ReconcileCallFailed(c) PROVE IInv'
  <2>1. calls' \in [CallIds -> Calls]
    BY <1>2, <1>5, SetCallType DEF ReconcileCallFailed
  <2>2. 0 \in 0 .. MaxModelCalls
    BY ConstantsAssumption
  <2> QED BY <1>1, <1>5, <2>1, <2>2, CommandType
          DEF ReconcileCallFailed, TypeOK, planning, work, external
<1>6. ASSUME NEW c \in CallIds, ReconcileCallCompleted(c) PROVE IInv'
  <2>1. calls' \in [CallIds -> Calls]
    BY <1>2, <1>6, SetCallType DEF ReconcileCallCompleted, TypeOK
  <2>2. c \in 0 .. MaxModelCalls /\ 0 \in 0 .. MaxModelCalls
    BY ConstantsAssumption DEF CallIds
  <2>3. /\ status' \in Statuses /\ resumeStatus' \in Statuses \cup {"none"}
        /\ disposition' \in {"none", "running", "paused", "cancelled"}
        /\ resumeCall' \in 0 .. MaxModelCalls /\ staged' \in 0 .. MaxModelCalls
    BY <1>1, <1>2, <1>6, <2>2 DEF ReconcileCallCompleted, TypeOK
  <2> QED BY <1>6, <2>1, <2>3, CommandType
          DEF ReconcileCallCompleted, TypeOK, planning, work, external
<1>7. ASSUME NEW e \in Engines, ReconcileCancelled(e) PROVE IInv'
  <2> DEFINE w == [phase |-> "tool", task |-> 0, call |-> tool.key,
                   fresh |-> FALSE, staged |-> FALSE, receipt |-> tool.receipt]
  <2>1. w \in Work
    <3>1. tool.key \in Nat /\ tool.receipt \in Receipts
      BY ConstantsAssumption DEF TypeOK, Tools
    <3>3. 0 \in 0 .. NumTasks
      BY ConstantsAssumption
    <3> QED BY <3>1, <3>3 DEF Work
  <2>2. "recheck" \in PCs /\ "recheck" \notin {"reserve", "asking"}
    BY DEF PCs
  <2>3. pc' = [pc EXCEPT ![e] = "recheck"] /\ ctx' = [ctx EXCEPT ![e] = w]
    BY <1>7 DEF ReconcileCancelled, Goto
  <2>4. tool' \in Tools
    <3>1. [tool EXCEPT !.inFlight = TRUE] \in Tools
      BY DEF TypeOK, Tools
    <3> QED BY <1>7, <3>1 DEF ReconcileCancelled
  <2> HIDE DEF w
  <2>5. pc' \in [Engines -> PCs] /\ ctx' \in [Engines -> Work] /\ RequestInRange'
    BY <2>1, <2>2, <2>3 DEF TypeOK, RequestInRange
  <2> QED BY <1>7, <2>4, <2>5
          DEF ReconcileCancelled, TypeOK, lifecycle, planning, work, models, history
<1> QED BY <1>3, <1>4, <1>5, <1>6, <1>7

LEMMA InitType == Init => IInv
<1>1. NoWork \in Work /\ NoCall \in Calls /\ NoTool \in Tools
  BY ConstantsAssumption
     DEF NoWork, Work, NoCall, Calls, NoTool, Tools, Phases, Receipts, CallStates
<1>2. 0 \in 0 .. MaxModelCalls /\ "idle" \in PCs /\ "queued" \in Statuses
  BY ConstantsAssumption DEF PCs, Statuses, Runnable
<1> SUFFICES ASSUME Init PROVE IInv
  OBVIOUS
<1>3. action \in [status : {"none", "pending", "approved", "denied"}, key : 0 .. MaxModelCalls]
  BY <1>2 DEF Init
<1>4. /\ calls \in [CallIds -> Calls] /\ invoked \in [CallIds -> Nat]
      /\ pc \in [Engines -> PCs] /\ ctx \in [Engines -> Work]
  BY <1>1, <1>2 DEF Init
<1>5. RequestInRange
  BY DEF Init, RequestInRange
<1>6. /\ plan \in Nat /\ approved \in Nat /\ faults \in Nat /\ revisions \in 0 .. 2
      /\ ncalls \in 0 .. MaxModelCalls /\ resumeCall \in 0 .. MaxModelCalls
      /\ staged \in 0 .. MaxModelCalls
  BY <1>2 DEF Init
<1>7. feedback \in BOOLEAN /\ output \in BOOLEAN /\ preserved \in BOOLEAN /\ repeated \in BOOLEAN
  BY DEF Init
<1>8. /\ status \in Statuses /\ resumeStatus \in Statuses \cup {"none"}
      /\ disposition \in {"none", "running", "paused", "cancelled"}
      /\ repair \subseteq {"planner", "reviewer"} /\ done \subseteq Tasks /\ tool \in Tools
  BY <1>1, <1>2 DEF Init
<1> QED BY <1>3, <1>4, <1>5, <1>6, <1>7, <1>8 DEF IInv, TypeOK

LEMMA StepType == IInv /\ [Next]_vars => IInv'
<1> SUFFICES ASSUME IInv, [Next]_vars PROVE IInv'
  OBVIOUS
<1>1. ASSUME NEW e \in Engines, EngineStep(e) PROVE IInv'
  BY <1>1, TickType, RequestStepType, AnswerStepType, ToolStepType, RestartStepType DEF EngineStep
<1>2. ASSUME NEW e \in Engines, Crash(e) PROVE IInv'
  BY <1>2, RestartStepType
<1>3. CASE OwnerStep
  BY <1>3, CommandStepType, ReconcileStepType DEF OwnerStep
<1>4. CASE UNCHANGED vars
  BY <1>4 DEF IInv, TypeOK, RequestInRange, vars,
              lifecycle, planning, work, models, external, workers, history
<1> QED BY <1>1, <1>2, <1>3, <1>4 DEF Next

LEMMA TypeInvariant == Spec => []IInv
BY InitType, StepType, PTL DEF Spec

\* Every reachable state of a Run is well typed: the model-call budget is never
\* overspent and no answer, command or recovery leaves an unknown status behind.
THEOREM TypeCorrect == Spec => []TypeOK
BY TypeInvariant, PTL DEF IInv

-----------------------------------------------------------------------------
(* Model requests: one at a time, and never one nobody waits for *)

\* Settling a call takes it from the started ones and adds none.
LEMMA SetCallSettles ==
    ASSUME TypeOK, NEW c, NEW state \in CallStates, state # "started", SetCall(c, state)
    PROVE  Started' \subseteq Started \ {c}
<1>1. calls \in [CallIds -> Calls]
  BY DEF TypeOK
<1>2. \A d \in CallIds : d # c => calls'[d] = calls[d]
  BY <1>1 DEF SetCall
<1>3. c \in CallIds => calls'[c].state = state
  BY <1>1 DEF SetCall, Calls
<1> QED BY <1>2, <1>3 DEF Started, CallsIn

\* An answer settles the call its engine asked.
LEMMA AnswerSettles ==
    ASSUME TypeOK, NEW e \in Engines, Answer(e)
    PROVE  Started' \subseteq Started \ {ctx[e].call}
<1>1. \E state \in CallStates : state # "started" /\ SetCall(ctx[e].call, state)
  <2>1. /\ {"completed", "discarded", "failed", "unknown"} \subseteq CallStates
        /\ "started" \notin {"completed", "discarded", "failed", "unknown"}
    BY DEF CallStates
  <2>2. \E state \in {"completed", "discarded", "failed", "unknown"} : SetCall(ctx[e].call, state)
    BY DEF Answer, AnswerDiscarded, AnswerPlan, AnswerStep, AnswerQuestion, AnswerMalformed,
           AnswerFinish, AnswerTool, AnswerReview, AnswerFails, AnswerLost, Answered, Receive
  <2> QED BY <2>1, <2>2
<1> QED BY <1>1, SetCallSettles

\* A reservation that is made is the only request under way.
LEMMA ReserveStarts ==
    ASSUME TypeOK, NEW e \in Engines, Reserve(e)
    PROVE  \/ UNCHANGED calls
           \/ Started' \subseteq {ctx[e].call} /\ pc'[e] = "asking" /\ UNCHANGED ctx
<1>1. CASE calls' = [calls EXCEPT ![ctx[e].call] = CallStarted(e)]
           /\ Started \ {ctx[e].call} = {} /\ Goto(e, "asking") /\ UNCHANGED ctx
  <2>1. \A d \in CallIds : d # ctx[e].call => calls'[d] = calls[d]
    BY <1>1 DEF TypeOK
  <2>2. Started' \subseteq {ctx[e].call}
    BY <1>1, <2>1 DEF Started, CallsIn
  <2> QED BY <1>1, <2>2 DEF Goto, TypeOK
<1> QED BY <1>1 DEF Reserve, models

\* Recovery and terminalization leave no call started.
LEMMA SweepSettles ==
    ASSUME TypeOK, Terminalize \/ \E e \in Engines : Recover(e)
    PROVE  Started' = {}
<1>1. calls' = [c \in CallIds |->
          IF c \in Started THEN [calls[c] EXCEPT !.state = "unknown"] ELSE calls[c]]
  BY DEF Terminalize, Recover
<1>2. ASSUME NEW c \in CallIds PROVE calls'[c].state # "started"
  <2>1. calls[c] \in Calls
    BY DEF TypeOK
  <2>2. CASE c \in Started
    BY <1>1, <2>1, <2>2 DEF Calls
  <2>3. CASE c \notin Started
    BY <1>1, <2>3 DEF Started, CallsIn
  <2> QED BY <2>2, <2>3
<1> QED BY <1>2 DEF Started, CallsIn

\* The owner and the operators start no model request.
LEMMA CommandSettles ==
    ASSUME TypeOK, OwnerStep
    PROVE  Started' \subseteq Started
<1>1. CASE UNCHANGED calls
  BY <1>1 DEF Started, CallsIn
<1>2. CASE Terminalize
  BY <1>2, SweepSettles
<1>3. CASE \E c \in CallIds : SettleClosedCall(c) \/ ReconcileCallFailed(c) \/ ReconcileCallCompleted(c)
  <2>1. UNCHANGED calls \/ \E c \in CallIds, state \in {"discarded", "failed"} : SetCall(c, state)
    BY <1>3 DEF SettleClosedCall, ReconcileCallFailed, ReconcileCallCompleted
  <2>2. {"discarded", "failed"} \subseteq CallStates /\ "started" \notin {"discarded", "failed"}
    BY DEF CallStates
  <2> QED BY <1>1, <2>1, <2>2, SetCallSettles
<1> QED BY <1>1, <1>2, <1>3
        DEF OwnerStep, Approve, ApproveAction, DenyAction, RevisePlan, EditPlan, AnswerOwner,
            Pause, Resume, Cancel, SetStatus, Retry, Reconcile, Replan, ReconcileCancelled, models

\* The other steps of an engine are not about model calls at all.
LEMMA QuietCalls ==
    ASSUME NEW e \in Engines,
           \/ Tick(e) \/ PreflightFails(e) \/ FinishExecution(e) \/ Throw(e) \/ Exhausted(e)
           \/ Claim(e) \/ RecheckFails(e) \/ Invoke(e) \/ SettleStale(e)
           \/ \E result \in {"completed", "failed", "unknown"} : SettleTool(e, result)
           \/ Crash(e) \/ Restart(e) \/ Requeue(e)
    PROVE  UNCHANGED calls
BY DEF Tick, TickTool, TickPlan, TickReview, TickExecute, Request, Remember, PreflightFails,
       FinishExecution, Throw, Exhausted, Claim, RecheckFails, Invoke, SettleStale, SettleTool,
       Crash, Restart, Requeue, models

\* What any step does to the started calls.
LEMMA StartedStep ==
    ASSUME TypeOK, [Next]_vars
    PROVE  Started' \subseteq Started \/ \E c \in Nat : Started' \subseteq {c}
<1>1. UNCHANGED calls => Started' \subseteq Started
  BY DEF Started, CallsIn
<1>2. ASSUME NEW e \in Engines, EngineStep(e) \/ Crash(e)
      PROVE  Started' \subseteq Started \/ Started' \subseteq {ctx[e].call}
  BY <1>1, <1>2, QuietCalls, ReserveStarts, AnswerSettles, SweepSettles DEF EngineStep
<1>3. \A e \in Engines : ctx[e].call \in Nat
  BY DEF TypeOK, Work
<1>4. UNCHANGED vars => UNCHANGED calls
  BY DEF vars, models
<1> QED BY <1>1, <1>2, <1>3, <1>4, CommandSettles DEF Next

\* However many engines tick one Run, and whatever crashes and commands come between
\* their snapshots and their reservations, at most one model request is under way.
THEOREM OneRequest == Spec => []AtMostOneStarted
<1>1. Init => AtMostOneStarted
  BY DEF Init, AtMostOneStarted, Started, CallsIn, NoCall
<1>2. IInv /\ AtMostOneStarted /\ [Next]_vars => AtMostOneStarted'
  BY StartedStep DEF IInv, AtMostOneStarted
<1> QED BY <1>1, <1>2, TypeInvariant, PTL DEF Spec

\* An engine's step moves no other engine.
LEMMA OthersStay ==
    ASSUME TypeOK, NEW e \in Engines, EngineStep(e) \/ Crash(e),
           NEW f \in Engines, f # e
    PROVE  pc'[f] = pc[f] /\ ctx'[f] = ctx[f]
<1>1. /\ \A p : Goto(e, p) => pc'[f] = pc[f]
      /\ \A w : ctx' = [ctx EXCEPT ![e] = w] => ctx'[f] = ctx[f]
      /\ Rest(e) => pc'[f] = pc[f] /\ ctx'[f] = ctx[f]
  BY DEF TypeOK, Goto, Rest
<1>2. CASE Tick(e)
  <2>1. \E p, w : Goto(e, p) /\ ctx' = [ctx EXCEPT ![e] = w]
    BY <1>2 DEF Tick, TickTool, TickPlan, TickReview, TickExecute, Request, Remember
  <2> QED BY <1>1, <2>1
<1>3. CASE Answer(e)
  BY <1>1, <1>3 DEF Answer, AnswerDiscarded, AnswerPlan, AnswerStep, AnswerQuestion,
         AnswerMalformed, AnswerFinish, AnswerTool, AnswerReview, AnswerFails, AnswerLost,
         Answered, Receive
<1>4. CASE PreflightFails(e) \/ Reserve(e) \/ FinishExecution(e) \/ Throw(e) \/ Exhausted(e)
  BY <1>1, <1>4 DEF PreflightFails, Reserve, FinishExecution, Throw, Exhausted
<1>5. CASE \/ Claim(e) \/ RecheckFails(e) \/ Invoke(e) \/ SettleStale(e)
           \/ \E result \in {"completed", "failed", "unknown"} : SettleTool(e, result)
  BY <1>1, <1>5 DEF Claim, ClaimTool, RecheckFails, Invoke, SettleStale, SettleTool
<1>6. CASE Crash(e) \/ Restart(e) \/ Recover(e) \/ Requeue(e)
  BY <1>1, <1>6 DEF Crash, Restart, Recover, Requeue
<1> QED BY <1>2, <1>3, <1>4, <1>5, <1>6 DEF EngineStep

\* Who a started call can count on.
Asks(e, c) == pc[e] = "asking" /\ ctx[e].call = c
Recovers(e) == pc[e] \in {"down", "recovering"}

\* The engine that moves keeps counting, or leaves no call behind that it asked.
LEMMA AskerStep ==
    ASSUME TypeOK, NEW e \in Engines, EngineStep(e) \/ Crash(e),
           NEW c \in Started', Asks(e, c) \/ Recovers(e) \/ c \notin Started
    PROVE  Asks(e, c)' \/ Recovers(e)'
<1>1. pc \in [Engines -> PCs]
  BY DEF TypeOK
<1>2. UNCHANGED calls => c \in Started
  BY DEF Started, CallsIn
<1>3. CASE Crash(e)
  BY <1>1, <1>3 DEF Crash, Goto, Recovers
<1>4. CASE Reserve(e)
  <2>1. pc[e] = "reserve"
    BY <1>4 DEF Reserve
  <2>2. ~ UNCHANGED calls
    BY <1>2, <2>1 DEF Asks, Recovers
  <2> QED BY <1>4, <2>2, ReserveStarts DEF Asks
<1>5. CASE Answer(e)
  <2>1. pc[e] = "asking"
    BY <1>5 DEF Answer, AnswerDiscarded, AnswerPlan, AnswerStep, AnswerQuestion, AnswerMalformed,
           AnswerFinish, AnswerTool, AnswerReview, AnswerFails, AnswerLost, Answered, Asking
  <2>2. c \in Started /\ c # ctx[e].call
    BY <1>5, AnswerSettles
  <2> QED BY <2>1, <2>2 DEF Asks, Recovers
<1>6. CASE Recover(e)
  BY <1>6, SweepSettles
<1>7. CASE Restart(e)
  <2>1. c \in Started
    BY <1>2, <1>7, QuietCalls
  <2> QED BY <1>1, <1>7, <2>1 DEF Restart, Goto, Recovers
<1>8. CASE \/ Tick(e) \/ PreflightFails(e) \/ FinishExecution(e) \/ Throw(e) \/ Exhausted(e)
           \/ Claim(e) \/ RecheckFails(e) \/ Invoke(e) \/ SettleStale(e)
           \/ \E result \in {"completed", "failed", "unknown"} : SettleTool(e, result)
           \/ Requeue(e)
  <2>1. c \in Started
    BY <1>2, <1>8, QuietCalls
  <2>2. pc[e] \notin {"asking", "down", "recovering"}
    BY <1>8 DEF Tick, TickTool, TickPlan, TickReview, TickExecute, CanTick, PreflightFails,
           FinishExecution, Throw, Exhausted, Claim, RecheckFails, Invoke, SettleStale,
           SettleTool, Requeue
  <2> QED BY <2>1, <2>2 DEF Asks, Recovers
<1> QED BY <1>3, <1>4, <1>5, <1>6, <1>7, <1>8 DEF EngineStep

\* A started call is never forgotten: through crashes, restarts and late answers some
\* engine is asking it, or is about to recover it, so no Run hangs on it for good.
THEOREM NoForgottenRequest == Spec => []StartedHasAsker
<1>1. Init => StartedHasAsker
  BY DEF Init, StartedHasAsker, Started, CallsIn, NoCall
<1>2. IInv /\ StartedHasAsker /\ [Next]_vars => StartedHasAsker'
  <2> SUFFICES ASSUME IInv, StartedHasAsker, [Next]_vars, NEW c \in Started'
               PROVE  \E e \in Engines : Asks(e, c)' \/ Recovers(e)'
    BY DEF StartedHasAsker, Asks, Recovers
  <2>1. c \in Started => \E e \in Engines : Asks(e, c) \/ Recovers(e)
    BY DEF StartedHasAsker, Asks, Recovers
  <2>2. ASSUME NEW f \in Engines, EngineStep(f) \/ Crash(f)
        PROVE  \E e \in Engines : Asks(e, c)' \/ Recovers(e)'
    <3>1. CASE Asks(f, c) \/ Recovers(f) \/ c \notin Started
      BY <2>2, <3>1, AskerStep DEF IInv
    <3>2. CASE \E e \in Engines \ {f} : Asks(e, c) \/ Recovers(e)
      BY <2>2, <3>2, OthersStay DEF IInv, Asks, Recovers
    <3> QED BY <2>1, <3>1, <3>2
  <2>3. CASE OwnerStep \/ UNCHANGED vars
    <3>1. c \in Started
      BY <2>3, CommandSettles DEF IInv, Started, CallsIn, vars, models
    <3>2. CASE UNCHANGED workers
      BY <2>1, <3>1, <3>2 DEF Asks, Recovers, workers
    <3>3. CASE \E e \in Engines : ReconcileCancelled(e)
      <4>1. PICK f \in Engines : ReconcileCancelled(f)
        BY <3>3
      <4>2. pc[f] = "idle"
        BY <4>1 DEF ReconcileCancelled
      <4>3. \A e \in Engines \ {f} : pc'[e] = pc[e] /\ ctx'[e] = ctx[e]
        BY <4>1 DEF ReconcileCancelled, Goto, IInv, TypeOK
      <4> QED BY <2>1, <3>1, <4>2, <4>3 DEF Asks, Recovers
    <3> QED BY <2>3, <3>2, <3>3
            DEF OwnerStep, Approve, ApproveAction, DenyAction, RevisePlan, EditPlan, AnswerOwner,
                Pause, Resume, Cancel, SetStatus, Retry, Reconcile, Replan, Terminalize,
                SettleClosedCall, ReconcileCallFailed, ReconcileCallCompleted, vars
  <2> QED BY <2>2, <2>3 DEF Next
<1> QED BY <1>1, <1>2, TypeInvariant, PTL DEF Spec

-----------------------------------------------------------------------------
(* A success is final *)

\* Late answers, stale ticks, crashes, recoveries and commands, in any number and order,
\* change neither the status nor the plan nor the work of a succeeded Run.
THEOREM SuccessIsFinal == Spec => SucceededIsFinal
<1> DEFINE Kept == status = "succeeded" => UNCHANGED <<status, resumeStatus, planning, work>>
<1>1. ASSUME [Next]_vars, status = "succeeded"
      PROVE  UNCHANGED <<status, resumeStatus, planning, work>>
  <2>1. /\ "succeeded" \in Terminal
        /\ "succeeded" \notin Runnable \cup {"needs_approval", "needs_input", "paused", "unknown",
                                             "failed", "cancelled"}
    BY DEF Terminal, Runnable
  <2>2. ASSUME NEW e \in Engines, Tick(e) \/ PreflightFails(e) \/ Reserve(e) PROVE Kept
    BY <1>1, <2>1, <2>2
       DEF Tick, TickTool, TickPlan, TickReview, TickExecute, CanTick, PreflightFails, Reserve,
           lifecycle
  <2>3. ASSUME NEW e \in Engines, Answer(e) PROVE Kept
    BY <1>1, <2>1, <2>3
       DEF Answer, AnswerDiscarded, AnswerPlan, AnswerStep, AnswerQuestion, AnswerMalformed,
           AnswerFinish, AnswerTool, AnswerReview, AnswerFails, AnswerLost, Answered, lifecycle,
           work
  <2>4. ASSUME NEW e \in Engines, FinishExecution(e) \/ Throw(e) \/ Exhausted(e) PROVE Kept
    BY <1>1, <2>1, <2>4 DEF FinishExecution, Throw, Exhausted, planning, work
  <2>5. ASSUME NEW e \in Engines,
               \/ Claim(e) \/ RecheckFails(e) \/ Invoke(e) \/ SettleStale(e)
               \/ \E result \in {"completed", "failed", "unknown"} : SettleTool(e, result)
        PROVE  Kept
    BY <1>1, <2>1, <2>5 DEF Claim, RecheckFails, Invoke, SettleStale, SettleTool, lifecycle
  <2>6. ASSUME NEW e \in Engines, Crash(e) \/ Restart(e) \/ Recover(e) \/ Requeue(e) PROVE Kept
    BY <1>1, <2>1, <2>6 DEF Crash, Restart, Recover, Requeue, lifecycle
  <2>7. CASE OwnerStep
    BY <1>1, <2>1, <2>7
       DEF OwnerStep, Approve, ApproveAction, ActionAsked, DenyAction, RevisePlan, EditPlan,
           Reviewing, AnswerOwner, Pause, Resume, Cancel, Retry, Reconcile, Replan, SetStatus,
           SettleClosedCall, ReconcileCallFailed, ReconcileCallCompleted, ReconcileCancelled,
           Terminalize, lifecycle
  <2>8. CASE UNCHANGED vars
    BY <2>8 DEF vars, lifecycle
  <2> QED BY <1>1, <2>2, <2>3, <2>4, <2>5, <2>6, <2>7, <2>8 DEF Next, EngineStep
<1>2. [Next]_vars => [Kept]_vars
  BY <1>1
<1> QED BY <1>2, PTL DEF Spec, SucceededIsFinal
-----------------------------------------------------------------------------
(* Attempts at a tool call: one at a time *)

\* No process died and no unknown call was asked again.
Plain == faults = 0 /\ ~repeated

Attempts == {"claimed", "invoking"}
OnTool == Attempts \cup {"claim", "recheck"}
Completed == CallsIn("completed")

\* The call under way is the latest, and one engine asks it.
OneAsker ==
    /\ \A e \in Engines : pc[e] = "asking" => ctx[e].call \in Started
    /\ \A e, f \in Engines : pc[e] = "asking" /\ pc[f] = "asking" => e = f
    /\ \A d \in Started : d = ncalls
    /\ \A d \in Completed : d <= ncalls
    /\ \A e \in Engines : pc[e] \notin {"down", "recovering", "requeueing"}

\* A tool's key names an answered call, so no call under way can give it out again.
KeysAnswered ==
    /\ tool.key = 0 => tool.receipt = "none"
    /\ tool.key # 0 => tool.key \in Completed
    /\ \A e \in Engines : pc[e] \in OnTool => ctx[e].call \in Completed

\* Who attempts the pending call holds its token, and nobody else attempts that call.
OneHolder ==
    \A e \in Engines : pc[e] \in Attempts =>
        /\ tool.key = ctx[e].call => tool.token = e
        /\ \A f \in Engines : pc[f] \in Attempts /\ ctx[f].call = ctx[e].call => f = e

AttemptInv == Plain => OneAsker /\ KeysAnswered /\ OneHolder

LEMMA CallNumbers == Started \subseteq Nat \ {0} /\ Completed \subseteq Nat \ {0} /\ Completed \cap Started = {}
BY ConstantsAssumption DEF Started, Completed, CallsIn, CallIds

\* A step that leaves the calls and the hold on the tool alone.
LEMMA AttemptsKept ==
    ASSUME TypeOK, OneAsker, KeysAnswered, OneHolder, NEW e \in Engines,
           \A f \in Engines \ {e} : pc'[f] = pc[f] /\ ctx'[f] = ctx[f],
           UNCHANGED <<calls, ncalls>>,
           tool'.key = tool.key, tool'.token = tool.token, tool'.receipt = tool.receipt,
           pc'[e] \notin {"asking", "down", "recovering", "requeueing"},
           \/ pc'[e] \notin OnTool
           \/ pc'[e] \notin Attempts /\ ctx'[e].call = tool.key /\ tool.key # 0
           \/ ctx'[e] = ctx[e] /\ pc[e] \in OnTool /\ (pc'[e] \in Attempts => pc[e] \in Attempts)
    PROVE  OneAsker' /\ KeysAnswered' /\ OneHolder'
<1>1. Started' = Started /\ Completed' = Completed
  BY DEF Started, Completed, CallsIn
<1>2. OneAsker'
  BY <1>1 DEF OneAsker
<1>3. KeysAnswered'
  BY <1>1 DEF KeysAnswered
<1>4. \A f \in Engines : pc'[f] \in Attempts => pc[f] \in Attempts /\ ctx'[f] = ctx[f]
  BY DEF OnTool
<1>5. OneHolder'
  BY <1>4 DEF OneHolder
<1> QED BY <1>2, <1>3, <1>5

\* What an engine does without a model answer and without taking the tool or giving it back.
LEMMA QuietAttempts ==
    ASSUME TypeOK, OneAsker, KeysAnswered, OneHolder, NEW e \in Engines,
           \/ Tick(e) \/ PreflightFails(e) \/ FinishExecution(e) \/ Throw(e) \/ Exhausted(e)
           \/ RecheckFails(e) \/ Invoke(e) \/ SettleStale(e)
           \/ Claim(e) /\ Rest(e) /\ UNCHANGED tool
    PROVE  OneAsker' /\ KeysAnswered' /\ OneHolder'
<1>1. \A f \in Engines \ {e} : pc'[f] = pc[f] /\ ctx'[f] = ctx[f]
  BY OthersStay DEF EngineStep
<1>2. UNCHANGED <<calls, ncalls>>
  BY DEF Tick, TickTool, TickPlan, TickReview, TickExecute, Request, Remember, PreflightFails,
         FinishExecution, Throw, Exhausted, RecheckFails, Invoke, SettleStale, Claim, models
<1>3. pc \in [Engines -> PCs] /\ ctx \in [Engines -> Work] /\ tool \in Tools
  BY DEF TypeOK
<1>4. CASE Tick(e)
  <2>1. ASSUME NEW p, NEW phase, NEW task, NEW call, NEW fresh,
               Remember(e, p, phase, task, call, fresh)
        PROVE  pc'[e] = p /\ ctx'[e].call = call /\ UNCHANGED tool
    BY <1>3, <2>1 DEF Remember, Goto, external
  <2>2. ASSUME NEW phase, NEW task, Request(e, phase, task)
        PROVE  pc'[e] \in {"reserve", "throwing", "exhausted"} /\ UNCHANGED tool
    BY <2>1, <2>2 DEF Request
  <2>3. CASE TickTool(e)
    <3>1. pc'[e] = "claim" /\ ctx'[e].call = tool.key /\ UNCHANGED tool /\ tool.key # 0
      BY <2>1, <2>3 DEF TickTool
    <3> QED BY <1>1, <1>2, <3>1, AttemptsKept DEF OnTool, Attempts
  <2>4. CASE TickPlan(e) \/ TickReview(e) \/ TickExecute(e)
    <3>1. pc'[e] \in {"reserve", "throwing", "exhausted", "finishing"} /\ UNCHANGED tool
      BY <2>1, <2>2, <2>4 DEF TickPlan, TickReview, TickExecute
    <3> QED BY <1>1, <1>2, <3>1, AttemptsKept DEF OnTool, Attempts
  <2> QED BY <1>4, <2>3, <2>4 DEF Tick
<1>5. CASE PreflightFails(e) \/ FinishExecution(e) \/ Throw(e) \/ Exhausted(e) \/ SettleStale(e)
           \/ (Claim(e) /\ Rest(e) /\ UNCHANGED tool)
  <2>1. pc'[e] \in {"idle", "throwing"} /\ UNCHANGED tool
    BY <1>3, <1>5 DEF PreflightFails, FinishExecution, Throw, Exhausted, SettleStale, Rest, Goto, external
  <2> QED BY <1>1, <1>2, <2>1, AttemptsKept DEF OnTool, Attempts
<1>6. CASE RecheckFails(e)
  <2>1. /\ pc'[e] = "idle"
        /\ tool'.key = tool.key /\ tool'.token = tool.token /\ tool'.receipt = tool.receipt
    BY <1>3, <1>6 DEF RecheckFails, Rest, Goto, Tools
  <2> QED BY <1>1, <1>2, <2>1, AttemptsKept DEF OnTool, Attempts
<1>7. CASE Invoke(e)
  <2>1. /\ UNCHANGED tool /\ pc[e] \in Attempts
        /\ \/ pc'[e] = "idle"
           \/ pc'[e] = "invoking" /\ ctx'[e] = ctx[e]
    BY <1>3, <1>7 DEF Invoke, Rest, Goto, external, Attempts
  <2> QED BY <1>1, <1>2, <2>1, AttemptsKept DEF OnTool, Attempts
<1> QED BY <1>4, <1>5, <1>6, <1>7

\* A claim takes the token of a call that nobody holds.
LEMMA ClaimAttempts ==
    ASSUME TypeOK, OneAsker, KeysAnswered, OneHolder, NEW e \in Engines, Claim(e)
    PROVE  OneAsker' /\ KeysAnswered' /\ OneHolder'
<1>1. \A f \in Engines \ {e} : pc'[f] = pc[f] /\ ctx'[f] = ctx[f]
  BY OthersStay DEF EngineStep
<1>2. CASE Rest(e) /\ UNCHANGED tool
  BY <1>2, QuietAttempts
<1>3. CASE Claimable(e) /\ ClaimTool(e)
  <2>1. /\ pc[e] \in OnTool /\ pc'[e] = "claimed" /\ ctx'[e] = ctx[e]
        /\ tool'.key = tool.key /\ tool'.receipt = tool.receipt /\ tool'.token = e
        /\ UNCHANGED <<calls, ncalls>>
    BY <1>3 DEF Claim, ClaimTool, Goto, TypeOK, Tools, OnTool, models
  <2>2. Started' = Started /\ Completed' = Completed
    BY <2>1 DEF Started, Completed, CallsIn
  <2>3. OneAsker' /\ KeysAnswered'
    BY <1>1, <2>1, <2>2 DEF OneAsker, KeysAnswered, OnTool, Attempts
  <2>4. \A f \in Engines \ {e} : pc[f] \in Attempts => ctx[f].call # tool.key
    BY <1>3, ConstantsAssumption DEF OneHolder, Claimable
  <2>5. tool.key = ctx[e].call
    BY <1>3 DEF Claimable
  <2>6. OneHolder'
    BY <1>1, <2>1, <2>4, <2>5 DEF OneHolder
  <2> QED BY <2>3, <2>6
<1> QED BY <1>2, <1>3 DEF Claim

\* Only the holder settles, and then nobody attempts the call any more.
LEMMA SettleAttempts ==
    ASSUME TypeOK, OneAsker, KeysAnswered, OneHolder, NEW e \in Engines,
           NEW result \in {"completed", "failed", "unknown"}, SettleTool(e, result)
    PROVE  OneAsker' /\ KeysAnswered' /\ OneHolder'
<1>1. \A f \in Engines \ {e} : pc'[f] = pc[f] /\ ctx'[f] = ctx[f]
  BY OthersStay DEF EngineStep
<1>2. /\ pc[e] \in Attempts /\ pc'[e] = "idle" /\ UNCHANGED <<calls, ncalls>>
      /\ tool.key = ctx[e].call
      /\ \/ tool'.key = 0 /\ tool'.receipt = "none"
         \/ tool'.key = tool.key
  BY DEF SettleTool, HoldsTool, Rest, Goto, TypeOK, NoTool, models, Attempts
<1>3. Started' = Started /\ Completed' = Completed
  BY <1>2 DEF Started, Completed, CallsIn
<1>4. tool.key \in Completed /\ tool.key # 0
  BY <1>2, CallNumbers DEF KeysAnswered, OnTool
<1>5. OneAsker' /\ KeysAnswered'
  BY <1>1, <1>2, <1>3, <1>4 DEF OneAsker, KeysAnswered, OnTool, Attempts
<1>6. \A f \in Engines \ {e} : pc[f] \in Attempts => ctx[f].call # tool.key /\ ctx[f].call # 0
  BY <1>2, CallNumbers DEF OneHolder, KeysAnswered, OnTool
<1>7. OneHolder'
  BY <1>1, <1>2, <1>6 DEF OneHolder, Attempts
<1> QED BY <1>5, <1>7

\* A call that is new is the latest one, and asked when no other is under way.
LEMMA ReserveAttempts ==
    ASSUME IInv, OneAsker, KeysAnswered, OneHolder, NEW e \in Engines, Reserve(e), ~repeated'
    PROVE  OneAsker' /\ KeysAnswered' /\ OneHolder'
<1>1. \A f \in Engines \ {e} : pc'[f] = pc[f] /\ ctx'[f] = ctx[f]
  BY OthersStay DEF EngineStep, IInv
<1>2. /\ pc \in [Engines -> PCs] /\ ctx \in [Engines -> Work] /\ calls \in [CallIds -> Calls]
      /\ ncalls \in Nat /\ ctx[e].call \in CallIds
      /\ pc[e] = "reserve" /\ UNCHANGED tool
  BY DEF Reserve, IInv, TypeOK, RequestInRange, external
<1>3. CASE UNCHANGED models /\ pc'[e] \in {"idle", "throwing"}
  BY <1>1, <1>2, <1>3, AttemptsKept DEF OnTool, Attempts, models, IInv
<1>4. CASE /\ ctx[e].call = ncalls + 1 /\ ncalls' = ctx[e].call
           /\ Started \ {ctx[e].call} = {} /\ UNCHANGED ctx /\ pc'[e] = "asking"
           /\ calls' = [calls EXCEPT ![ctx[e].call] = CallStarted(e)]
  <2>1. calls'[ctx[e].call].state = "started" /\ \A d \in CallIds : d # ctx[e].call => calls'[d] = calls[d]
    BY <1>2, <1>4 DEF CallStarted
  <2>2. Started' = {ctx[e].call} /\ ctx[e].call \notin Completed
    BY <1>2, <1>4, <2>1 DEF Started, CallsIn, OneAsker, Completed
  <2>3. Completed' = Completed
    BY <2>1, <2>2 DEF Completed, CallsIn
  <2>4. \A f \in Engines : pc[f] # "asking"
    <3>1. \A d \in Started : d = ncalls /\ d = ncalls + 1
      BY <1>4 DEF OneAsker
    <3>2. Started = {}
      BY <1>2, <3>1
    <3> QED BY <3>2 DEF OneAsker
  <2>5. OneAsker'
    BY <1>1, <1>2, <1>4, <2>2, <2>3, <2>4, CallNumbers DEF OneAsker
  <2>6. KeysAnswered'
    BY <1>1, <1>2, <1>4, <2>3 DEF KeysAnswered, OnTool, Attempts
  <2>7. OneHolder'
    BY <1>1, <1>2, <1>4 DEF OneHolder, Attempts
  <2> QED BY <2>5, <2>6, <2>7
<1>5. \A p : Goto(e, p) => pc'[e] = p
  BY <1>2 DEF Goto
<1>6. Rest(e) => pc'[e] = "idle"
  BY <1>5 DEF Rest
<1> QED BY <1>2, <1>3, <1>4, <1>5, <1>6 DEF Reserve

\* Every answer settles the one call under way; a request for a tool names that call.
LEMMA AnswerAttempts ==
    ASSUME TypeOK, OneAsker, KeysAnswered, OneHolder, NEW e \in Engines, Answer(e)
    PROVE  OneAsker' /\ KeysAnswered' /\ OneHolder'
<1>1. \A f \in Engines \ {e} : pc'[f] = pc[f] /\ ctx'[f] = ctx[f]
  BY OthersStay DEF EngineStep
<1>2. pc[e] = "asking" /\ UNCHANGED ncalls
  BY DEF Answer, AnswerDiscarded, AnswerPlan, AnswerStep, AnswerQuestion, AnswerMalformed,
         AnswerFinish, AnswerTool, AnswerReview, AnswerFails, AnswerLost, Answered, Receive, Asking
<1>3. pc'[e] \in {"idle", "throwing"}
  BY DEF Answer, AnswerDiscarded, AnswerPlan, AnswerStep, AnswerQuestion, AnswerMalformed,
         AnswerFinish, AnswerTool, AnswerReview, AnswerFails, AnswerLost, Answered, Receive,
         Rest, Goto, TypeOK
<1>4. PICK state \in {"completed", "discarded", "failed", "unknown"} : SetCall(ctx[e].call, state)
  BY DEF Answer, AnswerDiscarded, AnswerPlan, AnswerStep, AnswerQuestion, AnswerMalformed,
         AnswerFinish, AnswerTool, AnswerReview, AnswerFails, AnswerLost, Answered, Receive
<1>5. \/ UNCHANGED tool
      \/ SetCall(ctx[e].call, "completed") /\ tool'.key = ncalls
      \/ tool'.key = 0 /\ tool'.receipt = "none"
  BY DEF Answer, AnswerDiscarded, AnswerPlan, AnswerStep, AnswerQuestion, AnswerMalformed,
         AnswerFinish, AnswerTool, AnswerReview, AnswerFails, AnswerLost, Answered, Receive,
         external, NoTool
<1>6. ctx[e].call \in Started /\ ctx[e].call = ncalls /\ ncalls \in CallIds
  BY <1>2 DEF OneAsker, Started, CallsIn
<1>7. \A d \in CallIds : d # ctx[e].call => calls'[d] = calls[d]
  BY <1>4 DEF SetCall, TypeOK
<1>8. /\ Started' = {} /\ Completed \subseteq Completed'
      /\ Completed' \subseteq Completed \cup {ncalls}
  BY <1>4, <1>6, <1>7, AnswerSettles, CallNumbers DEF Started, Completed, CallsIn, OneAsker
<1>9. SetCall(ctx[e].call, "completed") => ncalls \in Completed'
  BY <1>6 DEF SetCall, Completed, CallsIn, TypeOK, Calls
<1>10. OneAsker'
  BY <1>1, <1>2, <1>3, <1>8, CallNumbers, ConstantsAssumption DEF OneAsker, TypeOK
<1>11. KeysAnswered'
  BY <1>1, <1>3, <1>5, <1>6, <1>8, <1>9, CallNumbers DEF KeysAnswered, OnTool, Attempts
<1>12. \A f \in Engines : pc[f] \in Attempts => ctx[f].call # ncalls /\ ctx[f].call # 0
  BY <1>6, CallNumbers DEF KeysAnswered, OnTool
<1>13. OneHolder'
  BY <1>1, <1>3, <1>5, <1>12 DEF OneHolder, Attempts
<1> QED BY <1>10, <1>11, <1>13

\* The owner and the operators settle no call under way and take the tool at most away.
LEMMA OwnerAttempts ==
    ASSUME TypeOK, ~Temporal, OneAsker, KeysAnswered, OneHolder, OwnerStep
    PROVE  OneAsker' /\ KeysAnswered' /\ OneHolder'
<1>1. CASE \E e \in Engines : ReconcileCancelled(e)
  <2>1. PICK e \in Engines : ReconcileCancelled(e)
    BY <1>1
  <2>2. /\ pc'[e] = "recheck" /\ ctx'[e].call = tool.key /\ tool.receipt # "none"
        /\ tool'.key = tool.key /\ tool'.token = tool.token /\ tool'.receipt = tool.receipt
        /\ UNCHANGED <<calls, ncalls>>
        /\ \A f \in Engines \ {e} : pc'[f] = pc[f] /\ ctx'[f] = ctx[f]
    BY <2>1 DEF ReconcileCancelled, Goto, TypeOK, Tools, models
  <2>3. tool.key # 0
    BY <2>2 DEF KeysAnswered
  <2> QED BY <2>2, <2>3, AttemptsKept DEF Attempts
<1>2. CASE /\ UNCHANGED <<pc, ctx, ncalls>>
           /\ Started' = Started /\ Completed' = Completed
           /\ \/ UNCHANGED tool
              \/ tool' = NoTool
  <2>1. OneAsker' /\ KeysAnswered'
    BY <1>2 DEF OneAsker, KeysAnswered, NoTool
  <2>2. \A e \in Engines : pc[e] \in Attempts => ctx[e].call # 0
    BY CallNumbers DEF KeysAnswered, OnTool
  <2>3. OneHolder'
    BY <1>2, <2>2 DEF OneHolder, NoTool
  <2> QED BY <2>1, <2>3
<1>3. CASE \E c \in CallIds : SettleClosedCall(c) \/ ReconcileCallFailed(c) \/ ReconcileCallCompleted(c)
  <2>1. PICK c \in CallIds : SettleClosedCall(c) \/ ReconcileCallFailed(c) \/ ReconcileCallCompleted(c)
    BY <1>3
  <2>2. c \in Unknown /\ UNCHANGED <<pc, ctx, ncalls, tool>>
    BY <2>1 DEF SettleClosedCall, ReconcileCallFailed, ReconcileCallCompleted, Reconcilable,
                external, workers
  <2>3. UNCHANGED calls \/ \E state \in {"discarded", "failed"} : SetCall(c, state)
    BY <2>1 DEF SettleClosedCall, ReconcileCallFailed, ReconcileCallCompleted
  <2>4. /\ calls[c].state = "unknown" /\ calls'[c].state \in {"unknown", "discarded", "failed"}
        /\ \A d \in CallIds : d # c => calls'[d] = calls[d]
    BY <2>2, <2>3 DEF Unknown, CallsIn, SetCall, TypeOK, Calls
  <2>5. Started' = Started /\ Completed' = Completed
    BY <2>4 DEF Started, Completed, CallsIn
  <2> QED BY <1>2, <2>2, <2>5
<1>4. ASSUME UNCHANGED <<calls, ncalls, workers>>, UNCHANGED tool \/ tool' = NoTool
      PROVE  OneAsker' /\ KeysAnswered' /\ OneHolder'
  <2>1. Started' = Started /\ Completed' = Completed
    BY <1>4 DEF Started, Completed, CallsIn
  <2> QED BY <1>2, <1>4, <2>1 DEF workers
<1>5. CASE Terminalize
  BY <1>5 DEF Terminalize
<1> QED BY <1>1, <1>3, <1>4, <1>5
        DEF OwnerStep, Approve, ApproveAction, DenyAction, RevisePlan, EditPlan, AnswerOwner,
            Pause, Resume, Cancel, SetStatus, Retry, Reconcile, Replan, models, external, workers

\* Neither a death nor a repetition is ever undone.
LEMMA PlainWas == ASSUME TypeOK, [Next]_vars, Plain' PROVE Plain
<1>1. faults \in Nat /\ repeated \in BOOLEAN
  BY DEF TypeOK
<1>2. UNCHANGED history => Plain
  BY DEF Plain, history
<1>3. CASE \E e \in Engines : Crash(e)
  BY <1>1, <1>3 DEF Crash, Plain
<1>4. CASE \E e \in Engines : Reserve(e)
  BY <1>1, <1>4 DEF Reserve, Plain
<1>5. CASE \E e \in Engines : Invoke(e)
  BY <1>1, <1>5 DEF Invoke, Plain
<1>6. ASSUME NEW e \in Engines, Tick(e) \/ Answer(e) PROVE UNCHANGED history
  BY <1>6 DEF Tick, TickTool, TickPlan, TickReview, TickExecute, Request, Remember,
         Answer, AnswerDiscarded, AnswerPlan, AnswerStep, AnswerQuestion, AnswerMalformed,
         AnswerFinish, AnswerTool, AnswerReview, AnswerFails, AnswerLost, Answered, Receive
<1>7. ASSUME NEW e \in Engines,
             \/ PreflightFails(e) \/ FinishExecution(e) \/ Throw(e) \/ Exhausted(e)
             \/ Claim(e) \/ RecheckFails(e) \/ SettleStale(e)
             \/ \E result \in {"completed", "failed", "unknown"} : SettleTool(e, result)
             \/ Restart(e) \/ Recover(e) \/ Requeue(e)
      PROVE  UNCHANGED history
  BY <1>7 DEF PreflightFails, FinishExecution, Throw, Exhausted, Claim, RecheckFails, SettleStale,
         SettleTool, Restart, Recover, Requeue
<1>8. OwnerStep \/ UNCHANGED vars => UNCHANGED history
  BY DEF OwnerStep, Approve, ApproveAction, DenyAction, RevisePlan, EditPlan, AnswerOwner,
         Pause, Resume, Cancel, SetStatus, Retry, Reconcile, Replan, Terminalize, SettleClosedCall,
         ReconcileCallFailed, ReconcileCallCompleted, ReconcileCancelled, vars
<1> QED BY <1>2, <1>3, <1>4, <1>5, <1>6, <1>7, <1>8 DEF Next, EngineStep

LEMMA AttemptStep == ASSUME ~Temporal PROVE IInv /\ AttemptInv /\ [Next]_vars => AttemptInv'
<1> SUFFICES ASSUME IInv, AttemptInv, [Next]_vars, Plain'
             PROVE  OneAsker' /\ KeysAnswered' /\ OneHolder'
  BY DEF AttemptInv
<1>1. TypeOK /\ OneAsker /\ KeysAnswered /\ OneHolder
  BY PlainWas DEF IInv, AttemptInv
<1>2. ASSUME NEW e \in Engines, EngineStep(e) PROVE OneAsker' /\ KeysAnswered' /\ OneHolder'
  <2>1. ~ (Restart(e) \/ Recover(e) \/ Requeue(e))
    BY <1>1 DEF OneAsker, Restart, Recover, Requeue
  <2>2. ~ repeated'
    BY DEF Plain
  <2> QED BY <1>1, <1>2, <2>1, <2>2, QuietAttempts, ReserveAttempts, AnswerAttempts, ClaimAttempts,
             SettleAttempts DEF EngineStep
<1>3. ~ \E e \in Engines : Crash(e)
  BY DEF Crash, Plain, IInv, TypeOK
<1>4. CASE OwnerStep
  BY <1>1, <1>4, OwnerAttempts
<1>5. CASE UNCHANGED vars
  <2>1. Started' = Started /\ Completed' = Completed
    BY <1>5 DEF vars, models, Started, Completed, CallsIn
  <2> QED BY <1>1, <1>5, <2>1
          DEF vars, models, external, workers, OneAsker, KeysAnswered, OneHolder
<1> QED BY <1>2, <1>3, <1>4, <1>5 DEF Next

\* However many engines hold a snapshot of one pending call, its provider is asked by one of
\* them at a time, as long as no process dies and no unknown model call is asked again.
THEOREM OneAttempt == ASSUME ~Temporal PROVE Spec => []OneAttemptAtATime
<1>1. Init => AttemptInv
  <2> SUFFICES ASSUME Init PROVE OneAsker /\ KeysAnswered /\ OneHolder
    BY DEF AttemptInv
  <2>1. Started = {} /\ Completed = {}
    BY DEF Init, Started, Completed, CallsIn, NoCall
  <2>2. tool.key = 0 /\ tool.receipt = "none" /\ \A e \in Engines : pc[e] = "idle"
    BY DEF Init, NoTool
  <2> QED BY <2>1, <2>2 DEF OneAsker, KeysAnswered, OneHolder, OnTool, Attempts
<1>2. AttemptInv => OneAttemptAtATime
  BY DEF AttemptInv, OneAttemptAtATime, OneHolder, Attempts, Plain
<1> QED BY <1>1, <1>2, AttemptStep, TypeInvariant, PTL DEF Spec
=============================================================================
