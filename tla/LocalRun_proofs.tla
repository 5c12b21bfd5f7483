--------------------------- MODULE LocalRun_proofs ---------------------------
(* Proofs about the Run of a local server: one engine advances it and no workflow     *)
(* closes it.  The engine may die at any point and the owner may do anything.         *)
EXTENDS RunEngine_proofs

Local(e) == Engines = {e} /\ ~Temporal

Open == Started \cup Unknown
Ticking == {"reserve", "asking", "throwing", "exhausted", "finishing", "claim"}

\* There is one thing outside at a time: one open model call, the latest, or one tool call.
OneOpen ==
    /\ Open \subseteq {ncalls}
    /\ tool.key # 0 => Open = {}
    /\ resumeCall # 0 => Unknown \subseteq {resumeCall}
    /\ Unknown # {} /\ resumeCall = 0 => status \in {"unknown", "cancelled", "succeeded"}
    /\ Started # {} => /\ resumeCall = 0
                       /\ status \in Runnable \cup {"paused", "cancelled"}
                       /\ status = "paused" => resumeStatus \in Runnable

\* What the engine remembers is still so when it comes to act on it.
SnapshotHolds(e) ==
    /\ pc[e] = "reserve" =>
         /\ tool.key = 0 /\ Started = {}
         /\ ctx[e].fresh => Unknown = {} /\ ctx[e].call = ncalls + 1
         /\ ~ctx[e].fresh => Unknown \subseteq {ctx[e].call}
    /\ pc[e] = "asking" => ctx[e].call \in Started
    /\ Started # {} => pc[e] \in {"asking", "down", "recovering"}
    /\ pc[e] \in {"claim", "recheck", "claimed", "invoking"} => ctx[e].call # 0
    /\ pc[e] \in {"claimed", "invoking"} =>
         tool.key = 0 \/ (tool.key = ctx[e].call /\ tool.token = e /\ tool.receipt = ctx[e].receipt)
    /\ tool.key = 0 => tool.receipt = "none" /\ tool.token = NoEngine /\ ~tool.inFlight
    /\ tool.token # NoEngine => pc[e] \in {"claimed", "invoking", "down", "recovering"}
    /\ pc[e] = "recovering" => Started # {} \/ tool.token # NoEngine \/ tool.inFlight

\* The key of a tool call is the number of a model call that was answered.
KeysFresh ==
    /\ tool.key <= ncalls /\ action.key <= ncalls /\ action.key \notin Open
    /\ \A k \in CallIds : invoked[k] > 0 => k <= ncalls /\ k \notin Open
    /\ action.key = 0 => action.status = "none"

\* A tool call that was handed to its provider and has no receipt is still held.
InvokedOnce(e) ==
    /\ ~AutoRetryTool => \A k \in CallIds : invoked[k] <= 1
    /\ tool.key # 0 /\ tool.receipt = "none" /\ invoked[tool.key] > 0 =>
         tool.token # NoEngine /\ pc[e] \in {"invoking", "down", "recovering"}

\* Until the owner approves the call nobody touches it.
Waiting(e) ==
    /\ tool.receipt = "none" /\ tool.token = NoEngine /\ ~tool.inFlight
    /\ pc[e] \in {"idle", "down"}
    /\ status \in {"needs_approval", "cancelled"} \/ (status = "paused" /\ resumeStatus = "needs_approval")

AskedFirst(e) ==
    tool.key # 0 /\ tool.key = action.key =>
        action.status = "approved" \/ (action.status = "pending" /\ Waiting(e))

\* Nothing is outside and nothing is under way while the owner has the plan.
Parked(e) ==
    /\ "needs_approval" \in {status, resumeStatus} =>
         /\ Open = {} /\ pc[e] \in {"idle", "down"}
         /\ tool.receipt = "none" /\ tool.token = NoEngine /\ ~tool.inFlight
    /\ resumeStatus \in {"needs_approval", "succeeded"} =>
         status \in {"paused", "cancelled"} /\ Open = {} /\ pc[e] \notin Ticking

Finished == plan # 0 /\ done = Tasks

\* A Run is reviewed, and resumes to a review, only when its plan is carried out.
ReviewsFinished(e) ==
    /\ status = "succeeded" /\ ~preserved => Finished
    /\ resumeStatus = "succeeded" => Finished
    /\ status = "reviewing" => Finished
    /\ resumeStatus = "reviewing"
         /\ (status \in {"paused", "unknown"} \/ (Unknown # {} /\ Disposition # "cancelled")) => Finished
    /\ pc[e] \in {"reserve", "asking"} /\ ctx[e].phase = "reviewer" => Finished
    /\ pc[e] = "finishing" => Finished

AsksApproved(e) == pc[e] = "reserve" /\ ctx[e].phase = "executor" => Approved

LocalInv(e) ==
    /\ OneOpen /\ SnapshotHolds(e) /\ KeysFresh /\ InvokedOnce(e) /\ AskedFirst(e) /\ Parked(e)
    /\ ReviewsFinished(e) /\ AsksApproved(e)

-----------------------------------------------------------------------------
(* What the steps of the model do to its calls and its engine *)

LEMMA CallsKept == ASSUME UNCHANGED calls PROVE Started' = Started /\ Unknown' = Unknown
BY DEF Started, Unknown, CallsIn

LEMMA CallSettled ==
    ASSUME TypeOK, NEW c \in CallIds, NEW state \in CallStates \ {"started"}, SetCall(c, state)
    PROVE  /\ Started' = Started \ {c}
           /\ Unknown' = IF state = "unknown" THEN Unknown \cup {c} ELSE Unknown \ {c}
<1>1. \A d \in CallIds \ {c} : calls'[d] = calls[d]
  BY DEF TypeOK, SetCall
<1>2. calls'[c].state = state
  BY DEF TypeOK, SetCall, Calls
<1> QED BY <1>1, <1>2 DEF Started, Unknown, CallsIn

LEMMA CallReserved ==
    ASSUME TypeOK, NEW e, NEW c \in CallIds, calls' = [calls EXCEPT ![c] = CallStarted(e)]
    PROVE  Started' = Started \cup {c} /\ Unknown' = Unknown \ {c}
<1>1. \A d \in CallIds \ {c} : calls'[d] = calls[d]
  BY DEF TypeOK
<1>2. calls'[c].state = "started"
  BY DEF TypeOK, CallStarted
<1> QED BY <1>1, <1>2 DEF Started, Unknown, CallsIn

LEMMA CallsSwept ==
    ASSUME TypeOK, calls' = [c \in CallIds |->
               IF c \in Started THEN [calls[c] EXCEPT !.state = "unknown"] ELSE calls[c]]
    PROVE  Started' = {} /\ Unknown' = Open
<1>1. ASSUME NEW c \in CallIds PROVE calls'[c].state = IF c \in Started THEN "unknown" ELSE calls[c].state
  <2>1. calls[c] \in Calls
    BY DEF TypeOK
  <2> QED BY <2>1 DEF Calls
<1> QED BY <1>1 DEF Open, Started, Unknown, CallsIn

\* Where an engine goes and what it remembers.
LEMMA EngineGoes ==
    ASSUME TypeOK, NEW e \in Engines
    PROVE  /\ \A p : Goto(e, p) => pc'[e] = p
           /\ Rest(e) => pc'[e] = "idle"
           /\ \A w : ctx' = [ctx EXCEPT ![e] = w] => ctx'[e] = w
BY DEF TypeOK, Goto, Rest

LEMMA CallsRange == CallIds \subseteq Nat \ {0} /\ Open \subseteq CallIds
BY ConstantsAssumption DEF CallIds, Open, Started, Unknown, CallsIn

-----------------------------------------------------------------------------
(* Ticks *)

LEMMA Remembered ==
    ASSUME TypeOK, NEW e \in Engines, NEW p, NEW phase, NEW task, NEW call \in Nat, NEW fresh \in BOOLEAN,
           Remember(e, p, phase, task, call, fresh)
    PROVE  /\ pc'[e] = p /\ ctx'[e].phase = phase /\ ctx'[e].call = call /\ ctx'[e].fresh = fresh
           /\ ctx'[e].receipt = tool.receipt
           /\ UNCHANGED <<lifecycle, planning, work, models, external, history>>
<1> DEFINE w == [phase |-> phase, task |-> task, call |-> call, fresh |-> fresh,
                 staged |-> ~fresh /\ staged # 0 /\ staged = call, receipt |-> tool.receipt]
<1>1. /\ ctx' = [ctx EXCEPT ![e] = w] /\ Goto(e, p)
      /\ UNCHANGED <<lifecycle, planning, work, models, external, history>>
  BY DEF Remember
<1>2. w.phase = phase /\ w.call = call /\ w.fresh = fresh /\ w.receipt = tool.receipt
  OBVIOUS
<1> HIDE DEF w
<1> QED BY <1>1, <1>2, EngineGoes

\* What a tick found and remembers.
TickReserves(e) ==
    /\ pc'[e] = "reserve"
    /\ ctx'[e].phase = "reviewer" => status = "reviewing"
    /\ ctx'[e].phase = "executor" => Approved
    /\ \/ ctx'[e].fresh = TRUE /\ ctx'[e].call = ncalls + 1 /\ resumeCall = 0
       \/ ctx'[e].fresh = FALSE /\ ctx'[e].call = resumeCall /\ resumeCall # 0

LEMMA RequestFinds ==
    ASSUME TypeOK, NEW e \in Engines, NEW phase, NEW task, Request(e, phase, task),
           phase = "reviewer" => status = "reviewing", phase = "executor" => Approved
    PROVE  /\ UNCHANGED <<lifecycle, planning, work, models, external, history>>
           /\ pc'[e] \in {"throwing", "exhausted"} \/ TickReserves(e)
<1>0. resumeCall \in Nat /\ ncalls + 1 \in Nat /\ 0 \in Nat /\ {TRUE, FALSE} \subseteq BOOLEAN
  BY ConstantsAssumption DEF TypeOK
<1>1. CASE resumeCall # 0 /\ Remember(e, "reserve", phase, task, resumeCall, FALSE)
  <2>1. PICK c \in Nat : c = resumeCall /\ Remember(e, "reserve", phase, task, c, FALSE)
    BY <1>0, <1>1
  <2>2. /\ pc'[e] = "reserve" /\ ctx'[e].phase = phase /\ ctx'[e].call = c /\ ctx'[e].fresh = FALSE
        /\ UNCHANGED <<lifecycle, planning, work, models, external, history>>
    BY <1>0, <2>1, Remembered
  <2> QED BY <1>1, <2>1, <2>2 DEF TickReserves
<1>2. CASE Remember(e, "throwing", phase, task, 0, FALSE)
  BY <1>0, <1>2, Remembered
<1>3. CASE resumeCall = 0 /\ Remember(e, "reserve", phase, task, ncalls + 1, TRUE)
  <2> DEFINE w == [phase |-> phase, task |-> task, call |-> ncalls + 1, fresh |-> TRUE,
                   staged |-> ~TRUE /\ staged # 0 /\ staged = ncalls + 1, receipt |-> tool.receipt]
  <2>1. /\ ctx' = [ctx EXCEPT ![e] = w] /\ Goto(e, "reserve")
        /\ UNCHANGED <<lifecycle, planning, work, models, external, history>>
    BY <1>3 DEF Remember
  <2>2. w.phase = phase /\ w.call = ncalls + 1 /\ w.fresh = TRUE
    OBVIOUS
  <2> HIDE DEF w
  <2>3. pc'[e] = "reserve" /\ ctx'[e] = w
    BY <2>1, EngineGoes
  <2> QED BY <1>3, <2>1, <2>2, <2>3 DEF TickReserves
<1>4. CASE Remember(e, "exhausted", phase, task, 0, FALSE)
  BY <1>0, <1>4, Remembered
<1> QED BY <1>1, <1>2, <1>3, <1>4 DEF Request

LEMMA TickFinds ==
    ASSUME TypeOK, NEW e \in Engines, Tick(e)
    PROVE  /\ pc[e] = "idle" /\ status \in Runnable /\ Started = {}
           /\ UNCHANGED <<lifecycle, planning, work, models, external, history>>
           /\ \/ tool.key # 0 /\ pc'[e] = "claim" /\ ctx'[e].call = tool.key
              \/ tool.key = 0 /\ pc'[e] \in {"throwing", "exhausted"}
              \/ tool.key = 0 /\ pc'[e] = "finishing" /\ Finished
              \/ tool.key = 0 /\ TickReserves(e)
<1>1. pc[e] = "idle" /\ status \in Runnable /\ Started = {}
  BY DEF Tick, TickTool, TickPlan, TickReview, TickExecute, CanTick
<1>2. CASE TickTool(e)
  <2>1. tool.key \in Nat
    BY ConstantsAssumption DEF TypeOK, Tools
  <2>2. PICK k \in Nat : k = tool.key /\ Remember(e, "claim", "tool", 0, k, FALSE) /\ k # 0
    BY <1>2, <2>1 DEF TickTool
  <2>3. /\ pc'[e] = "claim" /\ ctx'[e].call = k
        /\ UNCHANGED <<lifecycle, planning, work, models, external, history>>
    BY <2>2, Remembered, ZenonT(60)
  <2> QED BY <1>1, <2>2, <2>3
<1>3. CASE TickPlan(e)
  <2>1. Request(e, "planner", 0) /\ tool.key = 0 /\ "planner" # "reviewer" /\ "planner" # "executor"
    BY <1>3 DEF TickPlan
  <2> QED BY <1>1, <2>1, RequestFinds
<1>4. CASE TickReview(e)
  <2>1. Request(e, "reviewer", 0) /\ tool.key = 0 /\ status = "reviewing" /\ "reviewer" # "executor"
    BY <1>4 DEF TickReview
  <2> QED BY <1>1, <2>1, RequestFinds
<1>5. CASE TickExecute(e)
  <2>1. tool.key = 0 /\ "executor" # "reviewer" /\ 0 \in Nat
    BY <1>5 DEF TickExecute
  <2>2. CASE Remember(e, "throwing", "executor", 0, 0, FALSE)
    BY <1>1, <2>1, <2>2, Remembered
  <2>3. CASE Approved /\ done = Tasks /\ Remember(e, "finishing", "executor", 0, 0, FALSE)
    BY <1>1, <2>1, <2>3, Remembered, ZenonT(60) DEF Approved, Finished
  <2>4. CASE Approved /\ Request(e, "executor", NextTask)
    BY <1>1, <2>1, <2>4, RequestFinds
  <2> QED BY <1>5, <2>2, <2>3, <2>4 DEF TickExecute
<1> QED BY <1>2, <1>3, <1>4, <1>5 DEF Tick

-----------------------------------------------------------------------------
(* The steps of the engine *)

LEMMA LocalTypes ==
    ASSUME NEW e, Local(e), TypeOK
    PROVE  /\ e \in Engines /\ NoEngine # e /\ tool.token \in {e, NoEngine}
           /\ ncalls \in Nat /\ resumeCall \in Nat /\ tool.key \in Nat /\ action.key \in Nat
           /\ ctx[e].call \in Nat /\ 0 \notin CallIds /\ CallIds \subseteq Nat
           /\ Started \subseteq CallIds /\ Unknown \subseteq CallIds
BY ConstantsAssumption, CallsRange DEF Local, TypeOK, Tools, Work, Open

LEMMA TickLocal ==
    ASSUME NEW e, Local(e), TypeOK, LocalInv(e), Tick(e)
    PROVE  LocalInv(e)'
<1>1. /\ pc[e] = "idle" /\ status \in Runnable /\ Started = {}
      /\ UNCHANGED <<lifecycle, planning, work, models, external, history>>
      /\ \/ tool.key # 0 /\ pc'[e] = "claim" /\ ctx'[e].call = tool.key
         \/ tool.key = 0 /\ pc'[e] \in {"throwing", "exhausted"}
         \/ tool.key = 0 /\ pc'[e] = "finishing" /\ Finished
         \/ tool.key = 0 /\ TickReserves(e)
  BY TickFinds, LocalTypes
<1>2. Started' = Started /\ Unknown' = Unknown
  BY <1>1, CallsKept DEF models
<1>3. OneOpen' /\ SnapshotHolds(e)'
  BY <1>1, <1>2, LocalTypes
  DEF LocalInv, OneOpen, SnapshotHolds, Parked, Open, lifecycle, models, external, Runnable,
      workers, TickReserves
<1>4. KeysFresh' /\ InvokedOnce(e)' /\ AskedFirst(e)'
  BY <1>1, <1>2, LocalTypes
  DEF LocalInv, OneOpen, SnapshotHolds, KeysFresh, InvokedOnce, AskedFirst, Waiting, Parked, Open,
      lifecycle, models, external, history, workers, Runnable, TickReserves
<1>5. Parked(e)' /\ ReviewsFinished(e)' /\ AsksApproved(e)'
  BY <1>1, <1>2, LocalTypes
  DEF LocalInv, OneOpen, SnapshotHolds, Parked, ReviewsFinished, AsksApproved, Finished, Approved,
      Disposition, Ticking, Open, lifecycle, planning, work, models, external, workers, Runnable,
      TickReserves
<1> QED BY <1>3, <1>4, <1>5 DEF LocalInv

LEMMA PreflightLocal ==
    ASSUME NEW e, Local(e), TypeOK, LocalInv(e), PreflightFails(e)
    PROVE  LocalInv(e)'
<1>1. /\ pc[e] \in {"reserve", "claim"} /\ pc'[e] = "throwing"
      /\ UNCHANGED <<lifecycle, planning, work, models, external, ctx, history>>
  BY EngineGoes, LocalTypes DEF PreflightFails
<1>2. Started' = Started /\ Unknown' = Unknown
  BY <1>1, CallsKept DEF models
<1>3. OneOpen' /\ SnapshotHolds(e)'
  BY <1>1, <1>2, LocalTypes
  DEF LocalInv, OneOpen, SnapshotHolds, Parked, Open, lifecycle, models, external, Runnable, workers
<1>4. KeysFresh' /\ InvokedOnce(e)' /\ AskedFirst(e)'
  BY <1>1, <1>2, LocalTypes
  DEF LocalInv, OneOpen, SnapshotHolds, KeysFresh, InvokedOnce, AskedFirst, Waiting, Parked, Open,
      lifecycle, models, external, history, workers, Runnable
<1>5. Parked(e)' /\ ReviewsFinished(e)' /\ AsksApproved(e)'
  BY <1>1, <1>2, LocalTypes
  DEF LocalInv, OneOpen, SnapshotHolds, Parked, ReviewsFinished, AsksApproved, Finished, Approved,
      Disposition, Ticking, Open, lifecycle, planning, work, models, external, workers, Runnable
<1> QED BY <1>3, <1>4, <1>5 DEF LocalInv

\* An attempt that finds its call gone leaves everything as it is.
LEMMA LeavesToolLocal ==
    ASSUME NEW e, Local(e), TypeOK, LocalInv(e), (Claim(e) /\ ~Claimable(e)) \/ SettleStale(e) \/ (Invoke(e) /\ (tool.key = 0 \/ tool.token # e))
    PROVE  LocalInv(e)'
<1>1. /\ \/ pc[e] \in {"claim", "recheck"} /\ ~Claimable(e)
         \/ pc[e] \in {"claimed", "invoking"} /\ tool.token # e
      /\ pc'[e] = "idle"
      /\ UNCHANGED <<lifecycle, planning, work, models, external, history>>
  BY EngineGoes, LocalTypes
  DEF Claim, SettleStale, Invoke, Claimable, HoldsTool, LocalInv, SnapshotHolds, external, history
<1>2. Started' = Started /\ Unknown' = Unknown
  BY <1>1, CallsKept DEF models
<1>3. OneOpen' /\ SnapshotHolds(e)'
  BY <1>1, <1>2, LocalTypes
  DEF LocalInv, OneOpen, SnapshotHolds, Parked, Open, lifecycle, models, external, Runnable, workers
<1>4. KeysFresh' /\ InvokedOnce(e)' /\ AskedFirst(e)'
  BY <1>1, <1>2, LocalTypes
  DEF LocalInv, OneOpen, SnapshotHolds, KeysFresh, InvokedOnce, AskedFirst, Waiting, Parked, Open,
      lifecycle, models, external, history, workers, Runnable
<1>5. Parked(e)' /\ ReviewsFinished(e)' /\ AsksApproved(e)'
  BY <1>1, <1>2, LocalTypes
  DEF LocalInv, OneOpen, SnapshotHolds, Parked, ReviewsFinished, AsksApproved, Finished, Approved,
      Disposition, Ticking, Open, lifecycle, planning, work, models, external, workers, Runnable
<1> QED BY <1>3, <1>4, <1>5 DEF LocalInv

LEMMA ClaimLocal ==
    ASSUME NEW e, Local(e), TypeOK, LocalInv(e), Claim(e), Claimable(e)
    PROVE  LocalInv(e)'
<1>0. [tool EXCEPT !.token = e].key = tool.key /\ [tool EXCEPT !.token = e].receipt = tool.receipt
      /\ [tool EXCEPT !.token = e].token = e /\ [tool EXCEPT !.token = e].inFlight = tool.inFlight
  BY DEF TypeOK, Tools
<1>1. /\ pc[e] \in {"claim", "recheck"} /\ pc'[e] = "claimed" /\ UNCHANGED ctx
      /\ tool.key = ctx[e].call /\ tool.receipt = ctx[e].receipt /\ tool.token = NoEngine
      /\ status \in Runnable \/ (status = "cancelled" /\ tool.receipt # "none")
      /\ tool'.key = tool.key /\ tool'.receipt = tool.receipt /\ tool'.token = e /\ tool'.inFlight = tool.inFlight
      /\ UNCHANGED <<lifecycle, planning, work, models, action, history>>
  BY EngineGoes, LocalTypes, <1>0 DEF Claim, ClaimTool, Claimable
<1>2. Started' = Started /\ Unknown' = Unknown
  BY <1>1, CallsKept DEF models
<1>3. OneOpen' /\ SnapshotHolds(e)'
  BY <1>1, <1>2, LocalTypes
  DEF LocalInv, OneOpen, SnapshotHolds, Parked, Open, lifecycle, models, external, Runnable, workers
<1>4. KeysFresh' /\ InvokedOnce(e)' /\ AskedFirst(e)'
  BY <1>1, <1>2, LocalTypes
  DEF LocalInv, OneOpen, SnapshotHolds, KeysFresh, InvokedOnce, AskedFirst, Waiting, Parked, Open,
      lifecycle, models, external, history, workers, Runnable
<1>5. Parked(e)' /\ ReviewsFinished(e)' /\ AsksApproved(e)'
  BY <1>1, <1>2, LocalTypes
  DEF LocalInv, OneOpen, SnapshotHolds, Parked, ReviewsFinished, AsksApproved, Finished, Approved,
      Disposition, Ticking, Open, lifecycle, planning, work, models, external, workers, Runnable
<1> QED BY <1>3, <1>4, <1>5 DEF LocalInv

LEMMA RecheckLocal ==
    ASSUME NEW e, Local(e), TypeOK, LocalInv(e), RecheckFails(e)
    PROVE  LocalInv(e)'
<1>1. /\ pc[e] = "recheck" /\ pc'[e] = "idle"
      /\ tool'.key = tool.key /\ tool'.receipt = tool.receipt /\ tool'.token = tool.token /\ ~tool'.inFlight
      /\ UNCHANGED <<lifecycle, planning, work, models, action, history>>
  BY EngineGoes, LocalTypes DEF RecheckFails, TypeOK, Tools
<1>2. Started' = Started /\ Unknown' = Unknown
  BY <1>1, CallsKept DEF models
<1>3. OneOpen' /\ SnapshotHolds(e)'
  BY <1>1, <1>2, LocalTypes
  DEF LocalInv, OneOpen, SnapshotHolds, Parked, Open, lifecycle, models, external, Runnable, workers
<1>4. KeysFresh' /\ InvokedOnce(e)' /\ AskedFirst(e)'
  BY <1>1, <1>2, LocalTypes
  DEF LocalInv, OneOpen, SnapshotHolds, KeysFresh, InvokedOnce, AskedFirst, Waiting, Parked, Open,
      lifecycle, models, external, history, workers, Runnable
<1>5. Parked(e)' /\ ReviewsFinished(e)' /\ AsksApproved(e)'
  BY <1>1, <1>2, LocalTypes
  DEF LocalInv, OneOpen, SnapshotHolds, Parked, ReviewsFinished, AsksApproved, Finished, Approved,
      Disposition, Ticking, Open, lifecycle, planning, work, models, external, workers, Runnable
<1> QED BY <1>3, <1>4, <1>5 DEF LocalInv

LEMMA InvokeLocal ==
    ASSUME NEW e, Local(e), TypeOK, LocalInv(e), Invoke(e), tool.key # 0, tool.token = e
    PROVE  LocalInv(e)'
<1>0. tool.key \in CallIds
  BY ConstantsAssumption DEF TypeOK, Tools, CallIds
<1>1. /\ pc[e] = "claimed" /\ pc'[e] = "invoking" /\ UNCHANGED ctx
      /\ tool.key \in CallIds /\ tool.key \notin Started \cup Unknown
      /\ \A k \in CallIds : k # tool.key => invoked'[k] = invoked[k]
      /\ \/ UNCHANGED invoked /\ tool.receipt # "none" /\ (~AutoRetryTool \/ tool.receipt # "interrupted")
         \/ invoked'[tool.key] = invoked[tool.key] + 1
            /\ (tool.receipt = "none" \/ (AutoRetryTool /\ tool.receipt = "interrupted"))
      /\ invoked[tool.key] \in Nat
      /\ UNCHANGED <<lifecycle, planning, work, models, external>>
  BY EngineGoes, LocalTypes, CallsRange, <1>0
  DEF Invoke, Reissues, TypeOK, LocalInv, OneOpen, SnapshotHolds, Open
<1>2. Started' = Started /\ Unknown' = Unknown
  BY <1>1, CallsKept DEF models
<1>3. OneOpen' /\ SnapshotHolds(e)'
  BY <1>1, <1>2, LocalTypes
  DEF LocalInv, OneOpen, SnapshotHolds, Parked, Open, lifecycle, models, external, Runnable, workers
<1>4. KeysFresh' /\ InvokedOnce(e)' /\ AskedFirst(e)'
  BY <1>1, <1>2, LocalTypes
  DEF LocalInv, OneOpen, SnapshotHolds, KeysFresh, InvokedOnce, AskedFirst, Waiting, Parked, Open,
      lifecycle, models, external, history, workers, Runnable
<1>5. Parked(e)' /\ ReviewsFinished(e)' /\ AsksApproved(e)'
  BY <1>1, <1>2, LocalTypes
  DEF LocalInv, OneOpen, SnapshotHolds, Parked, ReviewsFinished, AsksApproved, Finished, Approved,
      Disposition, Ticking, Open, lifecycle, planning, work, models, external, workers, Runnable
<1> QED BY <1>3, <1>4, <1>5 DEF LocalInv

LEMMA SettleLocal ==
    ASSUME NEW e, Local(e), TypeOK, LocalInv(e), NEW result \in {"completed", "failed", "unknown"}, SettleTool(e, result)
    PROVE  LocalInv(e)'
<1>0. /\ [NoTool EXCEPT !.key = tool.key, !.receipt = "unknown"].key = tool.key
      /\ [NoTool EXCEPT !.key = tool.key, !.receipt = "unknown"].receipt = "unknown"
      /\ [NoTool EXCEPT !.key = tool.key, !.receipt = "unknown"].token = NoEngine
      /\ ~ [NoTool EXCEPT !.key = tool.key, !.receipt = "unknown"].inFlight
  BY DEF NoTool
<1>1. /\ pc[e] = "invoking" /\ pc'[e] = "idle" /\ tool.key = ctx[e].call /\ tool.token = e
      /\ tool'.token = NoEngine /\ ~tool'.inFlight
      /\ \/ tool'.key = tool.key /\ tool'.receipt = "unknown"
         \/ tool'.key = 0 /\ tool'.receipt = "none"
      /\ \/ UNCHANGED <<status, resumeStatus>>
         \/ status \notin Terminal /\ \E s \in {"unknown", "failed", "running"} : Settled(s)
      /\ UNCHANGED <<disposition, planning, work, models, action, history>>
  BY <1>0, EngineGoes, LocalTypes DEF SettleTool, HoldsTool, NoTool
<1>2. Started' = Started /\ Unknown' = Unknown
  BY <1>1, CallsKept DEF models
<1>3. OneOpen' /\ SnapshotHolds(e)'
  BY <1>1, <1>2, LocalTypes
  DEF LocalInv, OneOpen, SnapshotHolds, Parked, Open, lifecycle, models, external, Runnable,
      workers, Settled, Terminal
<1>4. KeysFresh' /\ InvokedOnce(e)' /\ AskedFirst(e)'
  BY <1>1, <1>2, LocalTypes
  DEF LocalInv, OneOpen, SnapshotHolds, KeysFresh, InvokedOnce, AskedFirst, Waiting, Parked, Open,
      lifecycle, models, external, history, workers, Runnable, Settled, Terminal
<1>5. Parked(e)' /\ ReviewsFinished(e)' /\ AsksApproved(e)'
  BY <1>1, <1>2, LocalTypes
  DEF LocalInv, OneOpen, SnapshotHolds, Parked, ReviewsFinished, AsksApproved, Finished, Approved,
      Disposition, Ticking, Open, lifecycle, planning, work, models, external, workers, Runnable,
      Settled, Terminal
<1> QED BY <1>3, <1>4, <1>5 DEF LocalInv

LEMMA FinishLocal ==
    ASSUME NEW e, Local(e), TypeOK, LocalInv(e), FinishExecution(e)
    PROVE  LocalInv(e)'
<1>1. /\ pc[e] = "finishing" /\ pc'[e] = "idle" /\ Finished
      /\ \/ UNCHANGED <<status, resumeStatus, preserved>>
         \/ status = "running" /\ status' = "succeeded" /\ resumeStatus' = "none" /\ preserved'
         \/ status = "running" /\ status' = "reviewing" /\ UNCHANGED <<resumeStatus, preserved>>
      /\ UNCHANGED <<disposition, planning, done, models, external, history>>
  BY EngineGoes, LocalTypes DEF FinishExecution, Preserve, LocalInv, ReviewsFinished
<1>2. Started' = Started /\ Unknown' = Unknown
  BY <1>1, CallsKept DEF models
<1>3. OneOpen' /\ SnapshotHolds(e)'
  BY <1>1, <1>2, LocalTypes
  DEF LocalInv, OneOpen, SnapshotHolds, Parked, Open, lifecycle, models, external, Runnable, workers
<1>4. KeysFresh' /\ InvokedOnce(e)' /\ AskedFirst(e)'
  BY <1>1, <1>2, LocalTypes
  DEF LocalInv, OneOpen, SnapshotHolds, KeysFresh, InvokedOnce, AskedFirst, Waiting, Parked, Open,
      lifecycle, models, external, history, workers, Runnable
<1>5. Parked(e)' /\ ReviewsFinished(e)' /\ AsksApproved(e)'
  BY <1>1, <1>2, LocalTypes
  DEF LocalInv, OneOpen, SnapshotHolds, Parked, ReviewsFinished, AsksApproved, Finished, Approved,
      Disposition, Ticking, Open, lifecycle, planning, work, models, external, workers, Runnable
<1> QED BY <1>3, <1>4, <1>5 DEF LocalInv

LEMMA ThrowLocal ==
    ASSUME NEW e, Local(e), TypeOK, LocalInv(e), Throw(e)
    PROVE  LocalInv(e)'
<1>1. /\ pc[e] = "throwing" /\ pc'[e] = "idle"
      /\ \/ UNCHANGED <<status, resumeStatus>>
         \/ status \notin Terminal \cup {"unknown"} /\ Land("failed")
      /\ UNCHANGED <<disposition, planning, work, models, external, history>>
  BY EngineGoes, LocalTypes DEF Throw
<1>2. Started' = Started /\ Unknown' = Unknown
  BY <1>1, CallsKept DEF models
<1>3. OneOpen' /\ SnapshotHolds(e)'
  BY <1>1, <1>2, LocalTypes
  DEF LocalInv, OneOpen, SnapshotHolds, Parked, Open, lifecycle, models, external, Runnable,
      workers, Land, Terminal
<1>4. KeysFresh' /\ InvokedOnce(e)' /\ AskedFirst(e)'
  BY <1>1, <1>2, LocalTypes
  DEF LocalInv, OneOpen, SnapshotHolds, KeysFresh, InvokedOnce, AskedFirst, Waiting, Parked, Open,
      lifecycle, models, external, history, workers, Runnable, Land, Terminal
<1>5. Parked(e)' /\ ReviewsFinished(e)' /\ AsksApproved(e)'
  BY <1>1, <1>2, LocalTypes
  DEF LocalInv, OneOpen, SnapshotHolds, Parked, ReviewsFinished, AsksApproved, Finished, Approved,
      Disposition, Ticking, Open, lifecycle, planning, work, models, external, workers, Runnable,
      Land, Terminal
<1> QED BY <1>3, <1>4, <1>5 DEF LocalInv

LEMMA ExhaustedLocal ==
    ASSUME NEW e, Local(e), TypeOK, LocalInv(e), Exhausted(e)
    PROVE  LocalInv(e)'
<1>1. /\ pc[e] = "exhausted" /\ pc'[e] = "idle"
      /\ \/ status \notin Terminal \cup {"unknown", "paused"} /\ status' = "succeeded" /\ resumeStatus' = "none" /\ preserved'
         \/ UNCHANGED <<status, resumeStatus, preserved, done>>
         \/ status \notin Terminal \cup {"unknown"} /\ Land("failed") /\ UNCHANGED <<preserved, done>>
      /\ UNCHANGED <<disposition, planning, models, external, history>>
  BY EngineGoes, LocalTypes DEF Exhausted, Preserve
<1>2. Started' = Started /\ Unknown' = Unknown
  BY <1>1, CallsKept DEF models
<1>3. OneOpen' /\ SnapshotHolds(e)'
  BY <1>1, <1>2, LocalTypes
  DEF LocalInv, OneOpen, SnapshotHolds, Parked, Open, lifecycle, models, external, Runnable,
      workers, Land, Terminal
<1>4. KeysFresh' /\ InvokedOnce(e)' /\ AskedFirst(e)'
  BY <1>1, <1>2, LocalTypes
  DEF LocalInv, OneOpen, SnapshotHolds, KeysFresh, InvokedOnce, AskedFirst, Waiting, Parked, Open,
      lifecycle, models, external, history, workers, Runnable, Land, Terminal
<1>5. Parked(e)' /\ ReviewsFinished(e)' /\ AsksApproved(e)'
  BY <1>1, <1>2, LocalTypes
  DEF LocalInv, OneOpen, SnapshotHolds, Parked, ReviewsFinished, AsksApproved, Finished, Approved,
      Disposition, Ticking, Open, lifecycle, planning, work, models, external, workers, Runnable,
      Land, Terminal
<1> QED BY <1>3, <1>4, <1>5 DEF LocalInv

\* The durable fence lets a reservation through only for the call the tick was about.
LEMMA ReserveFinds ==
    ASSUME NEW e, Local(e), IInv, Reserve(e)
    PROVE  /\ pc[e] = "reserve" /\ ctx[e].call \in CallIds
           /\ UNCHANGED <<planning, work, external, invoked>>
           /\ \/ pc'[e] \in {"idle", "throwing"} /\ UNCHANGED <<lifecycle, models>>
              \/ /\ pc'[e] = "asking" /\ UNCHANGED <<resumeStatus, disposition, ctx>>
                 /\ status \in Runnable /\ status' \in {status, "planning"}
                 /\ ctx[e].fresh => ctx[e].call = ncalls + 1 /\ ncalls' = ctx[e].call
                 /\ ~ctx[e].fresh => ctx[e].call \in Unknown /\ ncalls' = ncalls
                 /\ Started \subseteq {ctx[e].call} /\ resumeCall' = 0
                 /\ Started' = Started \cup {ctx[e].call} /\ Unknown' = Unknown \ {ctx[e].call}
<1>1. pc[e] = "reserve" /\ ctx[e].call \in CallIds /\ UNCHANGED <<planning, work, external, invoked>>
  BY LocalTypes DEF Reserve, IInv, RequestInRange
<1>2. CASE Rest(e) /\ UNCHANGED <<lifecycle, models>>
  BY <1>1, <1>2, EngineGoes, LocalTypes DEF IInv
<1>3. CASE Goto(e, "throwing") /\ UNCHANGED <<lifecycle, models>>
  BY <1>1, <1>3, EngineGoes, LocalTypes DEF IInv
<1>4. CASE /\ status \in Runnable /\ Started \ {ctx[e].call} = {}
           /\ ~ (ctx[e].fresh /\ ncalls + 1 # ctx[e].call)
           /\ ~ (~ctx[e].fresh /\ calls[ctx[e].call].state # "unknown")
           /\ calls' = [calls EXCEPT ![ctx[e].call] = CallStarted(e)]
           /\ ncalls' = IF ctx[e].fresh THEN ctx[e].call ELSE ncalls
           /\ resumeCall' = 0
           /\ status' = IF ctx[e].phase = "planner" THEN "planning" ELSE status
           /\ Goto(e, "asking")
           /\ UNCHANGED <<resumeStatus, disposition, staged, ctx>>
  <2>1. Started' = Started \cup {ctx[e].call} /\ Unknown' = Unknown \ {ctx[e].call}
    BY <1>1, <1>4, CallReserved DEF IInv
  <2>2. pc'[e] = "asking"
    BY <1>4, EngineGoes, LocalTypes DEF IInv
  <2>3. ~ctx[e].fresh => ctx[e].call \in Unknown
    BY <1>1, <1>4 DEF Unknown, CallsIn
  <2>4. /\ status' \in {status, "planning"}
        /\ ctx[e].fresh => ctx[e].call = ncalls + 1 /\ ncalls' = ctx[e].call
        /\ ~ctx[e].fresh => ncalls' = ncalls
    BY <1>4
  <2> QED BY <1>1, <1>4, <2>1, <2>2, <2>3, <2>4
<1> QED BY <1>1, <1>2, <1>3, <1>4 DEF Reserve

LEMMA ReserveRefusedLocal ==
    ASSUME NEW e, Local(e), IInv, LocalInv(e), Reserve(e), UNCHANGED <<lifecycle, models>>, pc'[e] # "asking"
    PROVE  LocalInv(e)'
<1>1. /\ pc[e] = "reserve" /\ pc'[e] \in {"idle", "throwing"}
      /\ UNCHANGED <<lifecycle, planning, work, models, external, invoked>>
  BY ReserveFinds
<1>2. Started' = Started /\ Unknown' = Unknown
  BY <1>1, CallsKept DEF models
<1>3. OneOpen' /\ SnapshotHolds(e)'
  BY <1>1, <1>2, LocalTypes
  DEF LocalInv, OneOpen, SnapshotHolds, Parked, Open, lifecycle, models, external, Runnable,
      workers, IInv
<1>4. KeysFresh' /\ InvokedOnce(e)' /\ AskedFirst(e)'
  BY <1>1, <1>2, LocalTypes
  DEF LocalInv, OneOpen, SnapshotHolds, KeysFresh, InvokedOnce, AskedFirst, Waiting, Parked, Open,
      lifecycle, models, external, history, workers, Runnable, IInv
<1>5. Parked(e)' /\ ReviewsFinished(e)' /\ AsksApproved(e)'
  BY <1>1, <1>2, LocalTypes
  DEF LocalInv, OneOpen, SnapshotHolds, Parked, ReviewsFinished, AsksApproved, Finished, Approved,
      Disposition, Ticking, Open, lifecycle, planning, work, models, external, workers, Runnable,
      IInv
<1> QED BY <1>3, <1>4, <1>5 DEF LocalInv

LEMMA ReserveMadeLocal ==
    ASSUME NEW e, Local(e), IInv, LocalInv(e), Reserve(e), pc'[e] = "asking"
    PROVE  LocalInv(e)'
<1>1. /\ pc[e] = "reserve" /\ ctx[e].call \in CallIds
      /\ UNCHANGED <<resumeStatus, disposition, planning, work, external, invoked, ctx>>
      /\ status \in Runnable /\ status' \in {status, "planning"}
      /\ ctx[e].fresh => ctx[e].call = ncalls + 1 /\ ncalls' = ctx[e].call
      /\ ~ctx[e].fresh => ctx[e].call \in Unknown /\ ncalls' = ncalls
      /\ Started' = {ctx[e].call} /\ Unknown' = {} /\ resumeCall' = 0
  BY ReserveFinds DEF LocalInv, OneOpen, SnapshotHolds, Open, lifecycle
<1>2. OneOpen' /\ SnapshotHolds(e)'
  BY <1>1, LocalTypes
  DEF LocalInv, OneOpen, SnapshotHolds, Parked, Open, lifecycle, models, external, Runnable,
      workers, IInv
<1>3. KeysFresh' /\ InvokedOnce(e)' /\ AskedFirst(e)'
  BY <1>1, LocalTypes
  DEF LocalInv, OneOpen, SnapshotHolds, KeysFresh, InvokedOnce, AskedFirst, Waiting, Parked, Open,
      lifecycle, models, external, history, workers, Runnable, IInv
<1>4. Parked(e)' /\ ReviewsFinished(e)' /\ AsksApproved(e)'
  BY <1>1, LocalTypes
  DEF LocalInv, OneOpen, SnapshotHolds, Parked, ReviewsFinished, AsksApproved, Finished, Approved,
      Disposition, Ticking, Open, lifecycle, planning, work, models, external, workers, Runnable,
      IInv
<1> QED BY <1>2, <1>3, <1>4 DEF LocalInv

\* An answer settles the one open call: then nothing is outside.
LEMMA ReceiptLocal ==
    ASSUME NEW e, Local(e), IInv, LocalInv(e), Asking(e),
           NEW state \in {"completed", "discarded", "failed", "unknown"}, SetCall(ctx[e].call, state)
    PROVE  /\ pc[e] = "asking" /\ Started = {ncalls} /\ Unknown = {} /\ ctx[e].call = ncalls
           /\ ncalls \in CallIds /\ tool.key = 0 /\ Started' = {}
           /\ Unknown' = IF state = "unknown" THEN {ncalls} ELSE {}
<1>1. ctx[e].call \in Started /\ ctx[e].call \in CallIds /\ pc[e] = "asking"
  BY LocalTypes DEF Asking, LocalInv, SnapshotHolds, IInv
<1>2. Started \cap Unknown = {}
  BY DEF Started, Unknown, CallsIn
<1>3. Started = {ncalls} /\ Unknown = {} /\ ctx[e].call = ncalls /\ tool.key = 0
  BY <1>1, <1>2 DEF LocalInv, OneOpen, Open
<1>4. state \in CallStates \ {"started"}
  BY DEF CallStates
<1> QED BY <1>1, <1>3, <1>4, CallSettled DEF IInv

LEMMA DiscardedLocal ==
    ASSUME NEW e, Local(e), IInv, LocalInv(e), AnswerDiscarded(e)
    PROVE  LocalInv(e)'
<1>0. Asking(e) /\ Receive(e, "discarded") /\ SetCall(ctx[e].call, "discarded")
  BY DEF AnswerDiscarded, Answered, Receive
<1>1. /\ pc[e] = "asking" /\ Started = {ncalls} /\ Unknown = {} /\ tool.key = 0 /\ ncalls \in CallIds
      /\ Started' = {} /\ Unknown' = {}
      /\ pc'[e] = "idle" /\ disposition' = "none" /\ UNCHANGED <<ncalls, resumeCall, history>>
      /\ UNCHANGED <<status, resumeStatus, planning, work, external>>
  BY <1>0, EngineGoes, LocalTypes, ReceiptLocal DEF AnswerDiscarded, Answered, Receive, IInv
<1>2. OneOpen' /\ SnapshotHolds(e)'
  BY <1>1, LocalTypes
  DEF LocalInv, OneOpen, SnapshotHolds, Parked, Open, lifecycle, models, external, Runnable,
      workers, IInv
<1>3. KeysFresh' /\ InvokedOnce(e)' /\ AskedFirst(e)'
  BY <1>1, LocalTypes
  DEF LocalInv, OneOpen, SnapshotHolds, KeysFresh, InvokedOnce, AskedFirst, Waiting, Parked, Open,
      lifecycle, models, external, history, workers, Runnable, IInv
<1>4. Parked(e)' /\ ReviewsFinished(e)' /\ AsksApproved(e)'
  BY <1>1, LocalTypes
  DEF LocalInv, OneOpen, SnapshotHolds, Parked, ReviewsFinished, AsksApproved, Finished, Approved,
      Disposition, Ticking, Open, lifecycle, planning, work, models, external, workers, Runnable,
      IInv
<1> QED BY <1>2, <1>3, <1>4 DEF LocalInv

LEMMA PlanLocal ==
    ASSUME NEW e, Local(e), IInv, LocalInv(e), AnswerPlan(e)
    PROVE  LocalInv(e)'
<1>0. Asking(e) /\ Receive(e, "completed") /\ SetCall(ctx[e].call, "completed")
  BY DEF AnswerPlan, Answered, Receive
<1>1. /\ pc[e] = "asking" /\ Started = {ncalls} /\ Unknown = {} /\ tool.key = 0 /\ ncalls \in CallIds
      /\ Started' = {} /\ Unknown' = {}
      /\ pc'[e] = "idle" /\ disposition' = "none" /\ UNCHANGED <<ncalls, resumeCall, history>>
      /\ status \notin Terminal /\ (Land("running") \/ Land("needs_approval"))
      /\ UNCHANGED <<preserved, external>>
  BY <1>0, EngineGoes, LocalTypes, ReceiptLocal DEF AnswerPlan, Answered, Receive, IInv
<1>2. OneOpen' /\ SnapshotHolds(e)'
  BY <1>1, LocalTypes
  DEF LocalInv, OneOpen, SnapshotHolds, Parked, Open, lifecycle, models, external, Runnable,
      workers, IInv, Land, Terminal
<1>3. KeysFresh' /\ InvokedOnce(e)' /\ AskedFirst(e)'
  BY <1>1, LocalTypes
  DEF LocalInv, OneOpen, SnapshotHolds, KeysFresh, InvokedOnce, AskedFirst, Waiting, Parked, Open,
      lifecycle, models, external, history, workers, Runnable, IInv, Land, Terminal
<1>4. Parked(e)' /\ ReviewsFinished(e)' /\ AsksApproved(e)'
  BY <1>1, LocalTypes
  DEF LocalInv, OneOpen, SnapshotHolds, Parked, ReviewsFinished, AsksApproved, Finished, Approved,
      Disposition, Ticking, Open, lifecycle, planning, work, models, external, workers, Runnable,
      IInv, Land, Terminal
<1> QED BY <1>2, <1>3, <1>4 DEF LocalInv

LEMMA StepLocal ==
    ASSUME NEW e, Local(e), IInv, LocalInv(e), AnswerStep(e) \/ AnswerQuestion(e)
    PROVE  LocalInv(e)'
<1>0. Asking(e) /\ Receive(e, "completed") /\ SetCall(ctx[e].call, "completed")
  BY DEF AnswerStep, AnswerQuestion, Answered, Receive
<1>1. /\ pc[e] = "asking" /\ Started = {ncalls} /\ Unknown = {} /\ tool.key = 0 /\ ncalls \in CallIds
      /\ Started' = {} /\ Unknown' = {}
      /\ pc'[e] = "idle" /\ disposition' = "none" /\ UNCHANGED <<ncalls, resumeCall, history>>
      /\ status \notin Terminal /\ \E s \in {Base, "failed", "needs_input"} : Land(s)
      /\ UNCHANGED <<planning, work, external>>
  BY <1>0, EngineGoes, LocalTypes, ReceiptLocal
  DEF AnswerStep, AnswerQuestion, Answered, Receive, IInv
<1>2. OneOpen' /\ SnapshotHolds(e)'
  BY <1>1, LocalTypes
  DEF LocalInv, OneOpen, SnapshotHolds, Parked, Open, lifecycle, models, external, Runnable,
      workers, IInv, Land, Terminal, Base, Resumed
<1>3. KeysFresh' /\ InvokedOnce(e)' /\ AskedFirst(e)'
  BY <1>1, LocalTypes
  DEF LocalInv, OneOpen, SnapshotHolds, KeysFresh, InvokedOnce, AskedFirst, Waiting, Parked, Open,
      lifecycle, models, external, history, workers, Runnable, IInv, Land, Terminal, Base, Resumed
<1>4. Parked(e)' /\ ReviewsFinished(e)' /\ AsksApproved(e)'
  BY <1>1, LocalTypes
  DEF LocalInv, OneOpen, SnapshotHolds, Parked, ReviewsFinished, AsksApproved, Finished, Approved,
      Disposition, Ticking, Open, lifecycle, planning, work, models, external, workers, Runnable,
      IInv, Land, Terminal, Base, Resumed
<1> QED BY <1>2, <1>3, <1>4 DEF LocalInv

LEMMA MalformedLocal ==
    ASSUME NEW e, Local(e), IInv, LocalInv(e), NEW phase, AnswerMalformed(e, phase)
    PROVE  LocalInv(e)'
<1>0. Asking(e) /\ Receive(e, "completed") /\ SetCall(ctx[e].call, "completed")
  BY DEF AnswerMalformed, Answered, Receive
<1>1. /\ pc[e] = "asking" /\ Started = {ncalls} /\ Unknown = {} /\ tool.key = 0 /\ ncalls \in CallIds
      /\ Started' = {} /\ Unknown' = {}
      /\ pc'[e] = "idle" /\ disposition' = "none" /\ UNCHANGED <<ncalls, resumeCall, history>>
      /\ status \notin Terminal /\ \E s \in {Base, "failed"} : Land(s)
      /\ UNCHANGED <<plan, work, external>>
  BY <1>0, EngineGoes, LocalTypes, ReceiptLocal DEF AnswerMalformed, Answered, Receive, IInv
<1>2. OneOpen' /\ SnapshotHolds(e)'
  BY <1>1, LocalTypes
  DEF LocalInv, OneOpen, SnapshotHolds, Parked, Open, lifecycle, models, external, Runnable,
      workers, IInv, Land, Terminal, Base, Resumed
<1>3. KeysFresh' /\ InvokedOnce(e)' /\ AskedFirst(e)'
  BY <1>1, LocalTypes
  DEF LocalInv, OneOpen, SnapshotHolds, KeysFresh, InvokedOnce, AskedFirst, Waiting, Parked, Open,
      lifecycle, models, external, history, workers, Runnable, IInv, Land, Terminal, Base, Resumed
<1>4. Parked(e)' /\ ReviewsFinished(e)' /\ AsksApproved(e)'
  BY <1>1, LocalTypes
  DEF LocalInv, OneOpen, SnapshotHolds, Parked, ReviewsFinished, AsksApproved, Finished, Approved,
      Disposition, Ticking, Open, lifecycle, planning, work, models, external, workers, Runnable,
      IInv, Land, Terminal, Base, Resumed
<1> QED BY <1>2, <1>3, <1>4 DEF LocalInv

LEMMA FinishedLocal ==
    ASSUME NEW e, Local(e), IInv, LocalInv(e), AnswerFinish(e)
    PROVE  LocalInv(e)'
<1>0. Asking(e) /\ Receive(e, "completed") /\ SetCall(ctx[e].call, "completed")
  BY DEF AnswerFinish, Answered, Receive
<1>a. ctx[e].task \in Tasks /\ done \subseteq Tasks
  BY LocalTypes DEF AnswerFinish, Answered, Asking, IInv, RequestInRange, TypeOK
<1>1. /\ pc[e] = "asking" /\ Started = {ncalls} /\ Unknown = {} /\ tool.key = 0 /\ ncalls \in CallIds
      /\ Started' = {} /\ Unknown' = {}
      /\ pc'[e] = "idle" /\ disposition' = "none" /\ UNCHANGED <<ncalls, resumeCall, history>>
      /\ status \notin Terminal /\ Land(Base)
      /\ done \subseteq done' /\ done' \subseteq Tasks /\ UNCHANGED <<planning, preserved, external>>
  BY <1>0, <1>a, EngineGoes, LocalTypes, ReceiptLocal DEF AnswerFinish, Answered, Receive, IInv
<1>2. OneOpen' /\ SnapshotHolds(e)'
  BY <1>1, LocalTypes
  DEF LocalInv, OneOpen, SnapshotHolds, Parked, Open, lifecycle, models, external, Runnable,
      workers, IInv, Land, Terminal, Base, Resumed
<1>3. KeysFresh' /\ InvokedOnce(e)' /\ AskedFirst(e)'
  BY <1>1, LocalTypes
  DEF LocalInv, OneOpen, SnapshotHolds, KeysFresh, InvokedOnce, AskedFirst, Waiting, Parked, Open,
      lifecycle, models, external, history, workers, Runnable, IInv, Land, Terminal, Base, Resumed
<1>4. Parked(e)' /\ ReviewsFinished(e)' /\ AsksApproved(e)'
  BY <1>1, LocalTypes
  DEF LocalInv, OneOpen, SnapshotHolds, Parked, ReviewsFinished, AsksApproved, Finished, Approved,
      Disposition, Ticking, Open, lifecycle, planning, work, models, external, workers, Runnable,
      IInv, Land, Terminal, Base, Resumed
<1> QED BY <1>2, <1>3, <1>4 DEF LocalInv

LEMMA ToolLocal ==
    ASSUME NEW e, Local(e), IInv, LocalInv(e), AnswerTool(e)
    PROVE  LocalInv(e)'
<1>0. Asking(e) /\ Receive(e, "completed") /\ SetCall(ctx[e].call, "completed")
  BY DEF AnswerTool, NoTool, Answered, Receive
<1>1. /\ pc[e] = "asking" /\ Started = {ncalls} /\ Unknown = {} /\ tool.key = 0 /\ ncalls \in CallIds
      /\ Started' = {} /\ Unknown' = {}
      /\ pc'[e] = "idle" /\ disposition' = "none" /\ UNCHANGED <<ncalls, resumeCall, history>>
      /\ tool'.receipt = "none" /\ tool'.token = NoEngine /\ ~tool'.inFlight
      /\ status \notin Terminal
      /\ \/ tool'.key = ncalls /\ Land(Base) /\ UNCHANGED action
         \/ tool'.key = ncalls /\ action'.key = ncalls /\ action'.status = "pending" /\ Land("needs_approval")
         \/ tool'.key = 0 /\ (\E s \in {Base, "failed"} : Land(s)) /\ UNCHANGED action
      /\ UNCHANGED <<planning, work>>
  BY <1>0, EngineGoes, LocalTypes, ReceiptLocal DEF AnswerTool, NoTool, Answered, Receive, IInv
<1>2. OneOpen' /\ SnapshotHolds(e)'
  BY <1>1, LocalTypes
  DEF LocalInv, OneOpen, SnapshotHolds, Parked, Open, lifecycle, models, external, Runnable,
      workers, IInv, Land, Terminal, Base, Resumed
<1>3. KeysFresh' /\ InvokedOnce(e)' /\ AskedFirst(e)'
  BY <1>1, LocalTypes
  DEF LocalInv, OneOpen, SnapshotHolds, KeysFresh, InvokedOnce, AskedFirst, Waiting, Parked, Open,
      lifecycle, models, external, history, workers, Runnable, IInv, Land, Terminal, Base, Resumed
<1>4. Parked(e)' /\ ReviewsFinished(e)' /\ AsksApproved(e)'
  BY <1>1, LocalTypes
  DEF LocalInv, OneOpen, SnapshotHolds, Parked, ReviewsFinished, AsksApproved, Finished, Approved,
      Disposition, Ticking, Open, lifecycle, planning, work, models, external, workers, Runnable,
      IInv, Land, Terminal, Base, Resumed
<1> QED BY <1>2, <1>3, <1>4 DEF LocalInv

LEMMA ReviewLocal ==
    ASSUME NEW e, Local(e), IInv, LocalInv(e), AnswerReview(e)
    PROVE  LocalInv(e)'
<1>0. Asking(e) /\ Receive(e, "completed") /\ SetCall(ctx[e].call, "completed")
  BY DEF AnswerReview, LocalInv, ReviewsFinished, Answered, Receive
<1>1. /\ pc[e] = "asking" /\ Started = {ncalls} /\ Unknown = {} /\ tool.key = 0 /\ ncalls \in CallIds
      /\ Started' = {} /\ Unknown' = {}
      /\ pc'[e] = "idle" /\ disposition' = "none" /\ UNCHANGED <<ncalls, resumeCall, history>>
      /\ status \notin Terminal /\ Finished
      /\ \/ Land("succeeded") /\ UNCHANGED done
         \/ Land("running")
         \/ Land("failed") /\ UNCHANGED done
      /\ UNCHANGED <<plan, preserved, external>>
  BY <1>0, EngineGoes, LocalTypes, ReceiptLocal
  DEF AnswerReview, LocalInv, ReviewsFinished, Answered, Receive, IInv
<1>2. OneOpen' /\ SnapshotHolds(e)'
  BY <1>1, LocalTypes
  DEF LocalInv, OneOpen, SnapshotHolds, Parked, Open, lifecycle, models, external, Runnable,
      workers, IInv, Land, Terminal
<1>3. KeysFresh' /\ InvokedOnce(e)' /\ AskedFirst(e)'
  BY <1>1, LocalTypes
  DEF LocalInv, OneOpen, SnapshotHolds, KeysFresh, InvokedOnce, AskedFirst, Waiting, Parked, Open,
      lifecycle, models, external, history, workers, Runnable, IInv, Land, Terminal
<1>4. Parked(e)' /\ ReviewsFinished(e)' /\ AsksApproved(e)'
  BY <1>1, LocalTypes
  DEF LocalInv, OneOpen, SnapshotHolds, Parked, ReviewsFinished, AsksApproved, Finished, Approved,
      Disposition, Ticking, Open, lifecycle, planning, work, models, external, workers, Runnable,
      IInv, Land, Terminal
<1> QED BY <1>2, <1>3, <1>4 DEF LocalInv

LEMMA FailsLocal ==
    ASSUME NEW e, Local(e), IInv, LocalInv(e), AnswerFails(e)
    PROVE  LocalInv(e)'
<1>0. Asking(e) /\ SetCall(ctx[e].call, "failed")
  BY DEF AnswerFails, Answered, Receive
<1>1. /\ pc[e] = "asking" /\ Started = {ncalls} /\ Unknown = {} /\ tool.key = 0 /\ ncalls \in CallIds
      /\ Started' = {} /\ Unknown' = {}
      /\ pc'[e] = "throwing"
      /\ UNCHANGED <<lifecycle, planning, work, ncalls, resumeCall, external, history>>
  BY <1>0, EngineGoes, LocalTypes, ReceiptLocal DEF AnswerFails, Answered, Receive, IInv
<1>2. OneOpen' /\ SnapshotHolds(e)'
  BY <1>1, LocalTypes
  DEF LocalInv, OneOpen, SnapshotHolds, Parked, Open, lifecycle, models, external, Runnable,
      workers, IInv
<1>3. KeysFresh' /\ InvokedOnce(e)' /\ AskedFirst(e)'
  BY <1>1, LocalTypes
  DEF LocalInv, OneOpen, SnapshotHolds, KeysFresh, InvokedOnce, AskedFirst, Waiting, Parked, Open,
      lifecycle, models, external, history, workers, Runnable, IInv
<1>4. Parked(e)' /\ ReviewsFinished(e)' /\ AsksApproved(e)'
  BY <1>1, LocalTypes
  DEF LocalInv, OneOpen, SnapshotHolds, Parked, ReviewsFinished, AsksApproved, Finished, Approved,
      Disposition, Ticking, Open, lifecycle, planning, work, models, external, workers, Runnable,
      IInv
<1> QED BY <1>2, <1>3, <1>4 DEF LocalInv

LEMMA LostLocal ==
    ASSUME NEW e, Local(e), IInv, LocalInv(e), AnswerLost(e)
    PROVE  LocalInv(e)'
<1>0. Asking(e) /\ SetCall(ctx[e].call, "unknown")
  BY DEF AnswerLost, Preserve, Answered, Receive
<1>a. UNCHANGED <<planning, done, ncalls, resumeCall, external, history>>
  BY DEF AnswerLost
<1>b. pc'[e] \in {"throwing", "idle"}
  BY EngineGoes, LocalTypes DEF AnswerLost, IInv
<1>c. \/ status \in Terminal /\ UNCHANGED <<status, resumeStatus, preserved>> /\ (status = "cancelled" => disposition' = "cancelled")
      \/ status \notin Terminal /\ status' = "unknown" /\ resumeStatus' = Base /\ UNCHANGED preserved
      \/ status \notin Terminal /\ status' = "succeeded" /\ resumeStatus' = "none" /\ preserved' = TRUE
  <2>1. CASE status \in Terminal
    BY <2>1 DEF AnswerLost
  <2>2. CASE status \notin Terminal
    BY <2>2 DEF AnswerLost, Preserve
  <2> QED BY <2>1, <2>2
<1>1. /\ pc[e] = "asking" /\ Started = {ncalls} /\ Unknown = {} /\ tool.key = 0 /\ ncalls \in CallIds
      /\ Started' = {} /\ Unknown' = {ncalls}
      /\ pc'[e] \in {"throwing", "idle"}
      /\ \/ status \in Terminal /\ UNCHANGED <<status, resumeStatus, preserved>> /\ (status = "cancelled" => disposition' = "cancelled")
         \/ status \notin Terminal /\ status' = "unknown" /\ resumeStatus' = Base /\ UNCHANGED preserved
         \/ status \notin Terminal /\ status' = "succeeded" /\ resumeStatus' = "none" /\ preserved'
      /\ UNCHANGED <<planning, done, ncalls, resumeCall, external, history>>
  BY <1>0, <1>a, <1>b, <1>c, EngineGoes, LocalTypes, ReceiptLocal
  DEF AnswerLost, Preserve, Answered, Receive, IInv
<1>2. OneOpen' /\ SnapshotHolds(e)'
  BY <1>1, LocalTypes
  DEF LocalInv, OneOpen, SnapshotHolds, Parked, Open, lifecycle, models, external, Runnable,
      workers, IInv, Terminal, Base, Resumed
<1>3. KeysFresh' /\ InvokedOnce(e)' /\ AskedFirst(e)'
  BY <1>1, LocalTypes
  DEF LocalInv, OneOpen, SnapshotHolds, KeysFresh, InvokedOnce, AskedFirst, Waiting, Parked, Open,
      lifecycle, models, external, history, workers, Runnable, IInv, Terminal, Base, Resumed
<1>4. Parked(e)' /\ ReviewsFinished(e)' /\ AsksApproved(e)'
  BY <1>1, LocalTypes
  DEF LocalInv, OneOpen, SnapshotHolds, Parked, ReviewsFinished, AsksApproved, Finished, Approved,
      Disposition, Ticking, Open, lifecycle, planning, work, models, external, workers, Runnable,
      IInv, Terminal, Base, Resumed
<1> QED BY <1>2, <1>3, <1>4 DEF LocalInv

-----------------------------------------------------------------------------
(* Crashes and recovery *)

LEMMA CrashLocal ==
    ASSUME NEW e, Local(e), TypeOK, LocalInv(e), Crash(e)
    PROVE  LocalInv(e)'
<1>1. /\ pc'[e] = "down" /\ \A k \in CallIds : invoked'[k] = invoked[k]
      /\ UNCHANGED <<lifecycle, planning, work, models, external, invoked>>
  BY EngineGoes, LocalTypes DEF Crash
<1>2. Started' = Started /\ Unknown' = Unknown
  BY <1>1, CallsKept DEF models
<1>3. OneOpen' /\ SnapshotHolds(e)'
  BY <1>1, <1>2, LocalTypes
  DEF LocalInv, OneOpen, SnapshotHolds, Parked, Open, lifecycle, models, external, Runnable, workers
<1>4. KeysFresh' /\ InvokedOnce(e)' /\ AskedFirst(e)'
  BY <1>1, <1>2, LocalTypes
  DEF LocalInv, OneOpen, SnapshotHolds, KeysFresh, InvokedOnce, AskedFirst, Waiting, Parked, Open,
      lifecycle, models, external, history, workers, Runnable
<1>5. Parked(e)' /\ ReviewsFinished(e)' /\ AsksApproved(e)'
  BY <1>1, <1>2, LocalTypes
  DEF LocalInv, OneOpen, SnapshotHolds, Parked, ReviewsFinished, AsksApproved, Finished, Approved,
      Disposition, Ticking, Open, lifecycle, planning, work, models, external, workers, Runnable
<1> QED BY <1>3, <1>4, <1>5 DEF LocalInv

LEMMA RestartLocal ==
    ASSUME NEW e, Local(e), TypeOK, LocalInv(e), Restart(e)
    PROVE  LocalInv(e)'
<1>1. /\ pc[e] = "down" /\ pc'[e] \in {"recovering", "requeueing", "idle"}
      /\ pc'[e] = "recovering" <=> Started # {} \/ tool.token # NoEngine \/ tool.inFlight
      /\ pc'[e] = "requeueing" => status = "unknown"
      /\ UNCHANGED <<lifecycle, planning, work, models, external, ctx, history>>
  BY EngineGoes, LocalTypes DEF Restart
<1>2. Started' = Started /\ Unknown' = Unknown
  BY <1>1, CallsKept DEF models
<1>3. OneOpen' /\ SnapshotHolds(e)'
  BY <1>1, <1>2, LocalTypes
  DEF LocalInv, OneOpen, SnapshotHolds, Parked, Open, lifecycle, models, external, Runnable, workers
<1>4. KeysFresh' /\ InvokedOnce(e)' /\ AskedFirst(e)'
  BY <1>1, <1>2, LocalTypes
  DEF LocalInv, OneOpen, SnapshotHolds, KeysFresh, InvokedOnce, AskedFirst, Waiting, Parked, Open,
      lifecycle, models, external, history, workers, Runnable
<1>5. Parked(e)' /\ ReviewsFinished(e)' /\ AsksApproved(e)'
  BY <1>1, <1>2, LocalTypes
  DEF LocalInv, OneOpen, SnapshotHolds, Parked, ReviewsFinished, AsksApproved, Finished, Approved,
      Disposition, Ticking, Open, lifecycle, planning, work, models, external, workers, Runnable
<1> QED BY <1>3, <1>4, <1>5 DEF LocalInv

LEMMA RequeueLocal ==
    ASSUME NEW e, Local(e), TypeOK, LocalInv(e), Requeue(e)
    PROVE  LocalInv(e)'
<1>1. /\ pc[e] = "requeueing" /\ pc'[e] = "idle"
      /\ \/ UNCHANGED <<status, resumeStatus>>
         \/ /\ status = "unknown" /\ Unknown = {} /\ resumeStatus' = "none"
            /\ status' = IF resumeStatus \in Runnable THEN resumeStatus ELSE "running"
      /\ UNCHANGED <<disposition, planning, work, models, external, history>>
  BY EngineGoes, LocalTypes DEF Requeue
<1>2. Started' = Started /\ Unknown' = Unknown
  BY <1>1, CallsKept DEF models
<1>3. OneOpen' /\ SnapshotHolds(e)'
  BY <1>1, <1>2, LocalTypes
  DEF LocalInv, OneOpen, SnapshotHolds, Parked, Open, lifecycle, models, external, Runnable, workers
<1>4. KeysFresh' /\ InvokedOnce(e)' /\ AskedFirst(e)'
  BY <1>1, <1>2, LocalTypes
  DEF LocalInv, OneOpen, SnapshotHolds, KeysFresh, InvokedOnce, AskedFirst, Waiting, Parked, Open,
      lifecycle, models, external, history, workers, Runnable
<1>5. Parked(e)' /\ ReviewsFinished(e)' /\ AsksApproved(e)'
  BY <1>1, <1>2, LocalTypes
  DEF LocalInv, OneOpen, SnapshotHolds, Parked, ReviewsFinished, AsksApproved, Finished, Approved,
      Disposition, Ticking, Open, lifecycle, planning, work, models, external, workers, Runnable
<1> QED BY <1>3, <1>4, <1>5 DEF LocalInv

LEMMA RecoverLocal ==
    ASSUME NEW e, Local(e), TypeOK, LocalInv(e), Recover(e)
    PROVE  LocalInv(e)'
<1>a. pc[e] = "recovering" /\ pc'[e] = "idle" /\ UNCHANGED <<ncalls, resumeCall, planning, work, action, history>>
  BY EngineGoes, LocalTypes DEF Recover
<1>b. Started' = {} /\ Unknown' = Open
  BY CallsSwept DEF Recover
<1>c. /\ tool'.key = tool.key /\ tool'.token = NoEngine /\ ~tool'.inFlight
      /\ tool'.receipt = IF tool.token # NoEngine /\ tool.receipt = "none" THEN "interrupted" ELSE tool.receipt
  <2> DEFINE r == IF tool.token # NoEngine /\ tool.receipt = "none" THEN "interrupted" ELSE tool.receipt
  <2>1. tool' = [tool EXCEPT !.receipt = r, !.token = NoEngine, !.inFlight = FALSE]
    BY DEF Recover
  <2> HIDE DEF r
  <2>2. tool'.key = tool.key /\ tool'.token = NoEngine /\ ~tool'.inFlight /\ tool'.receipt = r
    BY <2>1 DEF TypeOK, Tools
  <2> QED BY <2>2 DEF r
<1>d. /\ disposition' = IF Started = {} \/ status \in {"succeeded", "failed"} THEN disposition
                        ELSE IF status \in {"cancelled", "paused"} THEN status ELSE "running"
      /\ \/ status \in Terminal /\ UNCHANGED <<status, resumeStatus>>
         \/ status = "paused" /\ Started = {} /\ resumeStatus' = "unknown" /\ UNCHANGED status
         \/ /\ status \notin Terminal /\ Started = {} /\ Unknown = {} /\ status # "paused"
            /\ status' \in Runnable /\ resumeStatus' = "none"
            /\ status' \in {Base, "running"}
         \/ /\ status \notin Terminal /\ (status # "paused" \/ Started # {})
            /\ status' = "unknown" /\ resumeStatus' \in {Base, "running"}
  BY DEF Recover, Runnable
<1>1. /\ pc[e] = "recovering" /\ pc'[e] = "idle"
      /\ Started' = {} /\ Unknown' = Open /\ UNCHANGED <<ncalls, resumeCall, planning, work, action, history>>
      /\ tool'.key = tool.key /\ tool'.token = NoEngine /\ ~tool'.inFlight
      /\ tool'.receipt = IF tool.token # NoEngine /\ tool.receipt = "none" THEN "interrupted" ELSE tool.receipt
      /\ disposition' = IF Started = {} \/ status \in {"succeeded", "failed"} THEN disposition
                        ELSE IF status \in {"cancelled", "paused"} THEN status ELSE "running"
      /\ \/ status \in Terminal /\ UNCHANGED <<status, resumeStatus>>
         \/ status = "paused" /\ Started = {} /\ resumeStatus' = "unknown" /\ UNCHANGED status
         \/ /\ status \notin Terminal /\ Started = {} /\ Unknown = {} /\ status # "paused"
            /\ status' \in Runnable /\ resumeStatus' = "none"
            /\ status' \in {Base, "running"}
         \/ /\ status \notin Terminal /\ (status # "paused" \/ Started # {})
            /\ status' = "unknown" /\ resumeStatus' \in {Base, "running"}
  BY <1>a, <1>b, <1>c, <1>d
<1>2. OneOpen' /\ SnapshotHolds(e)'
  BY <1>1, LocalTypes
  DEF LocalInv, OneOpen, SnapshotHolds, Parked, Open, lifecycle, models, external, Runnable,
      workers, Base, Resumed, Terminal
<1>3. KeysFresh' /\ InvokedOnce(e)' /\ AskedFirst(e)'
  BY <1>1, LocalTypes
  DEF LocalInv, OneOpen, SnapshotHolds, KeysFresh, InvokedOnce, AskedFirst, Waiting, Parked, Open,
      lifecycle, models, external, history, workers, Runnable, Base, Resumed, Terminal
<1>4. Parked(e)' /\ ReviewsFinished(e)' /\ AsksApproved(e)'
  BY <1>1, LocalTypes
  DEF LocalInv, OneOpen, SnapshotHolds, Parked, ReviewsFinished, AsksApproved, Finished, Approved,
      Disposition, Ticking, Open, lifecycle, planning, work, models, external, workers, Runnable,
      Base, Resumed, Terminal
<1> QED BY <1>2, <1>3, <1>4 DEF LocalInv

-----------------------------------------------------------------------------
(* The owner *)

\* The serving process is up.
LEMMA ServedLocal == ASSUME NEW e, Local(e) PROVE (Served => Serving(e)) /\ (Inactive => pc[e] = "idle")
BY DEF Served, Inactive, Local

LEMMA ApproveLocal ==
    ASSUME NEW e, Local(e), TypeOK, LocalInv(e), Approve
    PROVE  LocalInv(e)'
<1>1. /\ status = "needs_approval" /\ status' = "running" /\ action.status # "pending" /\ plan' = plan
      /\ UNCHANGED <<resumeStatus, disposition, work, models, external, workers, history>>
  BY ServedLocal, LocalTypes DEF Approve, Reviewing, Serving
<1>2. Started' = Started /\ Unknown' = Unknown
  BY <1>1, CallsKept DEF models
<1>3. OneOpen' /\ SnapshotHolds(e)'
  BY <1>1, <1>2, LocalTypes
  DEF LocalInv, OneOpen, SnapshotHolds, Parked, Open, lifecycle, models, external, Runnable, workers
<1>4. KeysFresh' /\ InvokedOnce(e)' /\ AskedFirst(e)'
  BY <1>1, <1>2, LocalTypes
  DEF LocalInv, OneOpen, SnapshotHolds, KeysFresh, InvokedOnce, AskedFirst, Waiting, Parked, Open,
      lifecycle, models, external, history, workers, Runnable
<1>5. Parked(e)' /\ ReviewsFinished(e)' /\ AsksApproved(e)'
  BY <1>1, <1>2, LocalTypes
  DEF LocalInv, OneOpen, SnapshotHolds, Parked, ReviewsFinished, AsksApproved, Finished, Approved,
      Disposition, Ticking, Open, lifecycle, planning, work, models, external, workers, Runnable
<1> QED BY <1>3, <1>4, <1>5 DEF LocalInv

LEMMA ApproveActionLocal ==
    ASSUME NEW e, Local(e), TypeOK, LocalInv(e), ApproveAction
    PROVE  LocalInv(e)'
<1>1. /\ status = "needs_approval" /\ status' = "running" /\ action.status = "pending"
      /\ action'.status = "approved" /\ action'.key = action.key
      /\ UNCHANGED <<resumeStatus, disposition, planning, work, models, tool, workers, history>>
  BY ServedLocal, LocalTypes DEF ApproveAction, ActionAsked, TypeOK, Serving
<1>2. Started' = Started /\ Unknown' = Unknown
  BY <1>1, CallsKept DEF models
<1>3. OneOpen' /\ SnapshotHolds(e)'
  BY <1>1, <1>2, LocalTypes
  DEF LocalInv, OneOpen, SnapshotHolds, Parked, Open, lifecycle, models, external, Runnable, workers
<1>4. KeysFresh' /\ InvokedOnce(e)' /\ AskedFirst(e)'
  BY <1>1, <1>2, LocalTypes
  DEF LocalInv, OneOpen, SnapshotHolds, KeysFresh, InvokedOnce, AskedFirst, Waiting, Parked, Open,
      lifecycle, models, external, history, workers, Runnable
<1>5. Parked(e)' /\ ReviewsFinished(e)' /\ AsksApproved(e)'
  BY <1>1, <1>2, LocalTypes
  DEF LocalInv, OneOpen, SnapshotHolds, Parked, ReviewsFinished, AsksApproved, Finished, Approved,
      Disposition, Ticking, Open, lifecycle, planning, work, models, external, workers, Runnable
<1> QED BY <1>3, <1>4, <1>5 DEF LocalInv

LEMMA DenyActionLocal ==
    ASSUME NEW e, Local(e), TypeOK, LocalInv(e), DenyAction
    PROVE  LocalInv(e)'
<1>1. /\ status = "needs_approval" /\ status' = "running" /\ action'.key = action.key /\ tool.key = action.key
      /\ tool'.key = 0 /\ tool'.receipt = "none" /\ tool'.token = NoEngine /\ ~tool'.inFlight
      /\ action.key = 0 => action.status = "none"
      /\ action.status = "pending"
      /\ UNCHANGED <<resumeStatus, disposition, planning, work, models, workers, history>>
  BY ServedLocal, LocalTypes
  DEF DenyAction, ActionAsked, TypeOK, NoTool, LocalInv, KeysFresh, Serving
<1>2. Started' = Started /\ Unknown' = Unknown
  BY <1>1, CallsKept DEF models
<1>3. OneOpen' /\ SnapshotHolds(e)'
  BY <1>1, <1>2, LocalTypes
  DEF LocalInv, OneOpen, SnapshotHolds, Parked, Open, lifecycle, models, external, Runnable, workers
<1>4. KeysFresh' /\ InvokedOnce(e)' /\ AskedFirst(e)'
  BY <1>1, <1>2, LocalTypes
  DEF LocalInv, OneOpen, SnapshotHolds, KeysFresh, InvokedOnce, AskedFirst, Waiting, Parked, Open,
      lifecycle, models, external, history, workers, Runnable
<1>5. Parked(e)' /\ ReviewsFinished(e)' /\ AsksApproved(e)'
  BY <1>1, <1>2, LocalTypes
  DEF LocalInv, OneOpen, SnapshotHolds, Parked, ReviewsFinished, AsksApproved, Finished, Approved,
      Disposition, Ticking, Open, lifecycle, planning, work, models, external, workers, Runnable
<1> QED BY <1>3, <1>4, <1>5 DEF LocalInv

LEMMA RevisePlanLocal ==
    ASSUME NEW e, Local(e), TypeOK, LocalInv(e), RevisePlan
    PROVE  LocalInv(e)'
<1>1. /\ status = "needs_approval" /\ status' = "planning" /\ pc[e] = "idle" /\ action.status # "pending"
      /\ UNCHANGED <<resumeStatus, disposition, plan, work, models, external, workers, history>>
  BY ServedLocal, LocalTypes DEF RevisePlan, Reviewing, Serving
<1>2. Started' = Started /\ Unknown' = Unknown
  BY <1>1, CallsKept DEF models
<1>3. OneOpen' /\ SnapshotHolds(e)'
  BY <1>1, <1>2, LocalTypes
  DEF LocalInv, OneOpen, SnapshotHolds, Parked, Open, lifecycle, models, external, Runnable, workers
<1>4. KeysFresh' /\ InvokedOnce(e)' /\ AskedFirst(e)'
  BY <1>1, <1>2, LocalTypes
  DEF LocalInv, OneOpen, SnapshotHolds, KeysFresh, InvokedOnce, AskedFirst, Waiting, Parked, Open,
      lifecycle, models, external, history, workers, Runnable
<1>5. Parked(e)' /\ ReviewsFinished(e)' /\ AsksApproved(e)'
  BY <1>1, <1>2, LocalTypes
  DEF LocalInv, OneOpen, SnapshotHolds, Parked, ReviewsFinished, AsksApproved, Finished, Approved,
      Disposition, Ticking, Open, lifecycle, planning, work, models, external, workers, Runnable
<1> QED BY <1>3, <1>4, <1>5 DEF LocalInv

LEMMA EditPlanLocal ==
    ASSUME NEW e, Local(e), TypeOK, LocalInv(e), EditPlan
    PROVE  LocalInv(e)'
<1>1. /\ status = "needs_approval" /\ UNCHANGED <<lifecycle, preserved, models, external, workers, history>>
  BY ServedLocal, LocalTypes DEF EditPlan, Reviewing, Serving
<1>2. Started' = Started /\ Unknown' = Unknown
  BY <1>1, CallsKept DEF models
<1>3. OneOpen' /\ SnapshotHolds(e)'
  BY <1>1, <1>2, LocalTypes
  DEF LocalInv, OneOpen, SnapshotHolds, Parked, Open, lifecycle, models, external, Runnable, workers
<1>4. KeysFresh' /\ InvokedOnce(e)' /\ AskedFirst(e)'
  BY <1>1, <1>2, LocalTypes
  DEF LocalInv, OneOpen, SnapshotHolds, KeysFresh, InvokedOnce, AskedFirst, Waiting, Parked, Open,
      lifecycle, models, external, history, workers, Runnable
<1>5. Parked(e)' /\ ReviewsFinished(e)' /\ AsksApproved(e)'
  BY <1>1, <1>2, LocalTypes
  DEF LocalInv, OneOpen, SnapshotHolds, Parked, ReviewsFinished, AsksApproved, Finished, Approved,
      Disposition, Ticking, Open, lifecycle, planning, work, models, external, workers, Runnable
<1> QED BY <1>3, <1>4, <1>5 DEF LocalInv

LEMMA AnswerOwnerLocal ==
    ASSUME NEW e, Local(e), TypeOK, LocalInv(e), AnswerOwner
    PROVE  LocalInv(e)'
<1>1. /\ status = "needs_input" /\ status' = "running"
      /\ UNCHANGED <<resumeStatus, disposition, planning, work, models, external, workers, history>>
  BY ServedLocal, LocalTypes DEF AnswerOwner, SetStatus, Serving
<1>2. Started' = Started /\ Unknown' = Unknown
  BY <1>1, CallsKept DEF models
<1>3. OneOpen' /\ SnapshotHolds(e)'
  BY <1>1, <1>2, LocalTypes
  DEF LocalInv, OneOpen, SnapshotHolds, Parked, Open, lifecycle, models, external, Runnable, workers
<1>4. KeysFresh' /\ InvokedOnce(e)' /\ AskedFirst(e)'
  BY <1>1, <1>2, LocalTypes
  DEF LocalInv, OneOpen, SnapshotHolds, KeysFresh, InvokedOnce, AskedFirst, Waiting, Parked, Open,
      lifecycle, models, external, history, workers, Runnable
<1>5. Parked(e)' /\ ReviewsFinished(e)' /\ AsksApproved(e)'
  BY <1>1, <1>2, LocalTypes
  DEF LocalInv, OneOpen, SnapshotHolds, Parked, ReviewsFinished, AsksApproved, Finished, Approved,
      Disposition, Ticking, Open, lifecycle, planning, work, models, external, workers, Runnable
<1> QED BY <1>3, <1>4, <1>5 DEF LocalInv

LEMMA PauseLocal ==
    ASSUME NEW e, Local(e), TypeOK, LocalInv(e), Pause
    PROVE  LocalInv(e)'
<1>1. /\ status \in Runnable /\ status' = "paused" /\ resumeStatus' = status
      /\ UNCHANGED <<disposition, planning, work, models, external, workers, history>>
  BY ServedLocal, LocalTypes DEF Pause, SetStatus, Serving
<1>2. Started' = Started /\ Unknown' = Unknown
  BY <1>1, CallsKept DEF models
<1>3. OneOpen' /\ SnapshotHolds(e)'
  BY <1>1, <1>2, LocalTypes
  DEF LocalInv, OneOpen, SnapshotHolds, Parked, Open, lifecycle, models, external, Runnable, workers
<1>4. KeysFresh' /\ InvokedOnce(e)' /\ AskedFirst(e)'
  BY <1>1, <1>2, LocalTypes
  DEF LocalInv, OneOpen, SnapshotHolds, KeysFresh, InvokedOnce, AskedFirst, Waiting, Parked, Open,
      lifecycle, models, external, history, workers, Runnable
<1>5. Parked(e)' /\ ReviewsFinished(e)' /\ AsksApproved(e)'
  BY <1>1, <1>2, LocalTypes
  DEF LocalInv, OneOpen, SnapshotHolds, Parked, ReviewsFinished, AsksApproved, Finished, Approved,
      Disposition, Ticking, Open, lifecycle, planning, work, models, external, workers, Runnable
<1> QED BY <1>3, <1>4, <1>5 DEF LocalInv

LEMMA ResumeLocal ==
    ASSUME NEW e, Local(e), TypeOK, LocalInv(e), Resume
    PROVE  LocalInv(e)'
<1>1. /\ status = "paused" /\ status' = Resumed /\ resumeStatus' = "none"
      /\ UNCHANGED <<disposition, planning, work, models, external, workers, history>>
  BY ServedLocal, LocalTypes DEF Resume, SetStatus, Serving
<1>2. Started' = Started /\ Unknown' = Unknown
  BY <1>1, CallsKept DEF models
<1>3. OneOpen' /\ SnapshotHolds(e)'
  BY <1>1, <1>2, LocalTypes
  DEF LocalInv, OneOpen, SnapshotHolds, Parked, Open, lifecycle, models, external, Runnable,
      workers, Resumed
<1>4. KeysFresh' /\ InvokedOnce(e)' /\ AskedFirst(e)'
  BY <1>1, <1>2, LocalTypes
  DEF LocalInv, OneOpen, SnapshotHolds, KeysFresh, InvokedOnce, AskedFirst, Waiting, Parked, Open,
      lifecycle, models, external, history, workers, Runnable, Resumed
<1>5. Parked(e)' /\ ReviewsFinished(e)' /\ AsksApproved(e)'
  BY <1>1, <1>2, LocalTypes
  DEF LocalInv, OneOpen, SnapshotHolds, Parked, ReviewsFinished, AsksApproved, Finished, Approved,
      Disposition, Ticking, Open, lifecycle, planning, work, models, external, workers, Runnable,
      Resumed
<1> QED BY <1>3, <1>4, <1>5 DEF LocalInv

LEMMA CancelLocal ==
    ASSUME NEW e, Local(e), TypeOK, LocalInv(e), Cancel
    PROVE  LocalInv(e)'
<1>1. /\ status \notin {"succeeded", "cancelled"} /\ status' = "cancelled"
      /\ UNCHANGED <<resumeStatus, disposition, planning, work, models, external, workers, history>>
  BY ServedLocal, LocalTypes DEF Cancel, SetStatus, Serving
<1>2. Started' = Started /\ Unknown' = Unknown
  BY <1>1, CallsKept DEF models
<1>3. OneOpen' /\ SnapshotHolds(e)'
  BY <1>1, <1>2, LocalTypes
  DEF LocalInv, OneOpen, SnapshotHolds, Parked, Open, lifecycle, models, external, Runnable, workers
<1>4. KeysFresh' /\ InvokedOnce(e)' /\ AskedFirst(e)'
  BY <1>1, <1>2, LocalTypes
  DEF LocalInv, OneOpen, SnapshotHolds, KeysFresh, InvokedOnce, AskedFirst, Waiting, Parked, Open,
      lifecycle, models, external, history, workers, Runnable
<1>5. Parked(e)' /\ ReviewsFinished(e)' /\ AsksApproved(e)'
  BY <1>1, <1>2, LocalTypes
  DEF LocalInv, OneOpen, SnapshotHolds, Parked, ReviewsFinished, AsksApproved, Finished, Approved,
      Disposition, Ticking, Open, lifecycle, planning, work, models, external, workers, Runnable
<1> QED BY <1>3, <1>4, <1>5 DEF LocalInv

LEMMA RetryLocal ==
    ASSUME NEW e, Local(e), TypeOK, LocalInv(e), Retry
    PROVE  LocalInv(e)'
<1>1. /\ status = "failed" /\ status' = Restarted /\ pc[e] = "idle"
      /\ UNCHANGED <<resumeStatus, disposition, planning, work, models, external, workers, history>>
  BY ServedLocal, LocalTypes DEF Retry, SetStatus, Serving
<1>2. Started' = Started /\ Unknown' = Unknown
  BY <1>1, CallsKept DEF models
<1>3. OneOpen' /\ SnapshotHolds(e)'
  BY <1>1, <1>2, LocalTypes
  DEF LocalInv, OneOpen, SnapshotHolds, Parked, Open, lifecycle, models, external, Runnable,
      workers, Restarted
<1>4. KeysFresh' /\ InvokedOnce(e)' /\ AskedFirst(e)'
  BY <1>1, <1>2, LocalTypes
  DEF LocalInv, OneOpen, SnapshotHolds, KeysFresh, InvokedOnce, AskedFirst, Waiting, Parked, Open,
      lifecycle, models, external, history, workers, Runnable, Restarted
<1>5. Parked(e)' /\ ReviewsFinished(e)' /\ AsksApproved(e)'
  BY <1>1, <1>2, LocalTypes
  DEF LocalInv, OneOpen, SnapshotHolds, Parked, ReviewsFinished, AsksApproved, Finished, Approved,
      Disposition, Ticking, Open, lifecycle, planning, work, models, external, workers, Runnable,
      Restarted
<1> QED BY <1>3, <1>4, <1>5 DEF LocalInv

LEMMA ReconcileLocal ==
    ASSUME NEW e, Local(e), TypeOK, LocalInv(e), Reconcile
    PROVE  LocalInv(e)'
<1>1. /\ status = "unknown" /\ status' = Restarted /\ pc[e] = "idle"
      /\ Unknown # {} => resumeCall' \in Unknown
      /\ Unknown = {} => resumeCall' = resumeCall
      /\ UNCHANGED <<resumeStatus, disposition, planning, work, calls, ncalls, external, workers, history>>
  BY ServedLocal, LocalTypes DEF Reconcile, Serving
<1>2. Started' = Started /\ Unknown' = Unknown
  BY <1>1, CallsKept
<1>3. OneOpen' /\ SnapshotHolds(e)'
  BY <1>1, <1>2, LocalTypes
  DEF LocalInv, OneOpen, SnapshotHolds, Parked, Open, lifecycle, models, external, Runnable,
      workers, Restarted
<1>4. KeysFresh' /\ InvokedOnce(e)' /\ AskedFirst(e)'
  BY <1>1, <1>2, LocalTypes
  DEF LocalInv, OneOpen, SnapshotHolds, KeysFresh, InvokedOnce, AskedFirst, Waiting, Parked, Open,
      lifecycle, models, external, history, workers, Runnable, Restarted
<1>5. Parked(e)' /\ ReviewsFinished(e)' /\ AsksApproved(e)'
  BY <1>1, <1>2, LocalTypes
  DEF LocalInv, OneOpen, SnapshotHolds, Parked, ReviewsFinished, AsksApproved, Finished, Approved,
      Disposition, Ticking, Open, lifecycle, planning, work, models, external, workers, Runnable,
      Restarted
<1> QED BY <1>3, <1>4, <1>5 DEF LocalInv

LEMMA ReplanLocal ==
    ASSUME NEW e, Local(e), TypeOK, LocalInv(e), Replan
    PROVE  LocalInv(e)'
<1>1. /\ status = "failed" /\ status' = "planning" /\ resumeStatus' = "none" /\ pc[e] = "idle"
      /\ UNCHANGED <<disposition, plan, work, models, external, workers, history>>
  BY ServedLocal, LocalTypes DEF Replan, Serving
<1>2. Started' = Started /\ Unknown' = Unknown
  BY <1>1, CallsKept DEF models
<1>3. OneOpen' /\ SnapshotHolds(e)'
  BY <1>1, <1>2, LocalTypes
  DEF LocalInv, OneOpen, SnapshotHolds, Parked, Open, lifecycle, models, external, Runnable, workers
<1>4. KeysFresh' /\ InvokedOnce(e)' /\ AskedFirst(e)'
  BY <1>1, <1>2, LocalTypes
  DEF LocalInv, OneOpen, SnapshotHolds, KeysFresh, InvokedOnce, AskedFirst, Waiting, Parked, Open,
      lifecycle, models, external, history, workers, Runnable
<1>5. Parked(e)' /\ ReviewsFinished(e)' /\ AsksApproved(e)'
  BY <1>1, <1>2, LocalTypes
  DEF LocalInv, OneOpen, SnapshotHolds, Parked, ReviewsFinished, AsksApproved, Finished, Approved,
      Disposition, Ticking, Open, lifecycle, planning, work, models, external, workers, Runnable
<1> QED BY <1>3, <1>4, <1>5 DEF LocalInv

-----------------------------------------------------------------------------
(* The operators *)

LEMMA SettledByOperator ==
    ASSUME TypeOK, NEW c \in Unknown, NEW state \in {"discarded", "failed"}, SetCall(c, state)
    PROVE  Started' = Started /\ Unknown' = Unknown \ {c} /\ c \notin Started
<1>1. c \in CallIds /\ c \notin Started
  BY DEF Started, Unknown, CallsIn
<1>2. state \in CallStates \ {"started"} /\ state # "unknown"
  BY DEF CallStates
<1> QED BY <1>1, <1>2, CallSettled

LEMMA SettleClosedLocal ==
    ASSUME NEW e, Local(e), TypeOK, LocalInv(e), NEW c \in CallIds, SettleClosedCall(c)
    PROVE  LocalInv(e)'
<1>1. /\ c \in Unknown /\ status \in {"succeeded", "failed"} /\ disposition' = "none"
      /\ UNCHANGED <<status, resumeStatus, planning, work, ncalls, resumeCall, external, workers, history>>
  BY ServedLocal, LocalTypes DEF SettleClosedCall, Serving, Reconcilable
<1>2. Started' = Started /\ Unknown' = Unknown \ {c} /\ c \notin Started
  BY SettledByOperator DEF SettleClosedCall, Reconcilable
<1>3. OneOpen' /\ SnapshotHolds(e)'
  BY <1>1, <1>2, LocalTypes
  DEF LocalInv, OneOpen, SnapshotHolds, Parked, Open, lifecycle, models, external, Runnable, workers
<1>4. KeysFresh' /\ InvokedOnce(e)' /\ AskedFirst(e)'
  BY <1>1, <1>2, LocalTypes
  DEF LocalInv, OneOpen, SnapshotHolds, KeysFresh, InvokedOnce, AskedFirst, Waiting, Parked, Open,
      lifecycle, models, external, history, workers, Runnable
<1>5. Parked(e)' /\ ReviewsFinished(e)' /\ AsksApproved(e)'
  BY <1>1, <1>2, LocalTypes
  DEF LocalInv, OneOpen, SnapshotHolds, Parked, ReviewsFinished, AsksApproved, Finished, Approved,
      Disposition, Ticking, Open, lifecycle, planning, work, models, external, workers, Runnable
<1> QED BY <1>3, <1>4, <1>5 DEF LocalInv

LEMMA CallFailedLocal ==
    ASSUME NEW e, Local(e), TypeOK, LocalInv(e), NEW c \in CallIds, ReconcileCallFailed(c)
    PROVE  LocalInv(e)'
<1>1. /\ c \in Unknown /\ status \notin {"succeeded", "failed"} /\ disposition' = "none" /\ resumeCall' = 0
      /\ \/ status' = "cancelled" /\ UNCHANGED resumeStatus
         \/ status' = "paused" /\ resumeStatus' = "failed"
         \/ status' = "failed" /\ UNCHANGED resumeStatus
      /\ UNCHANGED <<planning, work, ncalls, external, workers, history>>
  BY ServedLocal, LocalTypes DEF ReconcileCallFailed, Serving, Reconcilable
<1>2. Started' = Started /\ Unknown' = Unknown \ {c} /\ c \notin Started
  BY SettledByOperator DEF ReconcileCallFailed, Reconcilable
<1>3. OneOpen' /\ SnapshotHolds(e)'
  BY <1>1, <1>2, LocalTypes
  DEF LocalInv, OneOpen, SnapshotHolds, Parked, Open, lifecycle, models, external, Runnable, workers
<1>4. KeysFresh' /\ InvokedOnce(e)' /\ AskedFirst(e)'
  BY <1>1, <1>2, LocalTypes
  DEF LocalInv, OneOpen, SnapshotHolds, KeysFresh, InvokedOnce, AskedFirst, Waiting, Parked, Open,
      lifecycle, models, external, history, workers, Runnable
<1>5. Parked(e)' /\ ReviewsFinished(e)' /\ AsksApproved(e)'
  BY <1>1, <1>2, LocalTypes
  DEF LocalInv, OneOpen, SnapshotHolds, Parked, ReviewsFinished, AsksApproved, Finished, Approved,
      Disposition, Ticking, Open, lifecycle, planning, work, models, external, workers, Runnable
<1> QED BY <1>3, <1>4, <1>5 DEF LocalInv

LEMMA CallDiscardedLocal ==
    ASSUME NEW e, Local(e), TypeOK, LocalInv(e), NEW c \in CallIds, ReconcileCallCompleted(c), Disposition = "cancelled"
    PROVE  LocalInv(e)'
<1>1. /\ c \in Unknown /\ status \notin {"succeeded", "failed"} /\ disposition' = "none" /\ resumeCall' = 0
      /\ status' = "cancelled" /\ resumeStatus' = "none"
      /\ UNCHANGED <<planning, work, ncalls, external, workers, history>>
  BY ServedLocal, LocalTypes DEF ReconcileCallCompleted, Serving, Reconcilable
<1>2. Started' = Started /\ Unknown' = Unknown \ {c} /\ c \notin Started
  BY SettledByOperator DEF ReconcileCallCompleted, Reconcilable
<1>3. OneOpen' /\ SnapshotHolds(e)'
  BY <1>1, <1>2, LocalTypes
  DEF LocalInv, OneOpen, SnapshotHolds, Parked, Open, lifecycle, models, external, Runnable, workers
<1>4. KeysFresh' /\ InvokedOnce(e)' /\ AskedFirst(e)'
  BY <1>1, <1>2, LocalTypes
  DEF LocalInv, OneOpen, SnapshotHolds, KeysFresh, InvokedOnce, AskedFirst, Waiting, Parked, Open,
      lifecycle, models, external, history, workers, Runnable
<1>5. Parked(e)' /\ ReviewsFinished(e)' /\ AsksApproved(e)'
  BY <1>1, <1>2, LocalTypes
  DEF LocalInv, OneOpen, SnapshotHolds, Parked, ReviewsFinished, AsksApproved, Finished, Approved,
      Disposition, Ticking, Open, lifecycle, planning, work, models, external, workers, Runnable
<1> QED BY <1>3, <1>4, <1>5 DEF LocalInv

LEMMA CallCompletedLocal ==
    ASSUME NEW e, Local(e), TypeOK, LocalInv(e), NEW c \in CallIds, ReconcileCallCompleted(c), Disposition # "cancelled"
    PROVE  LocalInv(e)'
<1>1. /\ c \in Unknown /\ c \notin Started /\ status \notin {"succeeded", "failed"} /\ resumeCall' = c
      /\ \/ Disposition = "paused" /\ status' = "paused" /\ resumeStatus' = Resumed /\ UNCHANGED disposition
         \/ Disposition = "running" /\ status' = Resumed /\ resumeStatus' = "none" /\ disposition' = "none"
      /\ UNCHANGED <<planning, work, calls, ncalls, external, workers, history>>
  BY DEF ReconcileCallCompleted, Reconcilable, Started, Unknown, CallsIn
<1>2. Started' = Started /\ Unknown' = Unknown
  BY <1>1, CallsKept
<1>3. OneOpen' /\ SnapshotHolds(e)'
  BY <1>1, <1>2, LocalTypes
  DEF LocalInv, OneOpen, SnapshotHolds, Parked, Open, lifecycle, models, external, Runnable,
      workers, Resumed
<1>4. KeysFresh' /\ InvokedOnce(e)' /\ AskedFirst(e)'
  BY <1>1, <1>2, LocalTypes
  DEF LocalInv, OneOpen, SnapshotHolds, KeysFresh, InvokedOnce, AskedFirst, Waiting, Parked, Open,
      lifecycle, models, external, history, workers, Runnable, Resumed
<1>5. Parked(e)' /\ ReviewsFinished(e)' /\ AsksApproved(e)'
  BY <1>1, <1>2, LocalTypes
  DEF LocalInv, OneOpen, SnapshotHolds, Parked, ReviewsFinished, AsksApproved, Finished, Approved,
      Disposition, Ticking, Open, lifecycle, planning, work, models, external, workers, Runnable,
      Resumed
<1> QED BY <1>3, <1>4, <1>5 DEF LocalInv

LEMMA CheckReceiptLocal ==
    ASSUME NEW e, Local(e), TypeOK, LocalInv(e), ReconcileCancelled(e)
    PROVE  LocalInv(e)'
<1> DEFINE w == [phase |-> "tool", task |-> 0, call |-> tool.key,
                 fresh |-> FALSE, staged |-> FALSE, receipt |-> tool.receipt]
<1>a. ctx'[e] = w /\ w.call = tool.key
  BY EngineGoes, LocalTypes DEF ReconcileCancelled
<1> HIDE DEF w
<1>b. /\ tool'.key = tool.key /\ tool'.receipt = tool.receipt
      /\ tool'.token = tool.token /\ tool'.inFlight = TRUE
  BY DEF ReconcileCancelled, TypeOK, Tools
<1>1. /\ pc[e] = "idle" /\ pc'[e] = "recheck" /\ status = "cancelled" /\ tool.receipt # "none"
      /\ ctx'[e].call = tool.key /\ tool'.key = tool.key /\ tool'.receipt = tool.receipt
      /\ tool'.token = tool.token /\ tool'.inFlight = TRUE
      /\ UNCHANGED <<lifecycle, planning, work, models, action, history>>
  BY <1>a, <1>b, EngineGoes, LocalTypes DEF ReconcileCancelled
<1>2. Started' = Started /\ Unknown' = Unknown
  BY <1>1, CallsKept DEF models
<1>3. OneOpen' /\ SnapshotHolds(e)'
  BY <1>1, <1>2, LocalTypes
  DEF LocalInv, OneOpen, SnapshotHolds, Parked, Open, lifecycle, models, external, Runnable, workers
<1>4. KeysFresh' /\ InvokedOnce(e)' /\ AskedFirst(e)'
  BY <1>1, <1>2, LocalTypes
  DEF LocalInv, OneOpen, SnapshotHolds, KeysFresh, InvokedOnce, AskedFirst, Waiting, Parked, Open,
      lifecycle, models, external, history, workers, Runnable
<1>5. Parked(e)' /\ ReviewsFinished(e)' /\ AsksApproved(e)'
  BY <1>1, <1>2, LocalTypes
  DEF LocalInv, OneOpen, SnapshotHolds, Parked, ReviewsFinished, AsksApproved, Finished, Approved,
      Disposition, Ticking, Open, lifecycle, planning, work, models, external, workers, Runnable
<1> QED BY <1>3, <1>4, <1>5 DEF LocalInv

-----------------------------------------------------------------------------
(* The invariant and what it says *)

LEMMA LocalInit == ASSUME NEW e, Local(e), Init PROVE LocalInv(e)
<1>1. Started = {} /\ Unknown = {} /\ pc[e] = "idle"
  BY DEF Init, Local, Started, Unknown, CallsIn, NoCall
<1>2. /\ tool.key = 0 /\ tool.receipt = "none" /\ tool.token = NoEngine /\ ~tool.inFlight
      /\ action.key = 0 /\ action.status = "none" /\ \A k \in CallIds : invoked[k] = 0
      /\ ncalls = 0 /\ resumeCall = 0 /\ status = "queued" /\ resumeStatus = "none"
  BY DEF Init, NoTool
<1>3. OneOpen /\ SnapshotHolds(e) /\ KeysFresh
  BY <1>1, <1>2 DEF OneOpen, SnapshotHolds, KeysFresh, Open
<1>4. InvokedOnce(e) /\ AskedFirst(e) /\ Parked(e) /\ ReviewsFinished(e) /\ AsksApproved(e)
  BY <1>1, <1>2 DEF InvokedOnce, AskedFirst, Parked, ReviewsFinished, AsksApproved
<1> QED BY <1>3, <1>4 DEF LocalInv

LEMMA AnswerLocal == ASSUME NEW e, Local(e), IInv, LocalInv(e), Answer(e) PROVE LocalInv(e)'
BY DiscardedLocal, PlanLocal, StepLocal, MalformedLocal, FinishedLocal, ToolLocal, ReviewLocal,
   FailsLocal, LostLocal DEF Answer

LEMMA EngineLocal ==
    ASSUME NEW e, Local(e), IInv, LocalInv(e), EngineStep(e) \/ Crash(e)
    PROVE  LocalInv(e)'
<1>1. CASE Reserve(e)
  <2>1. pc'[e] # "asking" => UNCHANGED <<lifecycle, models>>
    BY <1>1, ReserveFinds
  <2> QED BY <1>1, <2>1, ReserveRefusedLocal, ReserveMadeLocal
<1>2. CASE Claim(e) \/ SettleStale(e) \/ Invoke(e)
  <2>1. Invoke(e) => (tool.key # 0 /\ tool.token = e) \/ tool.key = 0 \/ tool.token # e
    OBVIOUS
  <2> QED BY <1>2, <2>1, LeavesToolLocal, ClaimLocal, InvokeLocal DEF IInv
<1>3. ASSUME NEW result \in {"completed", "failed", "unknown"}, SettleTool(e, result)
      PROVE  LocalInv(e)'
  BY <1>3, SettleLocal DEF IInv
<1>4. CASE Tick(e) \/ PreflightFails(e) \/ FinishExecution(e) \/ Throw(e) \/ Exhausted(e)
           \/ RecheckFails(e)
  BY <1>4, TickLocal, PreflightLocal, FinishLocal, ThrowLocal, ExhaustedLocal, RecheckLocal DEF IInv
<1>5. CASE Crash(e) \/ Restart(e) \/ Recover(e) \/ Requeue(e)
  BY <1>5, CrashLocal, RestartLocal, RecoverLocal, RequeueLocal DEF IInv
<1> QED BY <1>1, <1>2, <1>3, <1>4, <1>5, AnswerLocal DEF EngineStep

LEMMA OwnerLocal == ASSUME NEW e, Local(e), IInv, LocalInv(e), OwnerStep PROVE LocalInv(e)'
<1>1. CASE Approve \/ ApproveAction \/ DenyAction \/ RevisePlan \/ EditPlan \/ AnswerOwner
  BY <1>1, ApproveLocal, ApproveActionLocal, DenyActionLocal, RevisePlanLocal, EditPlanLocal,
     AnswerOwnerLocal DEF IInv
<1>2. CASE Pause \/ Resume \/ Cancel \/ Retry \/ Reconcile \/ Replan
  BY <1>2, PauseLocal, ResumeLocal, CancelLocal, RetryLocal, ReconcileLocal, ReplanLocal DEF IInv
<1>3. ~Terminalize
  BY DEF Local, Terminalize
<1>4. ASSUME NEW c \in CallIds,
             SettleClosedCall(c) \/ ReconcileCallFailed(c) \/ ReconcileCallCompleted(c)
      PROVE  LocalInv(e)'
  BY <1>4, SettleClosedLocal, CallFailedLocal, CallDiscardedLocal, CallCompletedLocal DEF IInv
<1>5. CASE \E f \in Engines : ReconcileCancelled(f)
  BY <1>5, CheckReceiptLocal DEF IInv, Local
<1> QED BY <1>1, <1>2, <1>3, <1>4, <1>5 DEF OwnerStep

LEMMA LocalStep == ASSUME NEW e, Local(e) PROVE IInv /\ LocalInv(e) /\ [Next]_vars => LocalInv(e)'
<1> SUFFICES ASSUME IInv, LocalInv(e), [Next]_vars PROVE LocalInv(e)'
  OBVIOUS
<1>1. CASE \E f \in Engines : EngineStep(f) \/ Crash(f)
  BY <1>1, EngineLocal DEF Local
<1>2. CASE UNCHANGED vars
  <2>1. UNCHANGED <<lifecycle, planning, work, models, external, workers, history>>
    BY <1>2 DEF vars
  <2>2. Started' = Started /\ Unknown' = Unknown
    BY <2>1, CallsKept DEF models
  <2>3. OneOpen' /\ SnapshotHolds(e)' /\ KeysFresh' /\ InvokedOnce(e)' /\ AskedFirst(e)'
    BY <2>1, <2>2
    DEF LocalInv, OneOpen, SnapshotHolds, KeysFresh, InvokedOnce, AskedFirst, Waiting, Open,
        lifecycle, models, external, workers, history
  <2>4. Parked(e)' /\ ReviewsFinished(e)' /\ AsksApproved(e)'
    BY <2>1, <2>2
    DEF LocalInv, Parked, ReviewsFinished, AsksApproved, Finished, Approved, Disposition, Open,
        lifecycle, planning, work, external, workers
  <2> QED BY <2>3, <2>4 DEF LocalInv
<1> QED BY <1>1, <1>2, OwnerLocal DEF Next

LEMMA LocalInvariant == ASSUME NEW e, Local(e) PROVE Spec => [](IInv /\ LocalInv(e))
<1>1. Init => LocalInv(e)
  BY LocalInit
<1> QED BY <1>1, InitType, StepType, LocalStep, PTL DEF Spec

\* On a local server, whatever crashes, lost answers, retries and reconciliations a Run
\* goes through, the provider of a tool that may not be repeated is asked once per call.
THEOREM InvokedAtMostOnce == ASSUME NEW e, Local(e) PROVE Spec => []ToolInvokedOnce
<1>1. LocalInv(e) => ToolInvokedOnce
  BY DEF LocalInv, InvokedOnce, ToolInvokedOnce
<1> QED BY <1>1, LocalInvariant, PTL

\* On a local server an external action the policy asks about reaches its provider only
\* after the owner approved that call, also when the Run was paused or cancelled between.
THEOREM ApprovedBeforeInvoked == ASSUME NEW e, Local(e) PROVE Spec => []AskedBeforeInvoked
<1>1. LocalInv(e) => AskedBeforeInvoked
  <2> SUFFICES ASSUME LocalInv(e), pc[e] \in {"claimed", "invoking"}, HoldsTool(e),
                      tool.key = action.key
               PROVE  action.status = "approved"
    BY DEF AskedBeforeInvoked, Local
  <2>1. tool.key # 0 /\ ~Waiting(e)
    BY DEF LocalInv, SnapshotHolds, HoldsTool, Waiting
  <2> QED BY <2>1 DEF LocalInv, AskedFirst
<1> QED BY <1>1, LocalInvariant, PTL

\* On a local server a Run that succeeds without saying it kept partial output has every
\* task of its latest plan done, however it was paused, retried, recovered or reconciled.
THEOREM SucceedsWhenDone == ASSUME NEW e, Local(e) PROVE Spec => []SuccessMeansDone
<1>1. LocalInv(e) => SuccessMeansDone
  BY DEF LocalInv, ReviewsFinished, Finished, SuccessMeansDone
<1> QED BY <1>1, LocalInvariant, PTL

AskUnderApproval ==
    \A e \in Engines :
        pc[e] = "reserve" /\ pc'[e] = "asking" /\ ctx[e].phase = "executor" => Approved

\* On a local server the approval a tick read before its preflight checks still stands
\* when the executor is asked.
THEOREM AskedUnderApproval == ASSUME NEW e, Local(e) PROVE Spec => ExecutorAskedUnderApproval
<1>1. LocalInv(e) => AskUnderApproval
  BY DEF LocalInv, AsksApproved, Local, AskUnderApproval
<1>2. IInv /\ LocalInv(e) /\ [Next]_vars => [AskUnderApproval]_vars
  BY <1>1
<1> QED BY <1>2, LocalInvariant, PTL DEF Spec, ExecutorAskedUnderApproval, AskUnderApproval
=============================================================================
