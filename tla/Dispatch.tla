------------------------------- MODULE Dispatch -------------------------------
(* How a Run gets driven: runtime/dispatcher.ts wakes a driver, which advances the  *)
(* Run until its status says that it waits for somebody.  The driver is either the  *)
(* LocalDispatcher of the process or the workflow of temporal/workflows.ts; both    *)
(* decide on the status their last advance reported, while requests of the owner    *)
(* resume the Run and notify at any moment.                                         *)
EXTENDS Integers, FiniteSets

CONSTANTS
    DrivenRuns,       \* ids of Runs
    Handlers,         \* request handlers that resume a Run and then notify
    Rebooted,         \* stands for notifyRecoverableRuns() after a start
    MaxDriveFaults    \* bound: crashes and failed advances

ASSUME DispatchAssumption == Rebooted \notin Handlers /\ MaxDriveFaults \in Nat

VARIABLES
    temporal,        \* whether Temporal drives the Runs
    runState,        \* [Run -> "runnable", "waiting" (for a person), "unknown" or "over"]
    queued,          \* LocalDispatcher.queued
    pumpScheduled,   \* LocalDispatcher.pumpScheduled
    driver,          \* [Run -> what its driver is doing]
    answer,          \* [Run -> what its last advance reported]
    wake,            \* the Runs whose workflow has its wake flag set
    notice,          \* [handler -> [Run -> the next step of its notify()]]
    overtaken,       \* history: Runs resumed during an advance, or whose advance failed
    driveFaults

dispatchVars == <<temporal, runState, queued, pumpScheduled, driver, answer, wake,
                  notice, overtaken, driveFaults>>

Notifiers == Handlers \cup {Rebooted}
RunStates == {"runnable", "waiting", "unknown", "over"}

DispatchInit ==
    /\ temporal \in BOOLEAN
    /\ runState = [r \in DrivenRuns |-> "waiting"]
    /\ queued = {} /\ pumpScheduled = FALSE
    /\ driver = [r \in DrivenRuns |-> "none"] /\ answer = [r \in DrivenRuns |-> "none"]
    /\ wake = {} /\ overtaken = {} /\ driveFaults = 0
    /\ notice = [h \in Notifiers |-> [r \in DrivenRuns |-> "none"]]

InFlight(r) == driver[r] \in {"stepping", "reported"}
First == IF temporal THEN "signal" ELSE "notify"

\* A handler makes the Run runnable (a new Run, an approval, an answer, a retry) and, when
\* that is durable, notifies the dispatcher.
ResumeRun(h, r) ==
    /\ \A q \in DrivenRuns : notice[h][q] = "none"
    /\ runState[r] # "runnable"
    /\ runState' = [runState EXCEPT ![r] = "runnable"]
    /\ notice' = [notice EXCEPT ![h][r] = First]
    /\ overtaken' = IF InFlight(r) THEN overtaken \cup {r} ELSE overtaken
    /\ UNCHANGED <<temporal, queued, pumpScheduled, driver, answer, wake, driveFaults>>

-----------------------------------------------------------------------------
(* LocalDispatcher *)

NotifyLocal(h, r) ==
    /\ notice[h][r] = "notify"
    /\ queued' = queued \cup {r} /\ pumpScheduled' = TRUE
    /\ notice' = [notice EXCEPT ![h][r] = "none"]
    /\ UNCHANGED <<temporal, runState, driver, answer, wake, overtaken, driveFaults>>

\* pump() starts every queued Run that is not in flight; a queued Run in flight is left to
\* the pump its advance schedules when it ends.
Pump ==
    /\ pumpScheduled /\ pumpScheduled' = FALSE
    /\ LET ready == {r \in queued : driver[r] = "none"} IN
       /\ queued' = queued \ ready
       /\ driver' = [r \in DrivenRuns |-> IF r \in ready THEN "stepping" ELSE driver[r]]
       /\ overtaken' = overtaken \ ready
    /\ UNCHANGED <<temporal, runState, answer, wake, notice, driveFaults>>

\* Mutant: the end of an advance does not schedule the pump.
PumpAfterAdvanceNever == pumpScheduled

PumpAfterAdvance == TRUE

\* The end of start(): the queue follows the status reported, even when a notify() came
\* during the advance.
FinishLocal(r) ==
    /\ ~temporal /\ driver[r] = "reported"
    /\ driver' = [driver EXCEPT ![r] = "none"]
    /\ queued' = IF answer[r] = "runnable" THEN queued \cup {r} ELSE queued \ {r}
    /\ pumpScheduled' = PumpAfterAdvance
    /\ UNCHANGED <<temporal, runState, answer, wake, notice, overtaken, driveFaults>>

-----------------------------------------------------------------------------
(* AgentEngine.advance(), as either driver sees it *)

Step(r) ==
    /\ driver[r] = "stepping" /\ runState[r] = "runnable"
    /\ \E s \in RunStates : runState' = [runState EXCEPT ![r] = s]
    /\ UNCHANGED <<temporal, queued, pumpScheduled, driver, answer, wake, notice, overtaken, driveFaults>>

Report(r) ==
    /\ driver[r] = "stepping"
    /\ driver' = [driver EXCEPT ![r] = "reported"]
    /\ answer' = [answer EXCEPT ![r] = runState[r]]
    /\ UNCHANGED <<temporal, runState, queued, pumpScheduled, wake, notice, overtaken, driveFaults>>

DriveFault == driveFaults < MaxDriveFaults /\ driveFaults' = driveFaults + 1

\* advance() throws (the repository failed), or the activity's retries are used up.
AdvanceFails(r) ==
    /\ driver[r] = "stepping" /\ DriveFault
    /\ driver' = [driver EXCEPT ![r] = "reported"]
    /\ answer' = [answer EXCEPT ![r] = "error"]
    /\ overtaken' = overtaken \cup {r}
    /\ UNCHANGED <<temporal, runState, queued, pumpScheduled, wake, notice>>

-----------------------------------------------------------------------------
(* notifyTemporalRunWorkflow() and agentRunWorkflow() *)

WorkflowOpen(r) == driver[r] # "none"

Signal(h, r) ==
    /\ notice[h][r] = "signal"
    /\ wake' = IF WorkflowOpen(r) THEN wake \cup {r} ELSE wake
    /\ notice' = [notice EXCEPT ![h][r] = IF WorkflowOpen(r) THEN "none" ELSE "start"]
    /\ UNCHANGED <<temporal, runState, queued, pumpScheduled, driver, answer, overtaken, driveFaults>>

StartWorkflow(h, r) ==
    /\ notice[h][r] = "start"
    /\ driver' = IF WorkflowOpen(r) THEN driver ELSE [driver EXCEPT ![r] = "tick"]
    /\ notice' = [notice EXCEPT ![h][r] = IF WorkflowOpen(r) THEN "again" ELSE "none"]
    /\ UNCHANGED <<temporal, runState, queued, pumpScheduled, answer, wake, overtaken, driveFaults>>

\* Another process had started it: signal once more, and let it be if that one has ended.
SignalAgain(h, r) ==
    /\ notice[h][r] = "again"
    /\ wake' = IF WorkflowOpen(r) THEN wake \cup {r} ELSE wake
    /\ notice' = [notice EXCEPT ![h][r] = "none"]
    /\ UNCHANGED <<temporal, runState, queued, pumpScheduled, driver, answer, overtaken, driveFaults>>

Tick(r) ==
    /\ driver[r] = "tick"
    /\ driver' = [driver EXCEPT ![r] = "stepping"]
    /\ wake' = wake \ {r} /\ overtaken' = overtaken \ {r}
    /\ UNCHANGED <<temporal, runState, queued, pumpScheduled, answer, notice, driveFaults>>

\* A status that is over closes the execution with whatever signals it has received.  An
\* active Run is advanced again after a timer at the latest.
DecideWorkflow(r) ==
    /\ temporal /\ driver[r] = "reported" /\ answer[r] \notin {"unknown", "error"}
    /\ driver' = [driver EXCEPT ![r] =
           CASE answer[r] = "over" -> "none" [] answer[r] = "waiting" -> "asleep"
             [] answer[r] = "runnable" -> "tick"]
    /\ wake' = IF answer[r] = "over" THEN wake \ {r} ELSE wake
    /\ UNCHANGED <<temporal, runState, queued, pumpScheduled, answer, notice, overtaken, driveFaults>>

\* closeUnknownRun(): the execution goes on for a Run that waits for its owner by now;
\* otherwise it ends, having ended the Run, an interrupted one and one that was resumed
\* meanwhile alike, or not having reached it.
CloseUnknown(r) ==
    /\ temporal /\ driver[r] = "reported" /\ answer[r] \in {"unknown", "error"}
    /\ \/ /\ runState[r] = "waiting"
          /\ driver' = [driver EXCEPT ![r] = "tick"] /\ UNCHANGED <<runState, wake>>
       \/ /\ runState[r] # "waiting" /\ runState' = [runState EXCEPT ![r] = "over"]
          /\ driver' = [driver EXCEPT ![r] = "none"] /\ wake' = wake \ {r}
       \/ driver' = [driver EXCEPT ![r] = "none"] /\ wake' = wake \ {r} /\ UNCHANGED runState
    /\ UNCHANGED <<temporal, queued, pumpScheduled, answer, notice, overtaken, driveFaults>>

Awake(r) ==
    /\ driver[r] = "asleep" /\ r \in wake
    /\ driver' = [driver EXCEPT ![r] = "tick"]
    /\ UNCHANGED <<temporal, runState, queued, pumpScheduled, answer, wake, notice, overtaken, driveFaults>>

-----------------------------------------------------------------------------
(* The API process ends; its start notifies every Run that can still be advanced. *)
Reboot ==
    /\ DriveFault
    /\ queued' = {} /\ pumpScheduled' = FALSE
    /\ driver' = IF temporal THEN driver ELSE [r \in DrivenRuns |-> "none"]
    /\ notice' = [h \in Notifiers |-> [r \in DrivenRuns |->
                     IF h = Rebooted /\ runState[r] = "runnable" THEN First ELSE "none"]]
    /\ UNCHANGED <<temporal, runState, answer, wake, overtaken>>

DispatchNext ==
    \/ \E h \in Handlers, r \in DrivenRuns : ResumeRun(h, r)
    \/ \E h \in Notifiers, r \in DrivenRuns :
          NotifyLocal(h, r) \/ Signal(h, r) \/ StartWorkflow(h, r) \/ SignalAgain(h, r)
    \/ \E r \in DrivenRuns :
          \/ FinishLocal(r) \/ Step(r) \/ Report(r) \/ AdvanceFails(r)
          \/ Tick(r) \/ DecideWorkflow(r) \/ CloseUnknown(r) \/ Awake(r)
    \/ Pump \/ Reboot

DispatchSpec == DispatchInit /\ [][DispatchNext]_dispatchVars
-----------------------------------------------------------------------------
(* Properties *)

\* Something will still look at the Run without anybody asking for it.
Driven(r) ==
    \/ \E h \in Notifiers : notice[h][r] # "none"
    \/ driver[r] \notin {"none", "asleep"}
    \/ driver[r] = "asleep" /\ r \in wake
    \/ r \in queued /\ pumpScheduled

\* A Run that can be advanced is driven, whoever raced with whom for its queue entry or its
\* workflow; only one that was resumed while an advance of it was ending, or whose advance
\* failed, may be left to the next notify or start.
NoRunForgotten ==
    \A r \in DrivenRuns : runState[r] = "runnable" => Driven(r) \/ r \in overtaken
=============================================================================
