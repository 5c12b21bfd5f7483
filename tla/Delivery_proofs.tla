----------------------------- MODULE Delivery_proofs -----------------------------
(* Proofs about Dispatch, ProjectionOutbox and Triggers for every number of Runs,   *)
(* handlers, processes, events and faults.                                          *)
EXTENDS Dispatch, ProjectionOutbox, Triggers, FiniteSetTheorems, TLAPS

(* Run dispatch *)

DriverSteps == {"none", "stepping", "reported", "tick", "asleep"}
NoticeSteps == {"none", "notify", "signal", "start", "again"}

DispatchTypes ==
    /\ temporal \in BOOLEAN
    /\ runState \in [DrivenRuns -> RunStates]
    /\ queued \subseteq DrivenRuns /\ pumpScheduled \in BOOLEAN
    /\ driver \in [DrivenRuns -> DriverSteps]
    /\ answer \in [DrivenRuns -> RunStates \cup {"none", "error"}]
    /\ wake \subseteq DrivenRuns
    /\ notice \in [Notifiers -> [DrivenRuns -> NoticeSteps]]
    /\ overtaken \subseteq DrivenRuns
    /\ driveFaults \in Nat

\* Each driver keeps to its own bookkeeping.
OneDriver ==
    /\ temporal => ~pumpScheduled /\ \A h \in Notifiers, r \in DrivenRuns : notice[h][r] # "notify"
    /\ ~temporal => /\ \A r \in DrivenRuns : driver[r] \in {"none", "stepping", "reported"}
                    /\ \A h \in Notifiers, r \in DrivenRuns : notice[h][r] \in {"none", "notify"}

\* What an advance reported of a Run that nobody resumed during it still holds, as far as
\* the Run could be advanced.
AnswerCurrent ==
    \A r \in DrivenRuns :
        driver[r] = "reported" =>
            /\ answer[r] # "none"
            /\ runState[r] = "runnable" /\ r \notin overtaken => answer[r] = "runnable"

\* What will look at a Run.  A second signal counts only while there is a workflow to receive it.
Noticed(r) == \E h \in Notifiers : notice[h][r] \in {"notify", "signal", "start"}
SignalledAgain(r) == \E h \in Notifiers : notice[h][r] = "again"
Attended(r) ==
    \/ Noticed(r)
    \/ driver[r] \notin {"none", "asleep"}
    \/ driver[r] = "asleep" /\ (r \in wake \/ SignalledAgain(r))
    \/ r \in queued /\ pumpScheduled

RunsAttended == \A r \in DrivenRuns \ overtaken : runState[r] = "runnable" => Attended(r)

DispatchInv == DispatchTypes /\ OneDriver /\ AnswerCurrent /\ RunsAttended

LEMMA DispatchStart == DispatchInit => DispatchInv
<1> SUFFICES ASSUME DispatchInit PROVE DispatchInv
  OBVIOUS
<1>1. DispatchTypes
  BY DEF DispatchInit, DispatchTypes, RunStates, DriverSteps, NoticeSteps
<1>2. OneDriver /\ AnswerCurrent /\ RunsAttended
  BY DEF DispatchInit, OneDriver, AnswerCurrent, RunsAttended
<1> QED BY <1>1, <1>2 DEF DispatchInv

LEMMA DispatchStep ==
    ASSUME DispatchInv, [DispatchNext]_dispatchVars
    PROVE  DispatchInv'
<1> USE DispatchAssumption
<1>0. DispatchTypes /\ OneDriver /\ AnswerCurrent /\ RunsAttended
  BY DEF DispatchInv
<1>1. ASSUME NEW h \in Handlers, NEW r \in DrivenRuns, ResumeRun(h, r) PROVE DispatchInv'
  <2>1. DispatchTypes'
    BY <1>0, <1>1
       DEF ResumeRun, First, InFlight, DispatchTypes, DriverSteps, NoticeSteps, RunStates, Notifiers
  <2>2. OneDriver'
    BY <1>0, <1>1 DEF ResumeRun, First, InFlight, DispatchTypes, OneDriver
  <2>3. AnswerCurrent'
    BY <1>0, <1>1 DEF ResumeRun, First, InFlight, DispatchTypes, OneDriver, AnswerCurrent
  <2>4. RunsAttended'
    <3>1. notice'[h][r] \in {"notify", "signal"} /\ h \in Notifiers
      BY <1>0, <1>1 DEF ResumeRun, First, DispatchTypes, Notifiers
    <3>2. ASSUME NEW q \in DrivenRuns \ overtaken', runState'[q] = "runnable", q # r PROVE Attended(q)'
      <4>1. Attended(q)
        BY <1>0, <1>1, <3>2 DEF ResumeRun, DispatchTypes, RunsAttended
      <4>2. \A x \in Notifiers : notice'[x][q] = notice[x][q]
        BY <1>0, <1>1, <3>2 DEF ResumeRun, DispatchTypes
      <4> QED BY <1>1, <4>1, <4>2 DEF ResumeRun, Attended, Noticed, SignalledAgain
    <3>3. Attended(r)'
      BY <3>1 DEF Attended, Noticed
    <3> QED BY <3>2, <3>3 DEF RunsAttended
  <2> QED BY <2>1, <2>2, <2>3, <2>4 DEF DispatchInv
<1>2. ASSUME NEW h \in Notifiers, NEW r \in DrivenRuns, NotifyLocal(h, r) PROVE DispatchInv'
  <2>1. DispatchTypes'
    BY <1>0, <1>2 DEF NotifyLocal, DispatchTypes, DriverSteps, NoticeSteps, RunStates, Notifiers
  <2>2. OneDriver'
    <3>1. ~temporal
      BY <1>0, <1>2 DEF NotifyLocal, OneDriver
    <3>2. \A x \in Notifiers, q \in DrivenRuns : notice'[x][q] \in {notice[x][q], "none"}
      BY <1>0, <1>2 DEF NotifyLocal, DispatchTypes
    <3> QED BY <1>0, <1>2, <3>1, <3>2 DEF NotifyLocal, DispatchTypes, OneDriver
  <2>3. AnswerCurrent'
    BY <1>0, <1>2 DEF NotifyLocal, DispatchTypes, OneDriver, AnswerCurrent
  <2>4. RunsAttended'
    BY <1>0, <1>2
       DEF NotifyLocal, DispatchTypes, OneDriver, AnswerCurrent, RunsAttended, Attended, Noticed,
           SignalledAgain
  <2> QED BY <2>1, <2>2, <2>3, <2>4 DEF DispatchInv
<1>3. ASSUME NEW h \in Notifiers, NEW r \in DrivenRuns, Signal(h, r) PROVE DispatchInv'
  <2>1. DispatchTypes'
    BY <1>0, <1>3
       DEF Signal, WorkflowOpen, DispatchTypes, DriverSteps, NoticeSteps, RunStates, Notifiers
  <2>2. OneDriver'
    BY <1>0, <1>3 DEF Signal, WorkflowOpen, DispatchTypes, OneDriver
  <2>3. AnswerCurrent'
    BY <1>0, <1>3 DEF Signal, WorkflowOpen, DispatchTypes, OneDriver, AnswerCurrent
  <2>4. RunsAttended'
    BY <1>0, <1>3
       DEF Signal, WorkflowOpen, DispatchTypes, OneDriver, AnswerCurrent, RunsAttended, Attended,
           Noticed, SignalledAgain
  <2> QED BY <2>1, <2>2, <2>3, <2>4 DEF DispatchInv
<1>4. ASSUME NEW h \in Notifiers, NEW r \in DrivenRuns, StartWorkflow(h, r) PROVE DispatchInv'
  <2>1. DispatchTypes'
    BY <1>0, <1>4
       DEF StartWorkflow, WorkflowOpen, DispatchTypes, DriverSteps, NoticeSteps, RunStates,
           Notifiers
  <2>2. OneDriver'
    BY <1>0, <1>4 DEF StartWorkflow, WorkflowOpen, DispatchTypes, OneDriver
  <2>3. AnswerCurrent'
    BY <1>0, <1>4 DEF StartWorkflow, WorkflowOpen, DispatchTypes, OneDriver, AnswerCurrent
  <2>4. RunsAttended'
    BY <1>0, <1>4
       DEF StartWorkflow, WorkflowOpen, DispatchTypes, OneDriver, AnswerCurrent, RunsAttended,
           Attended, Noticed, SignalledAgain
  <2> QED BY <2>1, <2>2, <2>3, <2>4 DEF DispatchInv
<1>5. ASSUME NEW h \in Notifiers, NEW r \in DrivenRuns, SignalAgain(h, r) PROVE DispatchInv'
  <2>1. DispatchTypes'
    BY <1>0, <1>5
       DEF SignalAgain, WorkflowOpen, DispatchTypes, DriverSteps, NoticeSteps, RunStates, Notifiers
  <2>2. OneDriver'
    BY <1>0, <1>5 DEF SignalAgain, WorkflowOpen, DispatchTypes, OneDriver
  <2>3. AnswerCurrent'
    BY <1>0, <1>5 DEF SignalAgain, WorkflowOpen, DispatchTypes, OneDriver, AnswerCurrent
  <2>4. RunsAttended'
    BY <1>0, <1>5
       DEF SignalAgain, WorkflowOpen, DispatchTypes, OneDriver, AnswerCurrent, RunsAttended,
           Attended, Noticed, SignalledAgain
  <2> QED BY <2>1, <2>2, <2>3, <2>4 DEF DispatchInv
<1>6. ASSUME NEW r \in DrivenRuns, FinishLocal(r) PROVE DispatchInv'
  <2>1. DispatchTypes'
    BY <1>0, <1>6
       DEF FinishLocal, PumpAfterAdvance, DispatchTypes, DriverSteps, NoticeSteps, RunStates,
           Notifiers
  <2>2. OneDriver'
    BY <1>0, <1>6 DEF FinishLocal, PumpAfterAdvance, DispatchTypes, OneDriver
  <2>3. AnswerCurrent'
    BY <1>0, <1>6 DEF FinishLocal, PumpAfterAdvance, DispatchTypes, OneDriver, AnswerCurrent
  <2>4. RunsAttended'
    BY <1>0, <1>6
       DEF FinishLocal, PumpAfterAdvance, DispatchTypes, OneDriver, AnswerCurrent, RunsAttended,
           Attended, Noticed, SignalledAgain
  <2> QED BY <2>1, <2>2, <2>3, <2>4 DEF DispatchInv
<1>7. ASSUME NEW r \in DrivenRuns, Step(r) PROVE DispatchInv'
  <2>1. DispatchTypes'
    BY <1>0, <1>7 DEF Step, DispatchTypes, DriverSteps, NoticeSteps, RunStates, Notifiers
  <2>2. OneDriver'
    BY <1>0, <1>7 DEF Step, DispatchTypes, OneDriver
  <2>3. AnswerCurrent'
    BY <1>0, <1>7 DEF Step, DispatchTypes, OneDriver, AnswerCurrent
  <2>4. RunsAttended'
    BY <1>0, <1>7
       DEF Step, DispatchTypes, OneDriver, AnswerCurrent, RunsAttended, Attended, Noticed,
           SignalledAgain
  <2> QED BY <2>1, <2>2, <2>3, <2>4 DEF DispatchInv
<1>8. ASSUME NEW r \in DrivenRuns, Report(r) PROVE DispatchInv'
  <2>1. DispatchTypes'
    BY <1>0, <1>8 DEF Report, DispatchTypes, DriverSteps, NoticeSteps, RunStates, Notifiers
  <2>2. OneDriver'
    BY <1>0, <1>8 DEF Report, DispatchTypes, OneDriver
  <2>3. AnswerCurrent'
    BY <1>0, <1>8 DEF Report, DispatchTypes, RunStates, AnswerCurrent
  <2>4. RunsAttended'
    BY <1>0, <1>8
       DEF Report, DispatchTypes, OneDriver, AnswerCurrent, RunsAttended, Attended, Noticed,
           SignalledAgain
  <2> QED BY <2>1, <2>2, <2>3, <2>4 DEF DispatchInv
<1>9. ASSUME NEW r \in DrivenRuns, AdvanceFails(r) PROVE DispatchInv'
  <2>1. DispatchTypes'
    BY <1>0, <1>9
       DEF AdvanceFails, DriveFault, DispatchTypes, DriverSteps, NoticeSteps, RunStates, Notifiers
  <2>2. OneDriver'
    BY <1>0, <1>9 DEF AdvanceFails, DriveFault, DispatchTypes, OneDriver
  <2>3. AnswerCurrent'
    BY <1>0, <1>9 DEF AdvanceFails, DriveFault, DispatchTypes, OneDriver, AnswerCurrent
  <2>4. RunsAttended'
    BY <1>0, <1>9
       DEF AdvanceFails, DriveFault, DispatchTypes, OneDriver, AnswerCurrent, RunsAttended,
           Attended,
           Noticed, SignalledAgain
  <2> QED BY <2>1, <2>2, <2>3, <2>4 DEF DispatchInv
<1>10. ASSUME NEW r \in DrivenRuns, Tick(r) PROVE DispatchInv'
  <2>1. DispatchTypes'
    BY <1>0, <1>10 DEF Tick, DispatchTypes, DriverSteps, NoticeSteps, RunStates, Notifiers
  <2>2. OneDriver'
    BY <1>0, <1>10 DEF Tick, DispatchTypes, OneDriver
  <2>3. AnswerCurrent'
    BY <1>0, <1>10 DEF Tick, DispatchTypes, OneDriver, AnswerCurrent
  <2>4. RunsAttended'
    BY <1>0, <1>10
       DEF Tick, DispatchTypes, OneDriver, AnswerCurrent, RunsAttended, Attended, Noticed,
           SignalledAgain
  <2> QED BY <2>1, <2>2, <2>3, <2>4 DEF DispatchInv
<1>11. ASSUME NEW r \in DrivenRuns, DecideWorkflow(r) PROVE DispatchInv'
  <2>1. DispatchTypes'
    <3>1. answer[r] \in {"runnable", "waiting", "over", "none"}
      BY <1>0, <1>11 DEF DecideWorkflow, DispatchTypes, RunStates
    <3>2. answer[r] # "none"
      BY <1>0, <1>11 DEF DecideWorkflow, AnswerCurrent
    <3>3. driver' \in [DrivenRuns -> DriverSteps]
      BY <1>0, <1>11, <3>1, <3>2 DEF DecideWorkflow, DispatchTypes, DriverSteps
    <3> QED BY <1>0, <1>11, <3>3 DEF DecideWorkflow, DispatchTypes
  <2>2. OneDriver'
    BY <1>0, <1>11 DEF DecideWorkflow, DispatchTypes, OneDriver
  <2>3. AnswerCurrent'
    BY <1>0, <1>11 DEF DecideWorkflow, DispatchTypes, OneDriver, AnswerCurrent
  <2>4. RunsAttended'
    BY <1>0, <1>11
       DEF DecideWorkflow, DispatchTypes, OneDriver, AnswerCurrent, RunsAttended, Attended, Noticed,
           SignalledAgain
  <2> QED BY <2>1, <2>2, <2>3, <2>4 DEF DispatchInv
<1>12. ASSUME NEW r \in DrivenRuns, CloseUnknown(r) PROVE DispatchInv'
  <2>1. DispatchTypes'
    BY <1>0, <1>12 DEF CloseUnknown, DispatchTypes, DriverSteps, NoticeSteps, RunStates, Notifiers
  <2>2. OneDriver'
    BY <1>0, <1>12 DEF CloseUnknown, DispatchTypes, OneDriver
  <2>3. AnswerCurrent'
    BY <1>0, <1>12 DEF CloseUnknown, DispatchTypes, OneDriver, AnswerCurrent
  <2>4. RunsAttended'
    BY <1>0, <1>12
       DEF CloseUnknown, DispatchTypes, OneDriver, AnswerCurrent, RunsAttended, Attended, Noticed,
           SignalledAgain
  <2> QED BY <2>1, <2>2, <2>3, <2>4 DEF DispatchInv
<1>13. ASSUME NEW r \in DrivenRuns, Awake(r) PROVE DispatchInv'
  <2>1. DispatchTypes'
    BY <1>0, <1>13 DEF Awake, DispatchTypes, DriverSteps, NoticeSteps, RunStates, Notifiers
  <2>2. OneDriver'
    BY <1>0, <1>13 DEF Awake, DispatchTypes, OneDriver
  <2>3. AnswerCurrent'
    BY <1>0, <1>13 DEF Awake, DispatchTypes, OneDriver, AnswerCurrent
  <2>4. RunsAttended'
    BY <1>0, <1>13
       DEF Awake, DispatchTypes, OneDriver, AnswerCurrent, RunsAttended, Attended, Noticed,
           SignalledAgain
  <2> QED BY <2>1, <2>2, <2>3, <2>4 DEF DispatchInv
<1>14. CASE Pump
  <2>1. DispatchTypes'
    BY <1>0, <1>14 DEF Pump, DispatchTypes, DriverSteps, NoticeSteps, RunStates, Notifiers
  <2>2. OneDriver'
    BY <1>0, <1>14 DEF Pump, DispatchTypes, OneDriver
  <2>3. AnswerCurrent'
    BY <1>0, <1>14 DEF Pump, DispatchTypes, OneDriver, AnswerCurrent
  <2>4. RunsAttended'
    BY <1>0, <1>14
       DEF Pump, DispatchTypes, OneDriver, AnswerCurrent, RunsAttended, Attended, Noticed,
           SignalledAgain
  <2> QED BY <2>1, <2>2, <2>3, <2>4 DEF DispatchInv
<1>15. CASE Reboot
  <2>1. DispatchTypes'
    <3>1. notice' \in [Notifiers -> [DrivenRuns -> NoticeSteps]]
      BY <1>15 DEF Reboot, First, NoticeSteps
    <3>2. driver' \in [DrivenRuns -> DriverSteps]
      BY <1>0, <1>15 DEF Reboot, DispatchTypes, DriverSteps
    <3>3. /\ queued' = {} /\ pumpScheduled' = FALSE /\ driveFaults' = driveFaults + 1
          /\ UNCHANGED <<temporal, runState, answer, wake, overtaken>>
      BY <1>15 DEF Reboot, DriveFault
    <3>4. driveFaults' \in Nat
      BY <1>0, <3>3 DEF DispatchTypes
    <3>5. /\ temporal' \in BOOLEAN /\ pumpScheduled' \in BOOLEAN /\ queued' \subseteq DrivenRuns
          /\ runState' \in [DrivenRuns -> RunStates] /\ wake' \subseteq DrivenRuns
          /\ answer' \in [DrivenRuns -> RunStates \cup {"none", "error"}] /\ overtaken' \subseteq DrivenRuns
      BY <1>0, <3>3, Zenon DEF DispatchTypes
    <3> QED BY <3>1, <3>2, <3>4, <3>5, Zenon DEF DispatchTypes
  <2>2. OneDriver'
    BY <1>0, <1>15 DEF Reboot, DriveFault, First, DispatchTypes, OneDriver
  <2>3. AnswerCurrent'
    BY <1>0, <1>15 DEF Reboot, DriveFault, First, DispatchTypes, OneDriver, AnswerCurrent
  <2>4. RunsAttended'
    <3>1. Rebooted \in Notifiers
      BY DEF Notifiers
    <3>2. ASSUME NEW r \in DrivenRuns, runState[r] = "runnable"
          PROVE  notice'[Rebooted][r] \in {"notify", "signal"}
      BY <1>15, <3>1, <3>2 DEF Reboot, First
    <3> QED BY <1>15, <3>1, <3>2 DEF Reboot, RunsAttended, Attended, Noticed
  <2> QED BY <2>1, <2>2, <2>3, <2>4 DEF DispatchInv
<1>16. CASE UNCHANGED dispatchVars
  BY <1>0, <1>16
     DEF dispatchVars, DispatchInv, DispatchTypes, OneDriver, AnswerCurrent, RunsAttended, Attended,
     Noticed, SignalledAgain
<1> QED BY <1>1, <1>2, <1>3, <1>4, <1>5, <1>6, <1>7, <1>8, <1>9, <1>10, <1>11, <1>12, <1>13, <1>14,
           <1>15, <1>16 DEF DispatchNext

LEMMA DispatchInvariant == DispatchSpec => []DispatchInv
<1> QED BY DispatchStart, DispatchStep, PTL DEF DispatchSpec

\* A Run that can be advanced stays in somebody's sight, with either driver, however requests,
\* advances, workflows and starts of the process interleave, but for the two cases it names.
THEOREM NoRunLeftAlone == DispatchSpec => []NoRunForgotten
<1>1. DispatchInv => NoRunForgotten
  BY DEF DispatchInv, RunsAttended, Attended, Noticed, SignalledAgain, NoRunForgotten, Driven
<1> QED BY <1>1, DispatchInvariant, PTL

-----------------------------------------------------------------------------
(* The projection outbox *)

DeliverySteps == {"none", "waiting", "locked", "reserved"} \cup Answers

\* A delivery that has had the lock, and one that may yet cause another request: it has not
\* made its own, or will write that the sink did not take the event in.
PastLock(p, e) == delivery[p][e] \notin {"none", "waiting"}
Outstanding(p, e) == PastLock(p, e) /\ ~TakenIn(delivery[p][e])

\* Those that lost their session, and the lock with it.
Strays(e) == {p \in OutboxProcs : Outstanding(p, e) /\ deliveryLock[e] # p}

\* Whether the row, or the delivery that holds the lock, lets the sink be asked once more.
RequestLeft(e) ==
    IF deliveryLock[e] = Unlocked \/ delivery[deliveryLock[e]][e] = "locked" THEN Sendable(e)
    ELSE ~TakenIn(delivery[deliveryLock[e]][e])

HoldersPastLock ==
    \A e \in Projections, p \in OutboxProcs : deliveryLock[e] = p => PastLock(p, e)

\* Every request was excused, and so is each one that may still come, but the first.
Owed(e) == received[e] + Cardinality(Strays(e)) + (IF RequestLeft(e) THEN 1 ELSE 0)
Excused(e) ==
    /\ IsFiniteSet(Strays(e))
    /\ received[e] <= MaxRequests /\ excused[e] <= MaxRequests
    /\ excused[e] = MaxRequests \/ Owed(e) <= 1 + excused[e]
RequestsExcused == \A e \in Projections : Excused(e)

\* Without a lost session only the holder of the lock is past it, and it found the row sendable.
LockKeeps ==
    \A e \in Projections \ strayed, p \in OutboxProcs :
        /\ PastLock(p, e) => deliveryLock[e] = p
        /\ delivery[p][e] \in {"reserved"} \cup Answers => row[e] \notin {"delivered", "unknown"}

OutboxInv == OutboxTypeOK /\ HoldersPastLock /\ RequestsExcused /\ LockKeeps

LEMMA OutboxStart == OutboxInit => OutboxInv
<1> SUFFICES ASSUME OutboxInit PROVE OutboxInv
  OBVIOUS
<1>1. OutboxTypeOK /\ HoldersPastLock /\ LockKeeps
  BY OutboxAssumption DEF OutboxInit, OutboxTypeOK, HoldersPastLock, LockKeeps, PastLock
<1>2. ASSUME NEW e \in Projections PROVE Excused(e)
  <2>1. Strays(e) = {}
    BY <1>2 DEF OutboxInit, Strays, Outstanding, PastLock
  <2>2. IsFiniteSet(Strays(e)) /\ Cardinality(Strays(e)) = 0
    BY <2>1, FS_EmptySet
  <2> QED BY <1>2, <2>2, OutboxAssumption DEF OutboxInit, Excused, Owed
<1> QED BY <1>1, <1>2 DEF OutboxInv, RequestsExcused

\* What leaving or joining them does to the number of strays.
LEMMA StraysCounted ==
    ASSUME NEW S, IsFiniteSet(S), NEW p
    PROVE  /\ Cardinality(S) \in Nat
           /\ IsFiniteSet(S \ {p})
           /\ Cardinality(S \ {p}) = IF p \in S THEN Cardinality(S) - 1 ELSE Cardinality(S)
           /\ IsFiniteSet(S \cup {p})
           /\ Cardinality(S \cup {p}) = IF p \in S THEN Cardinality(S) ELSE Cardinality(S) + 1
BY FS_CardinalityType, FS_AddElement, FS_RemoveElement

\* An event that a step does not concern.
LEMMA Untouched ==
    ASSUME NEW e \in Projections, Excused(e),
           row'[e] = row[e], deliveryLock'[e] = deliveryLock[e],
           received'[e] = received[e], excused'[e] = excused[e],
           \A q \in OutboxProcs : delivery'[q][e] = delivery[q][e],
           deliveryLock[e] \in OutboxProcs \cup {Unlocked}
    PROVE  Excused(e)'
<1>1. Strays(e)' = Strays(e)
  BY DEF Strays, Outstanding, PastLock
<1>2. RequestLeft(e)' <=> RequestLeft(e)
  BY DEF RequestLeft, Sendable
<1> QED BY <1>1, <1>2 DEF Excused, Owed

\* What is left of the account of an event when one delivery of it, or its lock, has moved:
\* it owes no more than before, or what it owes more was excused.
LEMMA Balance ==
    ASSUME OutboxInv, NEW e \in Projections, NEW p \in OutboxProcs, OutboxTypeOK',
           \A q \in OutboxProcs \ {p} : delivery'[q][e] = delivery[q][e],
           \/ deliveryLock'[e] = deliveryLock[e]
           \/ {deliveryLock[e], deliveryLock'[e]} \subseteq {p, Unlocked},
           received'[e] \in {received[e], received[e] + 1}, received'[e] <= MaxRequests,
           \/ excused'[e] = excused[e]
           \/ excused[e] < MaxRequests /\ excused'[e] = excused[e] + 1,
           LET more == (received'[e] - received[e])
                         + (IF Outstanding(p, e)' /\ deliveryLock'[e] # p THEN 1 ELSE 0)
                         - (IF p \in Strays(e) THEN 1 ELSE 0)
                         + (IF RequestLeft(e)' THEN 1 ELSE 0) - (IF RequestLeft(e) THEN 1 ELSE 0) IN
           more <= 0 \/ (more = 1 /\ (excused'[e] = excused[e] + 1 \/ excused[e] = MaxRequests))
    PROVE  Excused(e)'
<1>1. /\ Excused(e) /\ MaxRequests \in Nat /\ Unlocked \notin OutboxProcs
      /\ received[e] \in Nat /\ excused[e] \in Nat /\ received'[e] \in Nat /\ excused'[e] \in Nat
  BY OutboxAssumption DEF OutboxInv, RequestsExcused, OutboxTypeOK
<1> DEFINE strayed1 == Outstanding(p, e)' /\ deliveryLock'[e] # p
<1>2. Strays(e)' = IF strayed1 THEN Strays(e) \cup {p} ELSE Strays(e) \ {p}
  <2>1. \A q \in OutboxProcs \ {p} : q \in Strays(e)' <=> q \in Strays(e)
    BY <1>1 DEF Strays, Outstanding, PastLock
  <2>2. p \in Strays(e)' <=> strayed1
    BY DEF Strays
  <2>3. Strays(e) \subseteq OutboxProcs /\ Strays(e)' \subseteq OutboxProcs
    BY DEF Strays
  <2> HIDE DEF strayed1
  <2> QED BY <2>1, <2>2, <2>3
<1>3. /\ IsFiniteSet(Strays(e)') /\ Cardinality(Strays(e)) \in Nat /\ Cardinality(Strays(e)') \in Nat
      /\ Cardinality(Strays(e)') = Cardinality(Strays(e)) + (IF strayed1 THEN 1 ELSE 0)
                                     - (IF p \in Strays(e) THEN 1 ELSE 0)
  <2>1. IsFiniteSet(Strays(e))
    BY <1>1 DEF Excused
  <2> DEFINE S == Strays(e)
             T == Strays(e)'
  <2>2. T = IF strayed1 THEN S \cup {p} ELSE S \ {p}
    BY <1>2
  <2> HIDE DEF strayed1, S, T
  <2>3. /\ Cardinality(S) \in Nat
        /\ IsFiniteSet(S \ {p})
        /\ Cardinality(S \ {p}) = IF p \in S THEN Cardinality(S) - 1 ELSE Cardinality(S)
        /\ IsFiniteSet(S \cup {p})
        /\ Cardinality(S \cup {p}) = IF p \in S THEN Cardinality(S) ELSE Cardinality(S) + 1
    BY <2>1, StraysCounted DEF S
  <2>4. Cardinality(S \ {p}) \in Nat /\ Cardinality(S \cup {p}) \in Nat
    BY <2>3, FS_CardinalityType
  <2>5. CASE strayed1
    <3>1. T = S \cup {p}
      BY <2>2, <2>5
    <3>2. /\ IsFiniteSet(T) /\ Cardinality(T) \in Nat
          /\ Cardinality(T) = Cardinality(S) + 1 - (IF p \in S THEN 1 ELSE 0)
      BY <2>3, <2>4, <3>1
    <3> QED BY <2>3, <2>5, <3>2 DEF S, T
  <2>6. CASE ~strayed1
    <3>1. T = S \ {p}
      BY <2>2, <2>6
    <3>2. /\ IsFiniteSet(T) /\ Cardinality(T) \in Nat
          /\ Cardinality(T) = Cardinality(S) - (IF p \in S THEN 1 ELSE 0)
      BY <2>3, <2>4, <3>1
    <3> QED BY <2>3, <2>6, <3>2 DEF S, T
  <2> QED BY <2>5, <2>6
<1>4. Excused(e)' <=>
        /\ IsFiniteSet(Strays(e)')
        /\ received'[e] <= MaxRequests /\ excused'[e] <= MaxRequests
        /\ \/ excused'[e] = MaxRequests
           \/ received'[e] + Cardinality(Strays(e)') + (IF RequestLeft(e)' THEN 1 ELSE 0) <= 1 + excused'[e]
  BY DEF Excused, Owed
<1>5. /\ excused[e] <= MaxRequests
      /\ \/ excused[e] = MaxRequests
         \/ received[e] + Cardinality(Strays(e)) + (IF RequestLeft(e) THEN 1 ELSE 0) <= 1 + excused[e]
  BY <1>1 DEF Excused, Owed
<1> HIDE DEF Strays, RequestLeft, Outstanding
<1> QED BY <1>1, <1>3, <1>4, <1>5

\* What an excuse does to the count of each event.
LEMMA ExcuseCounts ==
    ASSUME OutboxTypeOK, NEW E, Excuse(E)
    PROVE  /\ excused' \in [Projections -> Nat]
           /\ \A e \in Projections \ E : excused'[e] = excused[e]
           /\ \A e \in E \cap Projections :
                excused'[e] = IF excused[e] < MaxRequests THEN excused[e] + 1 ELSE excused[e]
BY DEF OutboxTypeOK, Excuse

LEMMA OutboxStep ==
    ASSUME OutboxInv, [OutboxNext]_outboxVars
    PROVE  OutboxInv'
<1> USE OutboxAssumption
<1>0. /\ OutboxTypeOK /\ HoldersPastLock /\ RequestsExcused /\ LockKeeps
      /\ \A e \in Projections : deliveryLock[e] \in OutboxProcs \cup {Unlocked}
      /\ \A e \in Projections : Excused(e) /\ excused[e] <= MaxRequests /\ received[e] <= MaxRequests
  BY DEF OutboxInv, RequestsExcused, OutboxTypeOK, Excused
<1>1. ASSUME NEW p \in OutboxProcs, NEW e \in Projections, Deliver(p, e) PROVE OutboxInv'
  <2>1. OutboxTypeOK'
    BY <1>0, <1>1 DEF Deliver, MovesTo, OutboxTypeOK, Answers
  <2>2. HoldersPastLock'
    BY <1>0, <1>1 DEF Deliver, MovesTo, OutboxTypeOK, HoldersPastLock, PastLock, Answers
  <2>3. LockKeeps'
    BY <1>0, <1>1 DEF Deliver, MovesTo, OutboxTypeOK, HoldersPastLock, LockKeeps, PastLock, Answers
  <2>4. Excused(e)'
    <3>1. /\ \A q \in OutboxProcs \ {p} : delivery'[q][e] = delivery[q][e]
          /\ \/ deliveryLock'[e] = deliveryLock[e]
             \/ {deliveryLock[e], deliveryLock'[e]} \subseteq {p, Unlocked}
          /\ received'[e] \in {received[e], received[e] + 1} /\ received'[e] <= MaxRequests
          /\ \/ excused'[e] = excused[e]
             \/ excused[e] < MaxRequests /\ excused'[e] = excused[e] + 1
      BY <1>0, <1>1 DEF Deliver, MovesTo, OutboxTypeOK
    <3> DEFINE more == (received'[e] - received[e])
                         + (IF Outstanding(p, e)' /\ deliveryLock'[e] # p THEN 1 ELSE 0)
                         - (IF p \in Strays(e) THEN 1 ELSE 0)
                         + (IF RequestLeft(e)' THEN 1 ELSE 0) - (IF RequestLeft(e) THEN 1 ELSE 0)
    <3>2. more <= 0 \/ (more = 1 /\ (excused'[e] = excused[e] + 1 \/ excused[e] = MaxRequests))
      BY <1>0, <1>1, <3>1
         DEF Deliver, MovesTo, OutboxTypeOK, HoldersPastLock, Strays, Outstanding, PastLock,
             RequestLeft,
             Sendable, TakenIn, Answers
    <3> QED BY <1>0, <2>1, <3>1, <3>2, Balance
  <2>5. ASSUME NEW f \in Projections \ {e} PROVE Excused(f)'
    BY <1>0, <1>1, <2>5, Untouched DEF Deliver, MovesTo, OutboxTypeOK
  <2> QED BY <2>1, <2>2, <2>3, <2>4, <2>5 DEF OutboxInv, RequestsExcused
<1>2. ASSUME NEW p \in OutboxProcs, NEW e \in Projections, AcquireLock(p, e) PROVE OutboxInv'
  <2>1. OutboxTypeOK'
    BY <1>0, <1>2 DEF AcquireLock, MovesTo, LockFree, OutboxTypeOK, Answers
  <2>2. HoldersPastLock'
    BY <1>0, <1>2
    DEF AcquireLock, MovesTo, LockFree, OutboxTypeOK, HoldersPastLock, PastLock, Answers
  <2>3. LockKeeps'
    BY <1>0, <1>2
    DEF AcquireLock, MovesTo, LockFree, OutboxTypeOK, HoldersPastLock, LockKeeps, PastLock, Answers
  <2>4. Excused(e)'
    <3>1. /\ \A q \in OutboxProcs \ {p} : delivery'[q][e] = delivery[q][e]
          /\ \/ deliveryLock'[e] = deliveryLock[e]
             \/ {deliveryLock[e], deliveryLock'[e]} \subseteq {p, Unlocked}
          /\ received'[e] \in {received[e], received[e] + 1} /\ received'[e] <= MaxRequests
          /\ \/ excused'[e] = excused[e]
             \/ excused[e] < MaxRequests /\ excused'[e] = excused[e] + 1
      BY <1>0, <1>2 DEF AcquireLock, MovesTo, LockFree, OutboxTypeOK
    <3> DEFINE more == (received'[e] - received[e])
                         + (IF Outstanding(p, e)' /\ deliveryLock'[e] # p THEN 1 ELSE 0)
                         - (IF p \in Strays(e) THEN 1 ELSE 0)
                         + (IF RequestLeft(e)' THEN 1 ELSE 0) - (IF RequestLeft(e) THEN 1 ELSE 0)
    <3>2. more <= 0 \/ (more = 1 /\ (excused'[e] = excused[e] + 1 \/ excused[e] = MaxRequests))
      BY <1>0, <1>2, <3>1
         DEF AcquireLock, MovesTo, LockFree, OutboxTypeOK, HoldersPastLock, Strays, Outstanding,
             PastLock, RequestLeft,
             Sendable, TakenIn, Answers
    <3> QED BY <1>0, <2>1, <3>1, <3>2, Balance
  <2>5. ASSUME NEW f \in Projections \ {e} PROVE Excused(f)'
    BY <1>0, <1>2, <2>5, Untouched DEF AcquireLock, MovesTo, LockFree, OutboxTypeOK
  <2> QED BY <2>1, <2>2, <2>3, <2>4, <2>5 DEF OutboxInv, RequestsExcused
<1>3. ASSUME NEW p \in OutboxProcs, NEW e \in Projections, ReserveRow(p, e) PROVE OutboxInv'
  <2>1. OutboxTypeOK'
    BY <1>0, <1>3 DEF ReserveRow, MovesTo, Sendable, Unlock, OutboxTypeOK, Answers
  <2>2. HoldersPastLock'
    BY <1>0, <1>3, SMTT(30)
    DEF ReserveRow, MovesTo, Sendable, Unlock, OutboxTypeOK, HoldersPastLock, PastLock, Answers
  <2>3. LockKeeps'
    BY <1>0, <1>3
    DEF ReserveRow, MovesTo, Sendable, Unlock, OutboxTypeOK, HoldersPastLock, LockKeeps, PastLock,
        Answers
  <2>4. Excused(e)'
    <3>1. /\ \A q \in OutboxProcs \ {p} : delivery'[q][e] = delivery[q][e]
          /\ \/ deliveryLock'[e] = deliveryLock[e]
             \/ {deliveryLock[e], deliveryLock'[e]} \subseteq {p, Unlocked}
          /\ received'[e] \in {received[e], received[e] + 1} /\ received'[e] <= MaxRequests
          /\ \/ excused'[e] = excused[e]
             \/ excused[e] < MaxRequests /\ excused'[e] = excused[e] + 1
      BY <1>0, <1>3 DEF ReserveRow, MovesTo, Sendable, Unlock, OutboxTypeOK
    <3> DEFINE more == (received'[e] - received[e])
                         + (IF Outstanding(p, e)' /\ deliveryLock'[e] # p THEN 1 ELSE 0)
                         - (IF p \in Strays(e) THEN 1 ELSE 0)
                         + (IF RequestLeft(e)' THEN 1 ELSE 0) - (IF RequestLeft(e) THEN 1 ELSE 0)
    <3>2. more <= 0 \/ (more = 1 /\ (excused'[e] = excused[e] + 1 \/ excused[e] = MaxRequests))
      BY <1>0, <1>3, <3>1
         DEF ReserveRow, MovesTo, Sendable, Unlock, OutboxTypeOK, HoldersPastLock, Strays,
             Outstanding, PastLock, RequestLeft,
             Sendable, TakenIn, Answers
    <3> QED BY <1>0, <2>1, <3>1, <3>2, Balance
  <2>5. ASSUME NEW f \in Projections \ {e} PROVE Excused(f)'
    BY <1>0, <1>3, <2>5, Untouched DEF ReserveRow, MovesTo, Sendable, Unlock, OutboxTypeOK
  <2> QED BY <2>1, <2>2, <2>3, <2>4, <2>5 DEF OutboxInv, RequestsExcused
<1>4. ASSUME NEW p \in OutboxProcs, NEW e \in Projections, NEW a \in Answers, Request(p, e, a) PROVE OutboxInv'
  <2>1. OutboxTypeOK'
    BY <1>0, <1>4 DEF Request, MovesTo, TakenIn, OutboxTypeOK, Answers
  <2>2. HoldersPastLock'
    BY <1>0, <1>4
    DEF Request, MovesTo, TakenIn, Answers, OutboxTypeOK, HoldersPastLock, PastLock, Answers
  <2>3. LockKeeps'
    BY <1>0, <1>4
    DEF Request, MovesTo, TakenIn, Answers, OutboxTypeOK, HoldersPastLock, LockKeeps, PastLock,
        Answers
  <2>4. Excused(e)'
    <3>1. /\ \A q \in OutboxProcs \ {p} : delivery'[q][e] = delivery[q][e]
          /\ \/ deliveryLock'[e] = deliveryLock[e]
             \/ {deliveryLock[e], deliveryLock'[e]} \subseteq {p, Unlocked}
          /\ received'[e] \in {received[e], received[e] + 1} /\ received'[e] <= MaxRequests
          /\ \/ excused'[e] = excused[e]
             \/ excused[e] < MaxRequests /\ excused'[e] = excused[e] + 1
      BY <1>0, <1>4 DEF Request, MovesTo, TakenIn, Answers, OutboxTypeOK
    <3> DEFINE more == (received'[e] - received[e])
                         + (IF Outstanding(p, e)' /\ deliveryLock'[e] # p THEN 1 ELSE 0)
                         - (IF p \in Strays(e) THEN 1 ELSE 0)
                         + (IF RequestLeft(e)' THEN 1 ELSE 0) - (IF RequestLeft(e) THEN 1 ELSE 0)
    <3>2. more <= 0 \/ (more = 1 /\ (excused'[e] = excused[e] + 1 \/ excused[e] = MaxRequests))
      BY <1>0, <1>4, <3>1
         DEF Request, MovesTo, TakenIn, Answers, OutboxTypeOK, HoldersPastLock, Strays,
             Outstanding, PastLock, RequestLeft,
             Sendable, TakenIn, Answers
    <3> QED BY <1>0, <2>1, <3>1, <3>2, Balance
  <2>5. ASSUME NEW f \in Projections \ {e} PROVE Excused(f)'
    BY <1>0, <1>4, <2>5, Untouched DEF Request, MovesTo, TakenIn, Answers, OutboxTypeOK
  <2> QED BY <2>1, <2>2, <2>3, <2>4, <2>5 DEF OutboxInv, RequestsExcused
<1>5. ASSUME NEW p \in OutboxProcs, NEW e \in Projections, Finish(p, e) PROVE OutboxInv'
  <2>0. /\ excused' \in [Projections -> Nat]
        /\ \A f \in Projections \ {e} : excused'[f] = excused[f]
        /\ excused'[e] = excused[e] \/ (excused[e] < MaxRequests /\ excused'[e] = excused[e] + 1)
        /\ delivery[p][e] = "garbled" /\ excused[e] < MaxRequests => excused'[e] = excused[e] + 1
    BY <1>0, <1>5, ExcuseCounts DEF Finish
  <2>1. OutboxTypeOK'
    BY <1>0, <2>0, <1>5 DEF Finish, MovesTo, StatusOf, Unlock, TakenIn, OutboxTypeOK, Answers
  <2>2. HoldersPastLock'
    BY <1>0, <2>0, <1>5
    DEF Finish, MovesTo, StatusOf, Unlock, TakenIn, Answers, OutboxTypeOK, HoldersPastLock,
        PastLock, Answers
  <2>3. LockKeeps'
    BY <1>0, <2>0, <1>5
    DEF Finish, MovesTo, StatusOf, Unlock, TakenIn, Answers, OutboxTypeOK, HoldersPastLock,
        LockKeeps, PastLock, Answers
  <2>4. Excused(e)'
    <3>1. /\ \A q \in OutboxProcs \ {p} : delivery'[q][e] = delivery[q][e]
          /\ \/ deliveryLock'[e] = deliveryLock[e]
             \/ {deliveryLock[e], deliveryLock'[e]} \subseteq {p, Unlocked}
          /\ received'[e] \in {received[e], received[e] + 1} /\ received'[e] <= MaxRequests
          /\ \/ excused'[e] = excused[e]
             \/ excused[e] < MaxRequests /\ excused'[e] = excused[e] + 1
      BY <1>0, <2>0, <1>5 DEF Finish, MovesTo, StatusOf, Unlock, TakenIn, Answers, OutboxTypeOK
    <3> DEFINE more == (received'[e] - received[e])
                         + (IF Outstanding(p, e)' /\ deliveryLock'[e] # p THEN 1 ELSE 0)
                         - (IF p \in Strays(e) THEN 1 ELSE 0)
                         + (IF RequestLeft(e)' THEN 1 ELSE 0) - (IF RequestLeft(e) THEN 1 ELSE 0)
    <3>2. more <= 0 \/ (more = 1 /\ (excused'[e] = excused[e] + 1 \/ excused[e] = MaxRequests))
      BY <1>0, <2>0, <1>5, <3>1
         DEF Finish, MovesTo, StatusOf, Unlock, TakenIn, Answers, OutboxTypeOK, HoldersPastLock,
             Strays, Outstanding, PastLock, RequestLeft,
             Sendable, TakenIn, Answers
    <3> QED BY <1>0, <2>1, <3>1, <3>2, Balance
  <2>5. ASSUME NEW f \in Projections \ {e} PROVE Excused(f)'
    BY <1>0, <2>0, <1>5, <2>5, Untouched
    DEF Finish, MovesTo, StatusOf, Unlock, TakenIn, Answers, OutboxTypeOK
  <2> QED BY <2>1, <2>2, <2>3, <2>4, <2>5 DEF OutboxInv, RequestsExcused
<1>6. ASSUME NEW p \in OutboxProcs, NEW e \in Projections, FinishFails(p, e) PROVE OutboxInv'
  <2>0. /\ excused' \in [Projections -> Nat]
        /\ \A f \in Projections \ {e} : excused'[f] = excused[f]
        /\ excused'[e] = excused[e] \/ (excused[e] < MaxRequests /\ excused'[e] = excused[e] + 1)
        /\ TakenIn(delivery[p][e]) /\ excused[e] < MaxRequests => excused'[e] = excused[e] + 1
    BY <1>0, <1>6, ExcuseCounts DEF FinishFails
  <2>1. OutboxTypeOK'
    BY <1>0, <2>0, <1>6
    DEF FinishFails, MovesTo, OutboxFault, Unlock, TakenIn, OutboxTypeOK, Answers
  <2>2. HoldersPastLock'
    BY <1>0, <2>0, <1>6
    DEF FinishFails, MovesTo, OutboxFault, Unlock, TakenIn, Answers, OutboxTypeOK, HoldersPastLock,
        PastLock, Answers
  <2>3. LockKeeps'
    BY <1>0, <2>0, <1>6
    DEF FinishFails, MovesTo, OutboxFault, Unlock, TakenIn, Answers, OutboxTypeOK, HoldersPastLock,
        LockKeeps, PastLock, Answers
  <2>4. Excused(e)'
    <3>1. /\ \A q \in OutboxProcs \ {p} : delivery'[q][e] = delivery[q][e]
          /\ \/ deliveryLock'[e] = deliveryLock[e]
             \/ {deliveryLock[e], deliveryLock'[e]} \subseteq {p, Unlocked}
          /\ received'[e] \in {received[e], received[e] + 1} /\ received'[e] <= MaxRequests
          /\ \/ excused'[e] = excused[e]
             \/ excused[e] < MaxRequests /\ excused'[e] = excused[e] + 1
      BY <1>0, <2>0, <1>6
      DEF FinishFails, MovesTo, OutboxFault, Unlock, TakenIn, Answers, OutboxTypeOK
    <3> DEFINE more == (received'[e] - received[e])
                         + (IF Outstanding(p, e)' /\ deliveryLock'[e] # p THEN 1 ELSE 0)
                         - (IF p \in Strays(e) THEN 1 ELSE 0)
                         + (IF RequestLeft(e)' THEN 1 ELSE 0) - (IF RequestLeft(e) THEN 1 ELSE 0)
    <3>2. more <= 0 \/ (more = 1 /\ (excused'[e] = excused[e] + 1 \/ excused[e] = MaxRequests))
      BY <1>0, <2>0, <1>6, <3>1
         DEF FinishFails, MovesTo, OutboxFault, Unlock, TakenIn, Answers, OutboxTypeOK,
             HoldersPastLock, Strays, Outstanding, PastLock, RequestLeft,
             Sendable, TakenIn, Answers
    <3> QED BY <1>0, <2>1, <3>1, <3>2, Balance
  <2>5. ASSUME NEW f \in Projections \ {e} PROVE Excused(f)'
    BY <1>0, <2>0, <1>6, <2>5, Untouched
    DEF FinishFails, MovesTo, OutboxFault, Unlock, TakenIn, Answers, OutboxTypeOK
  <2> QED BY <2>1, <2>2, <2>3, <2>4, <2>5 DEF OutboxInv, RequestsExcused
<1>7. ASSUME NEW p \in OutboxProcs, NEW e \in Projections, LoseSession(p, e) PROVE OutboxInv'
  <2>0. /\ excused' \in [Projections -> Nat]
        /\ \A f \in Projections \ {e} : excused'[f] = excused[f]
        /\ excused'[e] = excused[e] \/ (excused[e] < MaxRequests /\ excused'[e] = excused[e] + 1)
        /\ excused[e] < MaxRequests => excused'[e] = excused[e] + 1
    BY <1>0, <1>7, ExcuseCounts DEF LoseSession
  <2>1. OutboxTypeOK'
    BY <1>0, <2>0, <1>7 DEF LoseSession, MovesTo, OutboxFault, OutboxTypeOK, Answers
  <2>2. HoldersPastLock'
    BY <1>0, <2>0, <1>7
    DEF LoseSession, MovesTo, OutboxFault, OutboxTypeOK, HoldersPastLock, PastLock, Answers
  <2>3. LockKeeps'
    BY <1>0, <2>0, <1>7
    DEF LoseSession, MovesTo, OutboxFault, OutboxTypeOK, HoldersPastLock, LockKeeps, PastLock,
        Answers
  <2>4. Excused(e)'
    <3>1. /\ \A q \in OutboxProcs \ {p} : delivery'[q][e] = delivery[q][e]
          /\ \/ deliveryLock'[e] = deliveryLock[e]
             \/ {deliveryLock[e], deliveryLock'[e]} \subseteq {p, Unlocked}
          /\ received'[e] \in {received[e], received[e] + 1} /\ received'[e] <= MaxRequests
          /\ \/ excused'[e] = excused[e]
             \/ excused[e] < MaxRequests /\ excused'[e] = excused[e] + 1
      BY <1>0, <2>0, <1>7 DEF LoseSession, MovesTo, OutboxFault, OutboxTypeOK
    <3> DEFINE more == (received'[e] - received[e])
                         + (IF Outstanding(p, e)' /\ deliveryLock'[e] # p THEN 1 ELSE 0)
                         - (IF p \in Strays(e) THEN 1 ELSE 0)
                         + (IF RequestLeft(e)' THEN 1 ELSE 0) - (IF RequestLeft(e) THEN 1 ELSE 0)
    <3>2. more <= 0 \/ (more = 1 /\ (excused'[e] = excused[e] + 1 \/ excused[e] = MaxRequests))
      <4>1. /\ p # Unlocked /\ deliveryLock[e] = p /\ deliveryLock'[e] = Unlocked
            /\ delivery' = delivery /\ row' = row /\ received'[e] = received[e] /\ received[e] \in Nat
        BY <1>0, <1>7 DEF LoseSession, OutboxTypeOK
      <4>2. excused'[e] = excused[e] + 1 \/ excused[e] = MaxRequests
        <5>1. excused[e] \in Nat /\ excused[e] <= MaxRequests /\ MaxRequests \in Nat
          BY <1>0 DEF OutboxTypeOK
        <5> QED BY <2>0, <5>1
      <4>3. p \notin Strays(e) /\ (Outstanding(p, e)' <=> Outstanding(p, e))
        BY <4>1 DEF Strays, Outstanding, PastLock
      <4>4. /\ RequestLeft(e)' <=> Sendable(e)
            /\ RequestLeft(e) <=> IF delivery[p][e] = "locked" THEN Sendable(e) ELSE ~TakenIn(delivery[p][e])
            /\ Outstanding(p, e) <=> ~TakenIn(delivery[p][e])
        BY <1>0, <4>1 DEF RequestLeft, Sendable, Outstanding, HoldersPastLock, PastLock
      <4>5. delivery[p][e] = "locked" => ~TakenIn(delivery[p][e])
        BY DEF TakenIn
      <4>6. \/ Outstanding(p, e)' /\ RequestLeft(e)
            \/ Outstanding(p, e)' /\ ~RequestLeft(e)' /\ ~RequestLeft(e)
            \/ ~Outstanding(p, e)'
        BY <4>3, <4>4, <4>5
      <4> HIDE DEF Strays, RequestLeft, Outstanding
      <4> QED BY <4>1, <4>2, <4>3, <4>6
    <3> QED BY <1>0, <2>1, <3>1, <3>2, Balance
  <2>5. ASSUME NEW f \in Projections \ {e} PROVE Excused(f)'
    BY <1>0, <2>0, <1>7, <2>5, Untouched DEF LoseSession, MovesTo, OutboxFault, OutboxTypeOK
  <2> QED BY <2>1, <2>2, <2>3, <2>4, <2>5 DEF OutboxInv, RequestsExcused
<1>8. ASSUME NEW e \in Projections, Enqueue(e) PROVE OutboxInv'
  <2>1. OutboxTypeOK' /\ HoldersPastLock' /\ LockKeeps'
    BY <1>0, <1>8 DEF Enqueue, OutboxTypeOK, HoldersPastLock, LockKeeps, PastLock
  <2>2. Strays(e)' = Strays(e) /\ (RequestLeft(e)' <=> RequestLeft(e))
    BY <1>0, <1>8 DEF Enqueue, OutboxTypeOK, Strays, Outstanding, PastLock, RequestLeft, Sendable
  <2>3. Excused(e)'
    BY <1>0, <1>8, <2>2 DEF Enqueue, Excused, Owed
  <2>4. ASSUME NEW f \in Projections \ {e} PROVE Excused(f)'
    BY <1>0, <1>8, <2>4, Untouched DEF Enqueue, OutboxTypeOK
  <2> QED BY <2>1, <2>3, <2>4 DEF OutboxInv, RequestsExcused
<1>9. ASSUME NEW e \in Projections, NEW outcome \in {"completed", "failed"}, Reconcile(e, outcome)
      PROVE  OutboxInv'
  <2>0. /\ excused' \in [Projections -> Nat]
        /\ \A f \in Projections \ {e} : excused'[f] = excused[f]
        /\ outcome = "completed" => excused'[e] = excused[e]
        /\ outcome = "failed" =>
             excused'[e] = IF excused[e] < MaxRequests THEN excused[e] + 1 ELSE excused[e]
    BY <1>0, <1>9, ExcuseCounts DEF Reconcile
  <2>1. OutboxTypeOK' /\ HoldersPastLock' /\ LockKeeps'
    BY <1>0, <2>0, <1>9 DEF Reconcile, OutboxTypeOK, HoldersPastLock, LockKeeps, PastLock
  <2>2. Strays(e)' = Strays(e) /\ (outcome = "completed" /\ RequestLeft(e)' => RequestLeft(e))
    BY <1>0, <1>9 DEF Reconcile, OutboxTypeOK, Strays, Outstanding, PastLock, RequestLeft, Sendable
  <2>3. Excused(e)'
    <3>1. IsFiniteSet(Strays(e)) /\ Cardinality(Strays(e)) \in Nat
      BY <1>0, FS_CardinalityType DEF Excused
    <3>2. received'[e] = received[e] /\ received[e] \in Nat /\ excused[e] \in Nat
      BY <1>0, <1>9 DEF Reconcile, OutboxTypeOK
    <3>3. Owed(e)' = received[e] + Cardinality(Strays(e)) + (IF RequestLeft(e)' THEN 1 ELSE 0)
      BY <2>2, <3>2 DEF Owed
    <3>4. Owed(e) = received[e] + Cardinality(Strays(e)) + (IF RequestLeft(e) THEN 1 ELSE 0)
      BY DEF Owed
    <3>5. \/ excused'[e] = excused[e] /\ Owed(e)' <= Owed(e)
          \/ excused'[e] = MaxRequests
          \/ excused'[e] = excused[e] + 1 /\ excused[e] < MaxRequests /\ Owed(e)' <= Owed(e) + 1
      <4> HIDE DEF RequestLeft, Strays, Owed
      <4> QED BY <1>0, <2>0, <2>2, <3>1, <3>2, <3>3, <3>4
    <3>6. Owed(e) \in Nat /\ Owed(e)' \in Nat
      BY <3>1, <3>2, <3>3, <3>4
    <3> HIDE DEF Owed
    <3> QED BY <1>0, <2>0, <2>2, <3>1, <3>2, <3>5, <3>6 DEF Excused
  <2>4. ASSUME NEW f \in Projections \ {e} PROVE Excused(f)'
    BY <1>0, <2>0, <1>9, <2>4, Untouched DEF Reconcile, OutboxTypeOK
  <2> QED BY <2>1, <2>3, <2>4 DEF OutboxInv, RequestsExcused
<1>10. ASSUME NEW p \in OutboxProcs, OutboxCrash(p) PROVE OutboxInv'
  <2>0. /\ excused' \in [Projections -> Nat]
        /\ \A e \in Projections :
             excused'[e] = IF TakenIn(delivery[p][e]) /\ excused[e] < MaxRequests
                           THEN excused[e] + 1 ELSE excused[e]
    BY <1>0, <1>10, ExcuseCounts DEF OutboxCrash
  <2>1. OutboxTypeOK'
    BY <1>0, <2>0, <1>10 DEF OutboxCrash, OutboxFault, OutboxTypeOK
  <2>2. HoldersPastLock'
    BY <1>0, <1>10 DEF OutboxCrash, OutboxTypeOK, HoldersPastLock, PastLock
  <2>3. LockKeeps'
    BY <1>0, <1>10 DEF OutboxCrash, OutboxTypeOK, LockKeeps, PastLock, Answers
  <2>4. ASSUME NEW e \in Projections PROVE Excused(e)'
    <3>1. /\ \A q \in OutboxProcs \ {p} : delivery'[q][e] = delivery[q][e]
          /\ delivery'[p][e] = "none"
          /\ deliveryLock'[e] = IF deliveryLock[e] = p THEN Unlocked ELSE deliveryLock[e]
          /\ received'[e] = received[e] /\ row'[e] = row[e]
      BY <1>0, <1>10 DEF OutboxCrash, OutboxTypeOK
    <3> DEFINE more == (received'[e] - received[e])
                         + (IF Outstanding(p, e)' /\ deliveryLock'[e] # p THEN 1 ELSE 0)
                         - (IF p \in Strays(e) THEN 1 ELSE 0)
                         + (IF RequestLeft(e)' THEN 1 ELSE 0) - (IF RequestLeft(e) THEN 1 ELSE 0)
    <3>2. more <= 0 \/ (more = 1 /\ (excused'[e] = excused[e] + 1 \/ excused[e] = MaxRequests))
      BY <1>0, <2>0, <3>1
         DEF OutboxTypeOK, HoldersPastLock, Strays, Outstanding, PastLock, RequestLeft, Sendable,
             TakenIn,
             Answers
    <3>3. /\ \/ deliveryLock'[e] = deliveryLock[e]
             \/ {deliveryLock[e], deliveryLock'[e]} \subseteq {p, Unlocked}
          /\ received'[e] \in {received[e], received[e] + 1} /\ received'[e] <= MaxRequests
          /\ \/ excused'[e] = excused[e]
             \/ excused[e] < MaxRequests /\ excused'[e] = excused[e] + 1
      BY <1>0, <2>0, <3>1
    <3> QED BY <1>0, <2>1, <3>1, <3>2, <3>3, Balance
  <2> QED BY <2>1, <2>2, <2>3, <2>4 DEF OutboxInv, RequestsExcused
<1>11. CASE UNCHANGED outboxVars
  <2>1. OutboxTypeOK' /\ HoldersPastLock' /\ LockKeeps'
    BY <1>0, <1>11 DEF outboxVars, OutboxTypeOK, HoldersPastLock, LockKeeps, PastLock
  <2>2. ASSUME NEW e \in Projections PROVE Excused(e)'
    BY <1>0, <1>11, <2>2, Untouched DEF outboxVars
  <2> QED BY <2>1, <2>2 DEF OutboxInv, RequestsExcused
<1> QED BY <1>1, <1>2, <1>3, <1>4, <1>5, <1>6, <1>7, <1>8, <1>9, <1>10, <1>11 DEF OutboxNext

LEMMA OutboxInvariant == OutboxSpec => []OutboxInv
<1> QED BY OutboxStart, OutboxStep, PTL DEF OutboxSpec

\* Every reachable row, lock and delivery of the projection outbox is well typed.
THEOREM OutboxTypeCorrect == OutboxSpec => []OutboxTypeOK
<1>1. OutboxInv => OutboxTypeOK
  BY DEF OutboxInv
<1> QED BY <1>1, OutboxInvariant, PTL

\* deliver() asks the sink again only for a cause it can name, for any number of processes
\* and events, whatever crashes, sessions are lost and operators say.
THEOREM EveryResendExcused == OutboxSpec => []ResentOnlyForCause
<1>1. OutboxInv => ResentOnlyForCause
  <2> SUFFICES ASSUME OutboxInv, NEW e \in Projections PROVE received[e] <= 1 + excused[e]
    BY DEF ResentOnlyForCause
  <2>1. Excused(e) /\ received[e] \in Nat /\ excused[e] \in Nat
    BY DEF OutboxInv, RequestsExcused, OutboxTypeOK
  <2>2. Cardinality(Strays(e)) \in Nat
    BY <2>1, FS_CardinalityType DEF Excused
  <2> HIDE DEF Strays, RequestLeft
  <2> QED BY <2>1, <2>2, OutboxAssumption DEF Excused, Owed
<1> QED BY <1>1, OutboxInvariant, PTL

\* No delivery writes over an outcome that another process or pump has recorded.
THEOREM OutcomesStand == OutboxSpec => OutcomeStands
<1>1. OutboxInv /\ [OutboxNext]_outboxVars =>
         [\A e \in Projections \ strayed :
             row[e] \in {"delivered", "unknown"} /\ row'[e] # row[e] =>
                row[e] = "unknown" /\ delivery' = delivery]_outboxVars
  <2> SUFFICES ASSUME OutboxInv, OutboxNext, NEW e \in Projections \ strayed,
                      row[e] \in {"delivered", "unknown"}, row'[e] # row[e]
               PROVE  row[e] = "unknown" /\ delivery' = delivery
    OBVIOUS
  <2>1. \A p \in OutboxProcs, f \in Projections : Finish(p, f) => row'[e] = row[e]
    <3> SUFFICES ASSUME NEW p \in OutboxProcs, NEW f \in Projections, Finish(p, f) PROVE row'[e] = row[e]
      OBVIOUS
    <3>1. f # e
      BY DEF OutboxInv, LockKeeps, Finish
    <3> QED BY <3>1 DEF Finish, OutboxInv, OutboxTypeOK
  <2>2. \E f \in Projections, o \in {"completed", "failed"} : Enqueue(f) \/ Reconcile(f, o)
    BY <2>1
    DEF OutboxNext, Deliver, AcquireLock, ReserveRow, FinishFails, LoseSession, Request, OutboxCrash
  <2>3. PICK f \in Projections, o \in {"completed", "failed"} : Enqueue(f) \/ Reconcile(f, o)
    BY <2>2
  <2>4. f = e
    BY <2>3 DEF Enqueue, Reconcile, OutboxInv, OutboxTypeOK
  <2> QED BY <2>3, <2>4 DEF Enqueue, Reconcile
<1> QED BY <1>1, OutboxInvariant, PTL DEF OutboxSpec, OutcomeStands

-----------------------------------------------------------------------------
(* The collaboration triggers and their pump *)

EvaluatorSteps == {"idle", "claim", "create", "bind", "run", "complete", "lose", "fail", "flag", "commit"}
OwnSteps == {"create", "bind", "run", "complete", "lose", "fail"}
Decided == {"started", "triggered", "failed"}

Dispatches == {"not_requested", "started", "completed", "unknown", "failed"}
DecisionRows ==
    [TriggerEvents -> [state : {"none", "blocked_depth"} \cup Decided, resource : BOOLEAN,
                       dispatch : Dispatches, startedAt : 0 .. TriggerHorizon]]

TriggerTypes ==
    /\ incoming \in [TriggerEvents -> [occurredAt : 0 .. TriggerHorizon, deep : BOOLEAN]]
    /\ policy \in [enabled : BOOLEAN, version : Nat, runs : BOOLEAN]
    /\ triggerTime \in 0 .. TriggerHorizon
    /\ decisions \in DecisionRows
    /\ evaluator \in [Evaluators ->
         [at : EvaluatorSteps, event : TriggerEvents \cup {AtRest.event}, version : Nat]]
    /\ \A w \in Evaluators : evaluator[w].at # "idle" => evaluator[w].event \in TriggerEvents
    /\ created \in [TriggerEvents -> Nat] /\ ran \in [TriggerEvents -> Nat]
    /\ pumped \subseteq TriggerEvents /\ flagged \subseteq TriggerEvents

\* The evaluator works on a decision that it has claimed itself.
Owns(w) == evaluator[w].at \in OwnSteps
OneOwner ==
    \A w, v \in Evaluators : Owns(w) /\ Owns(v) /\ evaluator[w].event = evaluator[v].event => w = v

\* The checkpoint may pass the event.
Passable(e) ==
    \/ e \in missed \cup declined
    \/ decisions[e].state # "none" /\ (decisions[e].state = "blocked_depth" => e \in flagged)

EventOpenedOnce(e) ==
    /\ created[e] <= 1 /\ ran[e] <= created[e]
    /\ decisions[e].state \in {"none", "blocked_depth"} => created[e] = 0
    /\ incoming[e].deep => decisions[e].state \in {"none", "blocked_depth"}
EventsOpenedOnce == \A e \in TriggerEvents : EventOpenedOnce(e)

EvaluatorSound(w) ==
    /\ Owns(w) => decisions[evaluator[w].event].state \in Decided
    /\ evaluator[w].at = "create" => created[evaluator[w].event] = 0
    /\ evaluator[w].at \in {"bind", "run"} => created[evaluator[w].event] = 1 /\ ran[evaluator[w].event] = 0
    /\ evaluator[w].at = "flag" => decisions[evaluator[w].event].state = "blocked_depth"
    /\ evaluator[w].at = "commit" => Passable(evaluator[w].event)
EvaluatorsSound == \A w \in Evaluators : EvaluatorSound(w)

\* A decision the cooldown is measured from, unless the owner was overruled.
Counted(e) == e \notin revived /\ decisions[e].state \in {"started", "triggered"}
CooledDown ==
    /\ \A e \in TriggerEvents : decisions[e].startedAt <= triggerTime
    /\ \A e, f \in TriggerEvents :
         Counted(e) /\ Counted(f) /\ Cooldown > 0 /\ e # f /\ decisions[e].startedAt <= decisions[f].startedAt
         => Earlier(incoming[f].occurredAt, decisions[f].startedAt) - decisions[e].startedAt >= Cooldown

PumpedPassable == \A e \in pumped : Passable(e)

TriggersInv ==
    TriggerTypes /\ OneOwner /\ EventsOpenedOnce /\ EvaluatorsSound /\ CooledDown /\ PumpedPassable

LEMMA Resting == AtRest = [at |-> "idle", event |-> AtRest.event, version |-> 0]
BY DEF AtRest

LEMMA RestingTyped == AtRest \in [at : EvaluatorSteps, event : TriggerEvents \cup {AtRest.event}, version : Nat]
<1> DEFINE e0 == AtRest.event
<1>1. AtRest = [at |-> "idle", event |-> e0, version |-> 0]
  BY Resting
<1> HIDE DEF e0
<1>2. [at |-> "idle", event |-> e0, version |-> 0]
         \in [at : EvaluatorSteps, event : TriggerEvents \cup {e0}, version : Nat]
  BY DEF EvaluatorSteps
<1> QED BY <1>1, <1>2 DEF e0

LEMMA TriggersStart == TriggersInit => TriggersInv
<1> SUFFICES ASSUME TriggersInit PROVE TriggersInv
  OBVIOUS
<1>1. TriggerTypes
  <2>1. NoDecision.startedAt = 0 /\ 0 \in 0 .. TriggerHorizon
    BY TriggerAssumption DEF NoDecision
  <2>2. AtRest \in [at : EvaluatorSteps, event : TriggerEvents \cup {AtRest.event}, version : Nat]
        /\ AtRest.at = "idle"
    BY Resting, RestingTyped
  <2>3. NoDecision \in [state : {"none", "blocked_depth"} \cup Decided, resource : BOOLEAN,
          dispatch : Dispatches, startedAt : 0 .. TriggerHorizon]
    BY <2>1 DEF NoDecision, Dispatches
  <2> DEFINE steps == [at : EvaluatorSteps, event : TriggerEvents \cup {AtRest.event}, version : Nat]
  <2>4. evaluator \in [Evaluators -> steps] /\ \A w \in Evaluators : evaluator[w].at = "idle"
    <3> HIDE DEF steps
    <3> QED BY <2>2 DEF TriggersInit, steps
  <2>5. decisions \in DecisionRows
    BY <2>3 DEF TriggersInit, DecisionRows
  <2>6. /\ incoming \in [TriggerEvents -> [occurredAt : 0 .. TriggerHorizon, deep : BOOLEAN]]
        /\ triggerTime \in 0 .. TriggerHorizon
        /\ created \in [TriggerEvents -> Nat] /\ ran \in [TriggerEvents -> Nat]
        /\ pumped \subseteq TriggerEvents /\ flagged \subseteq TriggerEvents
    BY <2>1 DEF TriggersInit
  <2>7. policy \in [enabled : BOOLEAN, version : Nat, runs : BOOLEAN]
    <3>1. PICK b \in BOOLEAN : policy = [enabled |-> TRUE, version |-> 0, runs |-> b]
      <4>1. policy \in [enabled : {TRUE}, version : {0}, runs : BOOLEAN]
        BY DEF TriggersInit
      <4> QED BY <4>1, Zenon
    <3> QED BY <3>1
  <2> QED BY <2>4, <2>5, <2>6, <2>7 DEF TriggerTypes
<1>2. OneOwner /\ EventsOpenedOnce /\ EvaluatorsSound /\ CooledDown /\ PumpedPassable
  BY TriggerAssumption
     DEF TriggersInit, OneOwner, Owns, OwnSteps, AtRest, NoDecision, EventsOpenedOnce,
         EventOpenedOnce,
         EvaluatorsSound, EvaluatorSound, CooledDown, Counted, PumpedPassable
<1> QED BY <1>1, <1>2 DEF TriggersInv

\* A step that starts no decision and counts no further one keeps the cooldown.
LEMMA CooldownKept ==
    ASSUME TriggersInv, incoming' = incoming, triggerTime' = triggerTime,
           \A f \in TriggerEvents : decisions'[f].startedAt = decisions[f].startedAt,
           \A f \in TriggerEvents : Counted(f)' => Counted(f)
    PROVE  CooledDown'
BY DEF TriggersInv, CooledDown, Earlier

\* Where an evaluation that is going on may have gone: to its next step, or to rest.
LEMMA EvaluatorMoves ==
    ASSUME TriggerTypes, NEW w \in Evaluators, NEW step \in EvaluatorSteps, evaluator[w].at # "idle",
           EvaluatorGoes(w, step) \/ evaluator' = [evaluator EXCEPT ![w] = AtRest]
    PROVE  /\ evaluator' \in [Evaluators ->
                [at : EvaluatorSteps, event : TriggerEvents \cup {AtRest.event}, version : Nat]]
           /\ \A v \in Evaluators \ {w} : evaluator'[v] = evaluator[v]
           /\ evaluator'[w].at \in {step, "idle"}
           /\ evaluator'[w].at # "idle" => evaluator'[w].event = evaluator[w].event
           /\ \A v \in Evaluators : evaluator'[v].at # "idle" => evaluator'[v].event \in TriggerEvents
<1>1. CASE EvaluatorGoes(w, step)
  BY <1>1 DEF TriggerTypes, EvaluatorGoes
<1>2. CASE evaluator' = [evaluator EXCEPT ![w] = AtRest]
  <2> DEFINE e0 == AtRest.event
  <2>1. AtRest = [at |-> "idle", event |-> e0, version |-> 0]
    BY Resting
  <2> HIDE DEF e0
  <2>2. evaluator' = [evaluator EXCEPT ![w] = [at |-> "idle", event |-> e0, version |-> 0]]
    BY <1>2, <2>1
  <2>3. evaluator \in [Evaluators ->
           [at : EvaluatorSteps, event : TriggerEvents \cup {e0}, version : Nat]]
    BY DEF TriggerTypes, e0
  <2>4. evaluator' \in [Evaluators ->
           [at : EvaluatorSteps, event : TriggerEvents \cup {e0}, version : Nat]]
    BY <2>2, <2>3 DEF EvaluatorSteps
  <2>5. evaluator'[w].at = "idle"
    BY <2>2, <2>3
  <2>6. \A v \in Evaluators \ {w} : evaluator'[v] = evaluator[v]
    BY <2>2, <2>3
  <2> QED BY <2>4, <2>5, <2>6 DEF TriggerTypes, e0
<1> QED BY <1>1, <1>2

\* What two fields of an evaluator's record, and of a decision's row, become.
LEMMA CommitAtOnce ==
    ASSUME NEW r, NEW e0, NEW e, r = [at |-> "idle", event |-> e0, version |-> 0]
    PROVE  [r EXCEPT !.at = "commit", !.event = e] = [at |-> "commit", event |-> e, version |-> 0]
<1>1. [r EXCEPT !.at = "commit"] = [at |-> "commit", event |-> e0, version |-> 0]
  OBVIOUS
<1>2. [r EXCEPT !.at = "commit", !.event = e] = [[r EXCEPT !.at = "commit"] EXCEPT !.event = e]
  OBVIOUS
<1>3. [[at |-> "commit", event |-> e0, version |-> 0] EXCEPT !.event = e]
         = [at |-> "commit", event |-> e, version |-> 0]
  OBVIOUS
<1> QED BY <1>1, <1>2, <1>3

LEMMA DecisionOpened ==
    ASSUME NEW s, NEW now
    PROVE  [NoDecision EXCEPT !.state = s, !.startedAt = now]
              = [state |-> s, resource |-> FALSE, dispatch |-> "not_requested", startedAt |-> now]
<1>1. PICK b : b = FALSE
  OBVIOUS
<1>2. PICK r : r = [state |-> "none", resource |-> b, dispatch |-> "not_requested", startedAt |-> 0]
  OBVIOUS
<1>3. r = NoDecision
  BY <1>1, <1>2 DEF NoDecision
<1>4. [r EXCEPT !.state = s, !.startedAt = now]
              = [state |-> s, resource |-> b, dispatch |-> "not_requested", startedAt |-> now]
  <2>1. [r EXCEPT !.state = s] = [state |-> s, resource |-> b, dispatch |-> "not_requested", startedAt |-> 0]
    BY <1>2
  <2>2. [r EXCEPT !.state = s, !.startedAt = now] = [[r EXCEPT !.state = s] EXCEPT !.startedAt = now]
    OBVIOUS
  <2>3. [[state |-> s, resource |-> b, dispatch |-> "not_requested", startedAt |-> 0] EXCEPT !.startedAt = now]
           = [state |-> s, resource |-> b, dispatch |-> "not_requested", startedAt |-> now]
    OBVIOUS
  <2> QED BY <2>1, <2>2, <2>3
<1> QED BY <1>1, <1>3, <1>4

\* Where the end of an evaluation, and a step that goes on, leave the evaluator.
LEMMA LeavesTo ==
    ASSUME TriggerTypes, NEW w \in Evaluators, NEW state, Leaves(w, state)
    PROVE  evaluator'[w].at \in {"idle", IF state = "blocked_depth" THEN "flag" ELSE "commit"}
<1>1. CASE evaluator' = [evaluator EXCEPT ![w] = AtRest]
  <2>1. AtRest.at = "idle"
    BY Resting
  <2> QED BY <1>1, <2>1 DEF TriggerTypes
<1>2. CASE EvaluatorGoes(w, IF state = "blocked_depth" THEN "flag" ELSE "commit")
  BY <1>2 DEF TriggerTypes, EvaluatorGoes
<1> QED BY <1>1, <1>2 DEF Leaves

LEMMA GoesTo ==
    ASSUME TriggerTypes, NEW w \in Evaluators, NEW step, EvaluatorGoes(w, step)
    PROVE  evaluator'[w].at = step
BY DEF TriggerTypes, EvaluatorGoes

\* What a write to the row of a decision changes of it.
LEMMA DecisionWritten ==
    ASSUME TriggerTypes, NEW e \in TriggerEvents, NEW s \in Decided, NEW x \in Dispatches,
           \/ decisions' = [decisions EXCEPT ![e].state = s]
           \/ decisions' = [decisions EXCEPT ![e].dispatch = x] /\ s = decisions[e].state
           \/ decisions' = [decisions EXCEPT ![e].state = s, ![e].dispatch = x]
           \/ decisions' = [decisions EXCEPT ![e].state = s, ![e].resource = TRUE, ![e].dispatch = x]
    PROVE  /\ decisions' \in DecisionRows
           /\ \A f \in TriggerEvents \ {e} : decisions'[f] = decisions[f]
           /\ decisions'[e].startedAt = decisions[e].startedAt
           /\ decisions'[e].state = s
<1>1. CASE decisions' = [decisions EXCEPT ![e].state = s]
  BY <1>1 DEF TriggerTypes, DecisionRows
<1>2. CASE decisions' = [decisions EXCEPT ![e].dispatch = x] /\ s = decisions[e].state
  BY <1>2 DEF TriggerTypes, DecisionRows
<1>3. CASE decisions' = [decisions EXCEPT ![e].state = s, ![e].dispatch = x]
  <2> DEFINE mid == [decisions EXCEPT ![e].state = s]
  <2>1. decisions' = [mid EXCEPT ![e].dispatch = x]
    BY <1>3
  <2>2. mid \in DecisionRows /\ mid[e].state = s /\ mid[e].startedAt = decisions[e].startedAt
        /\ \A f \in TriggerEvents \ {e} : mid[f] = decisions[f]
    BY DEF TriggerTypes, DecisionRows
  <2> HIDE DEF mid
  <2> QED BY <2>1, <2>2 DEF DecisionRows
<1>4. CASE decisions' = [decisions EXCEPT ![e].state = s, ![e].resource = TRUE, ![e].dispatch = x]
  <2> DEFINE mid == [[decisions EXCEPT ![e].state = s] EXCEPT ![e].resource = TRUE]
  <2>1. decisions' = [mid EXCEPT ![e].dispatch = x]
    BY <1>4
  <2>2. mid \in DecisionRows /\ mid[e].state = s /\ mid[e].startedAt = decisions[e].startedAt
        /\ \A f \in TriggerEvents \ {e} : mid[f] = decisions[f]
    <3> DEFINE low == [decisions EXCEPT ![e].state = s]
    <3>1. low \in DecisionRows /\ low[e].state = s /\ low[e].startedAt = decisions[e].startedAt
          /\ \A f \in TriggerEvents \ {e} : low[f] = decisions[f]
      BY DEF TriggerTypes, DecisionRows
    <3>2. mid = [low EXCEPT ![e].resource = TRUE]
      OBVIOUS
    <3> HIDE DEF low, mid
    <3> QED BY <3>1, <3>2 DEF DecisionRows
  <2> HIDE DEF mid
  <2> QED BY <2>1, <2>2 DEF DecisionRows
<1> QED BY <1>1, <1>2, <1>3, <1>4

\* A step of the evaluator w that concerns the event e alone: what is to be shown of it.
LEMMA OneEvaluator ==
    ASSUME TriggersInv, TriggerTypes', NEW w \in Evaluators, NEW e \in TriggerEvents, incoming' = incoming,
           \A v \in Evaluators \ {w} : evaluator'[v] = evaluator[v],
           evaluator'[w].at # "idle" => evaluator'[w].event = e,
           \A f \in TriggerEvents \ {e} :
              decisions'[f] = decisions[f] /\ created'[f] = created[f] /\ ran'[f] = ran[f],
           missed \subseteq missed', declined \subseteq declined', flagged \subseteq flagged',
           \/ decisions'[e].state = decisions[e].state
           \/ decisions[e].state = "none"
           \/ {decisions[e].state, decisions'[e].state} \subseteq Decided,
           (created'[e] = created[e] /\ ran'[e] = ran[e]) \/ (Owns(w) /\ evaluator[w].event = e),
           Owns(w)' => (Owns(w) /\ evaluator[w].event = e) \/ decisions[e].state = "none",
           pumped' \subseteq pumped \cup {e}, e \in pumped' => e \in pumped \/ Passable(e)',
           decisions[e].state # "none" => decisions'[e].state # "none",
           EventOpenedOnce(e)', EvaluatorSound(w)', CooledDown'
    PROVE  TriggersInv'
<1>0. /\ TriggerTypes /\ OneOwner /\ EventsOpenedOnce /\ EvaluatorsSound /\ PumpedPassable
      /\ \A v \in Evaluators : EvaluatorSound(v) /\ (evaluator[v].at # "idle" => evaluator[v].event \in TriggerEvents)
  BY DEF TriggersInv, EvaluatorsSound, TriggerTypes
<1>1. EventsOpenedOnce'
  BY <1>0 DEF EventsOpenedOnce, EventOpenedOnce
<1>2. ASSUME NEW f \in TriggerEvents, Passable(f) PROVE Passable(f)'
  BY <1>2 DEF Passable, Decided
<1>3. ASSUME NEW v \in Evaluators \ {w} PROVE EvaluatorSound(v)'
  <2>1. evaluator'[v] = evaluator[v] /\ EvaluatorSound(v)
    BY <1>0
  <2>2. CASE evaluator[v].at = "commit"
    BY <1>0, <1>2, <2>1, <2>2 DEF EvaluatorSound, Owns, OwnSteps
  <2>3. CASE evaluator[v].at = "flag"
    BY <1>0, <2>1, <2>3 DEF EvaluatorSound, Owns, OwnSteps, Decided
  <2>4. CASE Owns(v)
    <3>1. evaluator[v].event \in TriggerEvents /\ decisions[evaluator[v].event].state \in Decided
      BY <1>0, <2>1, <2>4 DEF EvaluatorSound, Owns, OwnSteps
    <3>2. decisions'[evaluator[v].event].state \in Decided
      BY <3>1 DEF Decided
    <3>3. /\ created'[evaluator[v].event] = created[evaluator[v].event]
          /\ ran'[evaluator[v].event] = ran[evaluator[v].event]
      BY <1>0, <2>4, <3>1 DEF OneOwner
    <3> QED BY <2>1, <2>4, <3>2, <3>3 DEF EvaluatorSound, Owns, OwnSteps
  <2> QED BY <2>1, <2>2, <2>3, <2>4 DEF EvaluatorSound, Owns, OwnSteps
<1>4. OneOwner'
  <2>1. ASSUME NEW v \in Evaluators \ {w}, Owns(v)', Owns(w)', evaluator'[v].event = evaluator'[w].event
        PROVE FALSE
    <3>1. evaluator[v] = evaluator'[v] /\ evaluator'[w].event = e /\ Owns(v)
      BY <2>1 DEF Owns, OwnSteps
    <3>2. decisions[e].state # "none"
      BY <1>0, <2>1, <3>1 DEF EvaluatorSound, Decided
    <3> QED BY <1>0, <2>1, <3>1, <3>2 DEF OneOwner
  <2> QED BY <1>0, <2>1 DEF OneOwner, Owns
<1>5. PumpedPassable'
  BY <1>0, <1>2 DEF PumpedPassable, TriggerTypes
<1> QED BY <1>1, <1>3, <1>4, <1>5 DEF TriggersInv, EvaluatorsSound

LEMMA TriggersStep ==
    ASSUME TriggersInv, [TriggersNext]_triggerVars
    PROVE  TriggersInv'
<1>0. TriggersInv /\ TriggerTypes /\ EventsOpenedOnce /\ EvaluatorsSound /\ CooledDown /\ OneOwner
  BY DEF TriggersInv
<1>1. ASSUME NEW w \in Evaluators, CreateResource(w) PROVE TriggersInv'
  <2>1. evaluator[w].at # "idle"
    BY <1>1 DEF CreateResource
  <2>2. PICK e \in TriggerEvents : e = evaluator[w].event
    BY <1>0, <2>1 DEF TriggerTypes
  <2>3. EvaluatorSound(w) /\ EventOpenedOnce(e) /\ created[e] \in Nat /\ ran[e] \in Nat
    BY <1>0 DEF EvaluatorsSound, EventsOpenedOnce, TriggerTypes
  <2>4. PICK step \in {"bind", "fail"} :
           EvaluatorGoes(w, step) \/ evaluator' = [evaluator EXCEPT ![w] = AtRest]
    BY <1>1 DEF CreateResource, Leaves, Throws
  <2>5. /\ evaluator' \in [Evaluators ->
              [at : EvaluatorSteps, event : TriggerEvents \cup {AtRest.event}, version : Nat]]
        /\ \A v \in Evaluators \ {w} : evaluator'[v] = evaluator[v]
        /\ evaluator'[w].at \in {step, "idle"}
        /\ evaluator'[w].at # "idle" => evaluator'[w].event = e
        /\ \A v \in Evaluators : evaluator'[v].at # "idle" => evaluator'[v].event \in TriggerEvents
    BY <1>0, <2>1, <2>2, <2>4, EvaluatorMoves DEF EvaluatorSteps
  <2>6. /\ incoming' = incoming /\ triggerTime' = triggerTime /\ TriggerTypes'
        /\ missed \subseteq missed' /\ declined \subseteq declined' /\ flagged \subseteq flagged'
        /\ revived \subseteq revived'
        /\ \A f \in TriggerEvents \ {e} :
              decisions'[f] = decisions[f] /\ created'[f] = created[f] /\ ran'[f] = ran[f]
    BY <1>0, <1>1, <2>2, <2>5 DEF CreateResource, TriggerTypes, Decided, Throws
  <2>7. /\ evaluator[w].at = "create"
        /\ decisions'[e] = decisions[e] /\ ran'[e] = ran[e] /\ pumped' = pumped /\ revived' = revived
        /\ \/ created'[e] = created[e] + 1 /\ evaluator'[w].at = "bind"
           \/ created'[e] = created[e] /\ evaluator'[w].at = "fail"
    BY <1>0, <1>1, <2>2, <2>4, <2>5, Resting
    DEF CreateResource, TriggerTypes, Leaves, Throws, EvaluatorGoes, Decided
  <2>8. EventOpenedOnce(e)'
    BY <2>2, <2>3, <2>6, <2>7 DEF EventOpenedOnce, EvaluatorSound, Owns, OwnSteps, Decided
  <2>9. EvaluatorSound(w)'
    BY <2>2, <2>3, <2>5, <2>6, <2>7
    DEF EvaluatorSound, EventOpenedOnce, Owns, OwnSteps, Passable, Decided
  <2>10. CooledDown'
    BY <1>0, <2>2, <2>3, <2>6, <2>7, CooldownKept
    DEF Counted, EvaluatorSound, Owns, OwnSteps, Decided
  <2> QED BY <1>0, <2>2, <2>3, <2>5, <2>6, <2>7, <2>8, <2>9, <2>10, OneEvaluator
          DEF EvaluatorSound, Owns, OwnSteps, Decided, Passable
<1>2. ASSUME NEW w \in Evaluators, BindResource(w) PROVE TriggersInv'
  <2>1. evaluator[w].at # "idle"
    BY <1>2 DEF BindResource
  <2>2. PICK e \in TriggerEvents : e = evaluator[w].event
    BY <1>0, <2>1 DEF TriggerTypes
  <2>3. EvaluatorSound(w) /\ EventOpenedOnce(e) /\ created[e] \in Nat /\ ran[e] \in Nat
    BY <1>0 DEF EvaluatorsSound, EventsOpenedOnce, TriggerTypes
  <2>4. PICK step \in {"run", "fail", "flag", "commit"} :
           EvaluatorGoes(w, step) \/ evaluator' = [evaluator EXCEPT ![w] = AtRest]
    BY <1>2 DEF BindResource, Leaves, Throws
  <2>5. /\ evaluator' \in [Evaluators ->
              [at : EvaluatorSteps, event : TriggerEvents \cup {AtRest.event}, version : Nat]]
        /\ \A v \in Evaluators \ {w} : evaluator'[v] = evaluator[v]
        /\ evaluator'[w].at \in {step, "idle"}
        /\ evaluator'[w].at # "idle" => evaluator'[w].event = e
        /\ \A v \in Evaluators : evaluator'[v].at # "idle" => evaluator'[v].event \in TriggerEvents
    BY <1>0, <2>1, <2>2, <2>4, EvaluatorMoves DEF EvaluatorSteps
  <2>15. /\ decisions' \in DecisionRows /\ \A f \in TriggerEvents \ {e} : decisions'[f] = decisions[f]
         /\ decisions'[e].startedAt = decisions[e].startedAt
         /\ decisions'[e].state = "triggered" \/ decisions' = decisions
    <3>1. CASE decisions' = decisions
      BY <1>0, <1>2, <2>2, <3>1 DEF BindResource, TriggerTypes, EvaluatorGoes, DecisionRows
    <3>2. CASE decisions' # decisions
      <4>1. PICK x \in Dispatches :
               decisions' = [decisions EXCEPT ![e].state = "triggered", ![e].resource = TRUE, ![e].dispatch = x]
        BY <1>2, <2>2, <3>2 DEF BindResource, Dispatches
      <4>2. "triggered" \in Decided
        BY DEF Decided
      <4> QED BY <1>0, <4>1, <4>2, DecisionWritten
    <3> QED BY <3>1, <3>2
  <2>6. /\ incoming' = incoming /\ triggerTime' = triggerTime /\ TriggerTypes'
        /\ missed \subseteq missed' /\ declined \subseteq declined' /\ flagged \subseteq flagged'
        /\ revived \subseteq revived'
        /\ \A f \in TriggerEvents \ {e} :
              decisions'[f] = decisions[f] /\ created'[f] = created[f] /\ ran'[f] = ran[f]
    BY <1>0, <1>2, <2>2, <2>5, <2>15 DEF BindResource, TriggerTypes, Decided, Throws
  <2>7. /\ evaluator[w].at = "bind" /\ created'[e] = created[e] /\ ran'[e] = ran[e] /\ pumped' = pumped
        /\ decisions'[e].startedAt = decisions[e].startedAt
        /\ \/ /\ decisions'[e].state = "triggered" /\ evaluator'[w].at \in {"run", "commit", "idle"}
              /\ decisions[e].state = "failed" => e \in revived'
           \/ decisions'[e] = decisions[e] /\ evaluator'[w].at = "fail"
    <3>1. /\ evaluator[w].at = "bind" /\ created' = created /\ ran' = ran /\ pumped' = pumped
          /\ \/ /\ EvaluatorGoes(w, "run") \/ Leaves(w, "triggered")
                /\ decisions[e].state = "failed" => e \in revived'
                /\ decisions' # decisions \/ decisions'[e].state = "triggered"
             \/ EvaluatorGoes(w, "fail") /\ decisions' = decisions
      <4>1. decisions' = decisions => decisions[e].state = "triggered" \/ EvaluatorGoes(w, "fail")
        BY <1>0, <1>2, <2>2 DEF BindResource, TriggerTypes, DecisionRows
      <4> QED BY <1>2, <2>2, <2>15, <4>1 DEF BindResource
    <3>2. CASE EvaluatorGoes(w, "fail") /\ decisions' = decisions
      BY <1>0, <3>1, <3>2, GoesTo
    <3>3. ASSUME EvaluatorGoes(w, "run") \/ Leaves(w, "triggered")
          PROVE  evaluator'[w].at \in {"run", "commit", "idle"}
      BY <1>0, <3>3, GoesTo, LeavesTo
    <3> QED BY <2>15, <3>1, <3>2, <3>3
  <2>8. EventOpenedOnce(e)'
    BY <2>2, <2>3, <2>6, <2>7 DEF EventOpenedOnce, EvaluatorSound, Owns, OwnSteps, Decided
  <2>9. EvaluatorSound(w)'
    BY <2>2, <2>3, <2>5, <2>6, <2>7
    DEF EvaluatorSound, EventOpenedOnce, Owns, OwnSteps, Passable, Decided
  <2>10. CooledDown'
    BY <1>0, <2>2, <2>3, <2>6, <2>7, CooldownKept
    DEF Counted, EvaluatorSound, Owns, OwnSteps, Decided
  <2> QED BY <1>0, <2>2, <2>3, <2>5, <2>6, <2>7, <2>8, <2>9, <2>10, OneEvaluator
          DEF EvaluatorSound, Owns, OwnSteps, Decided, Passable
<1>3. ASSUME NEW w \in Evaluators, RunResource(w) PROVE TriggersInv'
  <2>1. evaluator[w].at # "idle"
    BY <1>3 DEF RunResource
  <2>2. PICK e \in TriggerEvents : e = evaluator[w].event
    BY <1>0, <2>1 DEF TriggerTypes
  <2>3. EvaluatorSound(w) /\ EventOpenedOnce(e) /\ created[e] \in Nat /\ ran[e] \in Nat
    BY <1>0 DEF EvaluatorsSound, EventsOpenedOnce, TriggerTypes
  <2>4. PICK step \in {"complete", "lose"} :
           EvaluatorGoes(w, step) \/ evaluator' = [evaluator EXCEPT ![w] = AtRest]
    BY <1>3 DEF RunResource, Leaves, Throws
  <2>5. /\ evaluator' \in [Evaluators ->
              [at : EvaluatorSteps, event : TriggerEvents \cup {AtRest.event}, version : Nat]]
        /\ \A v \in Evaluators \ {w} : evaluator'[v] = evaluator[v]
        /\ evaluator'[w].at \in {step, "idle"}
        /\ evaluator'[w].at # "idle" => evaluator'[w].event = e
        /\ \A v \in Evaluators : evaluator'[v].at # "idle" => evaluator'[v].event \in TriggerEvents
    BY <1>0, <2>1, <2>2, <2>4, EvaluatorMoves DEF EvaluatorSteps
  <2>6. /\ incoming' = incoming /\ triggerTime' = triggerTime /\ TriggerTypes'
        /\ missed \subseteq missed' /\ declined \subseteq declined' /\ flagged \subseteq flagged'
        /\ revived \subseteq revived'
        /\ \A f \in TriggerEvents \ {e} :
              decisions'[f] = decisions[f] /\ created'[f] = created[f] /\ ran'[f] = ran[f]
    BY <1>0, <1>3, <2>2, <2>5 DEF RunResource, TriggerTypes, Decided, Throws
  <2>7. /\ evaluator[w].at = "run" /\ decisions'[e] = decisions[e]
        /\ created'[e] = created[e] /\ ran'[e] = ran[e] + 1 /\ pumped' = pumped
        /\ evaluator'[w].at \in {"complete", "lose"}
    BY <1>0, <1>3, <2>2, <2>4, <2>5, Resting
    DEF RunResource, TriggerTypes, Leaves, Throws, EvaluatorGoes, Decided
  <2>8. EventOpenedOnce(e)'
    BY <2>2, <2>3, <2>6, <2>7 DEF EventOpenedOnce, EvaluatorSound, Owns, OwnSteps, Decided
  <2>9. EvaluatorSound(w)'
    BY <2>2, <2>3, <2>5, <2>6, <2>7
    DEF EvaluatorSound, EventOpenedOnce, Owns, OwnSteps, Passable, Decided
  <2>10. CooledDown'
    BY <1>0, <2>2, <2>3, <2>6, <2>7, CooldownKept
    DEF Counted, EvaluatorSound, Owns, OwnSteps, Decided
  <2> QED BY <1>0, <2>2, <2>3, <2>5, <2>6, <2>7, <2>8, <2>9, <2>10, OneEvaluator
          DEF EvaluatorSound, Owns, OwnSteps, Decided, Passable
<1>4. ASSUME NEW w \in Evaluators, RecordDispatch(w) PROVE TriggersInv'
  <2>1. evaluator[w].at # "idle"
    BY <1>4 DEF RecordDispatch
  <2>2. PICK e \in TriggerEvents : e = evaluator[w].event
    BY <1>0, <2>1 DEF TriggerTypes
  <2>3. EvaluatorSound(w) /\ EventOpenedOnce(e) /\ created[e] \in Nat /\ ran[e] \in Nat
    BY <1>0 DEF EvaluatorsSound, EventsOpenedOnce, TriggerTypes
  <2>4. PICK step \in {"lose", "fail", "flag", "commit"} :
           EvaluatorGoes(w, step) \/ evaluator' = [evaluator EXCEPT ![w] = AtRest]
    BY <1>4 DEF RecordDispatch, Leaves, Throws
  <2>5. /\ evaluator' \in [Evaluators ->
              [at : EvaluatorSteps, event : TriggerEvents \cup {AtRest.event}, version : Nat]]
        /\ \A v \in Evaluators \ {w} : evaluator'[v] = evaluator[v]
        /\ evaluator'[w].at \in {step, "idle"}
        /\ evaluator'[w].at # "idle" => evaluator'[w].event = e
        /\ \A v \in Evaluators : evaluator'[v].at # "idle" => evaluator'[v].event \in TriggerEvents
    BY <1>0, <2>1, <2>2, <2>4, EvaluatorMoves DEF EvaluatorSteps
  <2>15. /\ decisions' \in DecisionRows /\ \A f \in TriggerEvents \ {e} : decisions'[f] = decisions[f]
         /\ decisions'[e].startedAt = decisions[e].startedAt
         /\ decisions'[e].state = decisions[e].state
    <3>1. CASE decisions' = decisions
      BY <1>0, <1>4, <2>2, <3>1
      DEF RecordDispatch, triggerHistory, TriggerTypes, EvaluatorGoes, DecisionRows
    <3>2. CASE decisions' # decisions
      <4>1. PICK x \in Dispatches : decisions' = [decisions EXCEPT ![e].dispatch = x]
        BY <1>4, <2>2, <3>2 DEF RecordDispatch, Dispatches
      <4>2. decisions[e].state \in Decided
        BY <1>4, <2>2, <2>3 DEF RecordDispatch, EvaluatorSound, Owns, OwnSteps
      <4> QED BY <1>0, <4>1, <4>2, DecisionWritten
    <3> QED BY <3>1, <3>2
  <2>6. /\ incoming' = incoming /\ triggerTime' = triggerTime /\ TriggerTypes'
        /\ missed \subseteq missed' /\ declined \subseteq declined' /\ flagged \subseteq flagged'
        /\ revived \subseteq revived'
        /\ \A f \in TriggerEvents \ {e} :
              decisions'[f] = decisions[f] /\ created'[f] = created[f] /\ ran'[f] = ran[f]
    BY <1>0, <1>4, <2>2, <2>5, <2>15
    DEF RecordDispatch, triggerHistory, TriggerTypes, Decided, Throws
  <2>7. /\ evaluator[w].at \in {"complete", "lose"} /\ created'[e] = created[e] /\ ran'[e] = ran[e] /\ pumped' = pumped
        /\ decisions'[e].startedAt = decisions[e].startedAt /\ decisions'[e].state = decisions[e].state
        /\ evaluator'[w].at \in {"lose", "fail", "commit", "idle"}
    BY <1>0, <1>4, <2>2, <2>4, <2>5, Resting, <2>15
    DEF RecordDispatch, triggerHistory, TriggerTypes, Leaves, Throws, EvaluatorGoes, Decided
  <2>8. EventOpenedOnce(e)'
    BY <2>2, <2>3, <2>6, <2>7 DEF EventOpenedOnce, EvaluatorSound, Owns, OwnSteps, Decided
  <2>9. EvaluatorSound(w)'
    BY <2>2, <2>3, <2>5, <2>6, <2>7
    DEF EvaluatorSound, EventOpenedOnce, Owns, OwnSteps, Passable, Decided
  <2>10. CooledDown'
    BY <1>0, <2>2, <2>3, <2>6, <2>7, CooldownKept
    DEF Counted, EvaluatorSound, Owns, OwnSteps, Decided
  <2> QED BY <1>0, <2>2, <2>3, <2>5, <2>6, <2>7, <2>8, <2>9, <2>10, OneEvaluator
          DEF EvaluatorSound, Owns, OwnSteps, Decided, Passable
<1>5. ASSUME NEW w \in Evaluators, FailDecision(w) PROVE TriggersInv'
  <2>1. evaluator[w].at # "idle"
    BY <1>5 DEF FailDecision
  <2>2. PICK e \in TriggerEvents : e = evaluator[w].event
    BY <1>0, <2>1 DEF TriggerTypes
  <2>3. EvaluatorSound(w) /\ EventOpenedOnce(e) /\ created[e] \in Nat /\ ran[e] \in Nat
    BY <1>0 DEF EvaluatorsSound, EventsOpenedOnce, TriggerTypes
  <2>4. PICK step \in {"flag", "commit"} :
           EvaluatorGoes(w, step) \/ evaluator' = [evaluator EXCEPT ![w] = AtRest]
    BY <1>5 DEF FailDecision, Leaves, Throws
  <2>5. /\ evaluator' \in [Evaluators ->
              [at : EvaluatorSteps, event : TriggerEvents \cup {AtRest.event}, version : Nat]]
        /\ \A v \in Evaluators \ {w} : evaluator'[v] = evaluator[v]
        /\ evaluator'[w].at \in {step, "idle"}
        /\ evaluator'[w].at # "idle" => evaluator'[w].event = e
        /\ \A v \in Evaluators : evaluator'[v].at # "idle" => evaluator'[v].event \in TriggerEvents
    BY <1>0, <2>1, <2>2, <2>4, EvaluatorMoves DEF EvaluatorSteps
  <2>15. /\ decisions' \in DecisionRows /\ \A f \in TriggerEvents \ {e} : decisions'[f] = decisions[f]
         /\ decisions'[e].startedAt = decisions[e].startedAt
         /\ decisions'[e].state = "failed" \/ decisions' = decisions
    <3>1. CASE decisions' = decisions
      BY <1>0, <1>5, <2>2, <3>1 DEF FailDecision, TriggerTypes, EvaluatorGoes, DecisionRows
    <3>2. CASE decisions' # decisions
      <4>1. decisions' = [decisions EXCEPT ![e].state = "failed"]
        BY <1>5, <2>2, <3>2 DEF FailDecision
      <4>2. "failed" \in Decided /\ "unknown" \in Dispatches
        BY DEF Decided, Dispatches
      <4> QED BY <1>0, <4>1, <4>2, DecisionWritten
    <3> QED BY <3>1, <3>2
  <2>6. /\ incoming' = incoming /\ triggerTime' = triggerTime /\ TriggerTypes'
        /\ missed \subseteq missed' /\ declined \subseteq declined' /\ flagged \subseteq flagged'
        /\ revived \subseteq revived'
        /\ \A f \in TriggerEvents \ {e} :
              decisions'[f] = decisions[f] /\ created'[f] = created[f] /\ ran'[f] = ran[f]
    BY <1>0, <1>5, <2>2, <2>5, <2>15 DEF FailDecision, TriggerTypes, Decided, Throws
  <2>7. /\ evaluator[w].at = "fail" /\ created'[e] = created[e] /\ ran'[e] = ran[e] /\ pumped' = pumped
        /\ decisions'[e].startedAt = decisions[e].startedAt
        /\ decisions'[e].state \in {decisions[e].state, "failed"} /\ evaluator'[w].at \in {"commit", "idle"}
    BY <1>0, <1>5, <2>2, <2>4, <2>5, Resting, <2>15
    DEF FailDecision, TriggerTypes, Leaves, Throws, EvaluatorGoes, Decided
  <2>8. EventOpenedOnce(e)'
    BY <2>2, <2>3, <2>6, <2>7 DEF EventOpenedOnce, EvaluatorSound, Owns, OwnSteps, Decided
  <2>9. EvaluatorSound(w)'
    BY <2>2, <2>3, <2>5, <2>6, <2>7
    DEF EvaluatorSound, EventOpenedOnce, Owns, OwnSteps, Passable, Decided
  <2>10. CooledDown'
    BY <1>0, <2>2, <2>3, <2>6, <2>7, CooldownKept
    DEF Counted, EvaluatorSound, Owns, OwnSteps, Decided
  <2> QED BY <1>0, <2>2, <2>3, <2>5, <2>6, <2>7, <2>8, <2>9, <2>10, OneEvaluator
          DEF EvaluatorSound, Owns, OwnSteps, Decided, Passable
<1>6. ASSUME NEW w \in Evaluators, RecordBlock(w) PROVE TriggersInv'
  <2>1. evaluator[w].at # "idle"
    BY <1>6 DEF RecordBlock
  <2>2. PICK e \in TriggerEvents : e = evaluator[w].event
    BY <1>0, <2>1 DEF TriggerTypes
  <2>3. EvaluatorSound(w) /\ EventOpenedOnce(e) /\ created[e] \in Nat /\ ran[e] \in Nat
    BY <1>0 DEF EvaluatorsSound, EventsOpenedOnce, TriggerTypes
  <2>4. PICK step \in {"commit"} :
           EvaluatorGoes(w, step) \/ evaluator' = [evaluator EXCEPT ![w] = AtRest]
    BY <1>6 DEF RecordBlock, Leaves, Throws
  <2>5. /\ evaluator' \in [Evaluators ->
              [at : EvaluatorSteps, event : TriggerEvents \cup {AtRest.event}, version : Nat]]
        /\ \A v \in Evaluators \ {w} : evaluator'[v] = evaluator[v]
        /\ evaluator'[w].at \in {step, "idle"}
        /\ evaluator'[w].at # "idle" => evaluator'[w].event = e
        /\ \A v \in Evaluators : evaluator'[v].at # "idle" => evaluator'[v].event \in TriggerEvents
    BY <1>0, <2>1, <2>2, <2>4, EvaluatorMoves DEF EvaluatorSteps
  <2>6. /\ incoming' = incoming /\ triggerTime' = triggerTime /\ TriggerTypes'
        /\ missed \subseteq missed' /\ declined \subseteq declined' /\ flagged \subseteq flagged'
        /\ revived \subseteq revived'
        /\ \A f \in TriggerEvents \ {e} :
              decisions'[f] = decisions[f] /\ created'[f] = created[f] /\ ran'[f] = ran[f]
    BY <1>0, <1>6, <2>2, <2>5 DEF RecordBlock, TriggerTypes, Decided, Throws
  <2>7. /\ evaluator[w].at = "flag" /\ created'[e] = created[e] /\ ran'[e] = ran[e] /\ pumped' = pumped /\ decisions'[e] = decisions[e]
        /\ evaluator'[w].at \in {"commit", "idle"}
        /\ evaluator'[w].at = "commit" => e \in flagged' \cup missed'
    BY <1>0, <1>6, <2>2, <2>4, <2>5, Resting
    DEF RecordBlock, TriggerTypes, Leaves, Throws, EvaluatorGoes, Decided
  <2>8. EventOpenedOnce(e)'
    BY <2>2, <2>3, <2>6, <2>7 DEF EventOpenedOnce, EvaluatorSound, Owns, OwnSteps, Decided
  <2>9. EvaluatorSound(w)'
    BY <2>2, <2>3, <2>5, <2>6, <2>7
    DEF EvaluatorSound, EventOpenedOnce, Owns, OwnSteps, Passable, Decided
  <2>10. CooledDown'
    BY <1>0, <2>2, <2>3, <2>6, <2>7, CooldownKept
    DEF Counted, EvaluatorSound, Owns, OwnSteps, Decided
  <2> QED BY <1>0, <2>2, <2>3, <2>5, <2>6, <2>7, <2>8, <2>9, <2>10, OneEvaluator
          DEF EvaluatorSound, Owns, OwnSteps, Decided, Passable
<1>7. ASSUME NEW w \in Evaluators, CommitPass(w) PROVE TriggersInv'
  <2>1. evaluator[w].at # "idle"
    BY <1>7 DEF CommitPass
  <2>2. PICK e \in TriggerEvents : e = evaluator[w].event
    BY <1>0, <2>1 DEF TriggerTypes
  <2>3. EvaluatorSound(w) /\ EventOpenedOnce(e) /\ created[e] \in Nat /\ ran[e] \in Nat
    BY <1>0 DEF EvaluatorsSound, EventsOpenedOnce, TriggerTypes
  <2>4. PICK step \in {"commit"} :
           EvaluatorGoes(w, step) \/ evaluator' = [evaluator EXCEPT ![w] = AtRest]
    BY <1>7 DEF CommitPass, Leaves, Throws
  <2>5. /\ evaluator' \in [Evaluators ->
              [at : EvaluatorSteps, event : TriggerEvents \cup {AtRest.event}, version : Nat]]
        /\ \A v \in Evaluators \ {w} : evaluator'[v] = evaluator[v]
        /\ evaluator'[w].at \in {step, "idle"}
        /\ evaluator'[w].at # "idle" => evaluator'[w].event = e
        /\ \A v \in Evaluators : evaluator'[v].at # "idle" => evaluator'[v].event \in TriggerEvents
    BY <1>0, <2>1, <2>2, <2>4, EvaluatorMoves DEF EvaluatorSteps
  <2>6. /\ incoming' = incoming /\ triggerTime' = triggerTime /\ TriggerTypes'
        /\ missed \subseteq missed' /\ declined \subseteq declined' /\ flagged \subseteq flagged'
        /\ revived \subseteq revived'
        /\ \A f \in TriggerEvents \ {e} :
              decisions'[f] = decisions[f] /\ created'[f] = created[f] /\ ran'[f] = ran[f]
    BY <1>0, <1>7, <2>2, <2>5 DEF CommitPass, triggerHistory, TriggerTypes, Decided, Throws
  <2>7. /\ evaluator[w].at = "commit" /\ created'[e] = created[e] /\ ran'[e] = ran[e] /\ pumped' = pumped \cup {e} /\ decisions'[e] = decisions[e]
        /\ evaluator'[w].at = "idle"
    BY <1>0, <1>7, <2>2, <2>4, <2>5, Resting
    DEF CommitPass, triggerHistory, TriggerTypes, Leaves, Throws, EvaluatorGoes, Decided
  <2>8. EventOpenedOnce(e)'
    BY <2>2, <2>3, <2>6, <2>7 DEF EventOpenedOnce, EvaluatorSound, Owns, OwnSteps, Decided
  <2>9. EvaluatorSound(w)'
    BY <2>2, <2>3, <2>5, <2>6, <2>7
    DEF EvaluatorSound, EventOpenedOnce, Owns, OwnSteps, Passable, Decided
  <2>10. CooledDown'
    BY <1>0, <2>2, <2>3, <2>6, <2>7, CooldownKept
    DEF Counted, EvaluatorSound, Owns, OwnSteps, Decided
  <2> QED BY <1>0, <2>2, <2>3, <2>5, <2>6, <2>7, <2>8, <2>9, <2>10, OneEvaluator
          DEF EvaluatorSound, Owns, OwnSteps, Decided, Passable
<1>8. ASSUME NEW w \in Evaluators, EvaluatorStops(w) PROVE TriggersInv'
  <2>1. evaluator[w].at # "idle"
    BY <1>8 DEF EvaluatorStops
  <2>2. PICK e \in TriggerEvents : e = evaluator[w].event
    BY <1>0, <2>1 DEF TriggerTypes
  <2>3. EvaluatorSound(w) /\ EventOpenedOnce(e) /\ created[e] \in Nat /\ ran[e] \in Nat
    BY <1>0 DEF EvaluatorsSound, EventsOpenedOnce, TriggerTypes
  <2>4. PICK step \in {"commit"} :
           EvaluatorGoes(w, step) \/ evaluator' = [evaluator EXCEPT ![w] = AtRest]
    BY <1>8 DEF EvaluatorStops, Leaves, Throws
  <2>5. /\ evaluator' \in [Evaluators ->
              [at : EvaluatorSteps, event : TriggerEvents \cup {AtRest.event}, version : Nat]]
        /\ \A v \in Evaluators \ {w} : evaluator'[v] = evaluator[v]
        /\ evaluator'[w].at \in {step, "idle"}
        /\ evaluator'[w].at # "idle" => evaluator'[w].event = e
        /\ \A v \in Evaluators : evaluator'[v].at # "idle" => evaluator'[v].event \in TriggerEvents
    BY <1>0, <2>1, <2>2, <2>4, EvaluatorMoves DEF EvaluatorSteps
  <2>6. /\ incoming' = incoming /\ triggerTime' = triggerTime /\ TriggerTypes'
        /\ missed \subseteq missed' /\ declined \subseteq declined' /\ flagged \subseteq flagged'
        /\ revived \subseteq revived'
        /\ \A f \in TriggerEvents \ {e} :
              decisions'[f] = decisions[f] /\ created'[f] = created[f] /\ ran'[f] = ran[f]
    BY <1>0, <1>8, <2>2, <2>5 DEF EvaluatorStops, triggerHistory, TriggerTypes, Decided, Throws
  <2>7. /\ pumped' = pumped /\ created'[e] = created[e] /\ ran'[e] = ran[e] /\ decisions'[e] = decisions[e] /\ evaluator'[w].at = "idle"
    BY <1>0, <1>8, <2>2, <2>4, <2>5, Resting
    DEF EvaluatorStops, triggerHistory, TriggerTypes, Leaves, Throws, EvaluatorGoes, Decided
  <2>8. EventOpenedOnce(e)'
    BY <2>2, <2>3, <2>6, <2>7 DEF EventOpenedOnce, EvaluatorSound, Owns, OwnSteps, Decided
  <2>9. EvaluatorSound(w)'
    BY <2>2, <2>3, <2>5, <2>6, <2>7
    DEF EvaluatorSound, EventOpenedOnce, Owns, OwnSteps, Passable, Decided
  <2>10. CooledDown'
    BY <1>0, <2>2, <2>3, <2>6, <2>7, CooldownKept
    DEF Counted, EvaluatorSound, Owns, OwnSteps, Decided
  <2> QED BY <1>0, <2>2, <2>3, <2>5, <2>6, <2>7, <2>8, <2>9, <2>10, OneEvaluator
          DEF EvaluatorSound, Owns, OwnSteps, Decided, Passable
<1>9. ASSUME NEW w \in Evaluators, ClaimDecision(w) PROVE TriggersInv'
  <2>1. evaluator[w].at = "claim"
    BY <1>9 DEF ClaimDecision
  <2>2. PICK e \in TriggerEvents : e = evaluator[w].event
    BY <1>0, <2>1 DEF TriggerTypes
  <2>3. EvaluatorSound(w) /\ EventOpenedOnce(e) /\ created[e] \in Nat /\ ran[e] \in Nat
    BY <1>0 DEF EvaluatorsSound, EventsOpenedOnce, TriggerTypes
  <2>4. PICK step \in {"create", "flag", "commit"} :
           EvaluatorGoes(w, step) \/ evaluator' = [evaluator EXCEPT ![w] = AtRest]
    BY <1>9 DEF ClaimDecision, Leaves, Throws
  <2>5. /\ evaluator' \in [Evaluators ->
              [at : EvaluatorSteps, event : TriggerEvents \cup {AtRest.event}, version : Nat]]
        /\ \A v \in Evaluators \ {w} : evaluator'[v] = evaluator[v]
        /\ evaluator'[w].at \in {step, "idle"}
        /\ evaluator'[w].at # "idle" => evaluator'[w].event = e
        /\ \A v \in Evaluators : evaluator'[v].at # "idle" => evaluator'[v].event \in TriggerEvents
    BY <1>0, <2>1, <2>2, <2>4, EvaluatorMoves DEF EvaluatorSteps
  <2>6. /\ incoming' = incoming /\ triggerTime' = triggerTime /\ revived' = revived /\ pumped' = pumped
        /\ flagged' = flagged /\ missed \subseteq missed' /\ declined \subseteq declined'
        /\ created' = created /\ ran' = ran /\ policy' = policy
    BY <1>9 DEF ClaimDecision, Throws
  <2>7. CASE decisions' = decisions
    <3>1. \/ evaluator'[w].at = "idle"
          \/ evaluator'[w].at = "commit" /\ Passable(e)'
          \/ evaluator'[w].at = "flag" /\ decisions[e].state = "blocked_depth"
      <4>1. CASE decisions[e].state # "none" /\ Leaves(w, decisions[e].state)
        <5>1. evaluator'[w].at
                 \in {"idle", IF decisions[e].state = "blocked_depth" THEN "flag" ELSE "commit"}
          BY <1>0, <4>1, LeavesTo
        <5> QED BY <2>7, <4>1, <5>1 DEF Passable
      <4>2. CASE e \in declined' /\ Leaves(w, "none")
        <5>1. evaluator'[w].at \in {"idle", "commit"}
          BY <1>0, <4>2, LeavesTo
        <5> QED BY <4>2, <5>1 DEF Passable
      <4>3. CASE Throws(w)
        <5>1. CASE evaluator' = [evaluator EXCEPT ![w] = AtRest]
          BY <1>0, <5>1, Resting DEF TriggerTypes
        <5>2. CASE EvaluatorGoes(w, "commit") /\ e \in missed'
          BY <1>0, <5>2, GoesTo DEF Passable
        <5> QED BY <2>2, <4>3, <5>1, <5>2 DEF Throws
      <4>4. ASSUME decisions[e].state = "none",
                   decisions' = [decisions EXCEPT ![e] = [NoDecision EXCEPT
                      !.state = IF incoming[e].deep THEN "blocked_depth" ELSE "started",
                      !.startedAt = triggerTime]]
            PROVE  FALSE
        <5>1. decisions'[e].state # "none"
          BY <1>0, <4>4 DEF TriggerTypes, DecisionRows, NoDecision
        <5> QED BY <2>7, <4>4, <5>1
      <4> QED BY <1>9, <2>2, <4>1, <4>2, <4>3, <4>4 DEF ClaimDecision
    <3>2. TriggerTypes'
      BY <1>0, <2>5, <2>6, <2>7 DEF TriggerTypes
    <3>3. EventOpenedOnce(e)'
      BY <2>3, <2>6, <2>7 DEF EventOpenedOnce
    <3>4. EvaluatorSound(w)'
      BY <2>5, <2>7, <3>1 DEF EvaluatorSound, Owns, OwnSteps
    <3>5. CooledDown'
      BY <1>0, <2>6, <2>7, CooldownKept DEF Counted
    <3> QED BY <1>0, <2>5, <2>6, <2>7, <3>1, <3>2, <3>3, <3>4, <3>5, OneEvaluator DEF Owns, OwnSteps
  <2>8. CASE decisions' # decisions
    <3> DEFINE s == IF incoming[e].deep THEN "blocked_depth" ELSE "started"
    <3>1. /\ decisions[e].state = "none" /\ ~CooldownBlocks(e)
          /\ decisions' = [decisions EXCEPT ![e] = [NoDecision EXCEPT !.state = s, !.startedAt = triggerTime]]
      BY <1>9, <2>2, <2>8 DEF ClaimDecision
    <3>2. /\ incoming[e].deep => evaluator'[w].at \in {"flag", "idle"}
          /\ ~incoming[e].deep => evaluator'[w].at = "create"
      BY <1>0, <1>9, <2>2, <2>4, <2>5, <2>8, Resting
      DEF ClaimDecision, Leaves, EvaluatorGoes, TriggerTypes
    <3>3. /\ decisions' \in DecisionRows /\ \A f \in TriggerEvents \ {e} : decisions'[f] = decisions[f]
          /\ decisions'[e].state = s /\ decisions'[e].startedAt = triggerTime
      <4>1. triggerTime \in 0 .. TriggerHorizon
        BY <1>0 DEF TriggerTypes
      <4>2. [NoDecision EXCEPT !.state = s, !.startedAt = triggerTime]
               = [state |-> s, resource |-> FALSE, dispatch |-> "not_requested", startedAt |-> triggerTime]
        BY DecisionOpened
      <4>3. s \in {"none", "blocked_depth"} \cup Decided /\ "not_requested" \in Dispatches
        BY DEF Decided, Dispatches
      <4> HIDE DEF s
      <4> QED BY <1>0, <3>1, <4>1, <4>2, <4>3 DEF TriggerTypes, DecisionRows
    <3>4. TriggerTypes'
      BY <1>0, <2>5, <2>6, <3>3 DEF TriggerTypes
    <3>5. EventOpenedOnce(e)'
      BY <2>3, <2>6, <3>1, <3>3 DEF EventOpenedOnce
    <3>6. EvaluatorSound(w)'
      BY <2>3, <2>5, <2>6, <3>1, <3>2, <3>3
      DEF EvaluatorSound, EventOpenedOnce, Owns, OwnSteps, Decided
    <3>7. CooledDown'
      <4>1. \A f \in TriggerEvents : f # e => (Counted(f)' <=> Counted(f))
        BY <2>6, <3>3 DEF Counted
      <4>2. \A f \in TriggerEvents :
              /\ decisions'[f].startedAt \in Nat /\ decisions'[f].startedAt <= triggerTime
              /\ incoming[f].occurredAt \in Nat /\ triggerTime \in Nat
        BY <1>0, <3>3, TriggerAssumption DEF TriggerTypes, CooledDown, DecisionRows
      <4>3. \A f \in TriggerEvents : f # e /\ Counted(f) /\ Cooldown > 0 =>
              Earlier(incoming[e].occurredAt, triggerTime) - decisions[f].startedAt >= Cooldown
        <5> SUFFICES ASSUME NEW f \in TriggerEvents, f # e, Counted(f), Cooldown > 0
                     PROVE  Earlier(incoming[e].occurredAt, triggerTime) - decisions[f].startedAt >= Cooldown
          OBVIOUS
        <5>1. ~(Earlier(incoming[e].occurredAt, triggerTime) - decisions[f].startedAt < Cooldown)
          BY <3>1 DEF CooldownBlocks, CountsForCooldown, Counted
        <5>2. decisions[f].startedAt \in Nat
          BY <3>3, <4>2
        <5>3. Earlier(incoming[e].occurredAt, triggerTime) \in Nat
          BY <4>2 DEF Earlier
        <5> QED BY <5>1, <5>2, <5>3, TriggerAssumption
      <4>4. ASSUME NEW f \in TriggerEvents, NEW g \in TriggerEvents, Counted(f)', Counted(g)', Cooldown > 0,
                   f # g, decisions'[f].startedAt <= decisions'[g].startedAt
            PROVE  Earlier(incoming[g].occurredAt, decisions'[g].startedAt) - decisions'[f].startedAt >= Cooldown
        <5>1. CASE g = e
          BY <3>3, <4>1, <4>3, <4>4, <5>1
        <5>2. CASE f = e
          <6>1. decisions'[g].startedAt = triggerTime /\ decisions[g].startedAt = triggerTime
            BY <3>3, <4>2, <4>4, <5>2
          <6>2. Earlier(incoming[e].occurredAt, triggerTime) - triggerTime >= Cooldown
            BY <4>1, <4>3, <4>4, <5>2, <6>1
          <6> QED BY <4>2, <4>4, <6>2, TriggerAssumption DEF Earlier
        <5>3. CASE f # e /\ g # e
          BY <1>0, <3>3, <4>1, <4>4, <5>3 DEF CooledDown
        <5> QED BY <5>1, <5>2, <5>3
      <4> QED BY <2>6, <4>2, <4>4 DEF CooledDown, Earlier
    <3>8. decisions'[e].state # "none"
      BY <3>3
    <3> QED BY <1>0, <2>5, <2>6, <3>1, <3>3, <3>4, <3>5, <3>6, <3>7, <3>8, OneEvaluator
            DEF TriggersInv, PumpedPassable, Passable
  <2> QED BY <2>7, <2>8
<1>10. ASSUME NEW w \in Evaluators, NEW e \in TriggerEvents, Evaluates(w, e) PROVE TriggersInv'
  <2>1. \/ evaluator' = [evaluator EXCEPT ![w] = [at |-> "claim", event |-> e, version |-> policy.version]]
        \/ /\ evaluator' = [evaluator EXCEPT ![w] = [at |-> "commit", event |-> e, version |-> 0]]
           /\ declined' = declined \cup {e}
        \/ evaluator' = [evaluator EXCEPT ![w] = AtRest]
    <3>1. [AtRest EXCEPT !.at = "commit", !.event = e] = [at |-> "commit", event |-> e, version |-> 0]
      <4> DEFINE e0 == AtRest.event
      <4>1. AtRest = [at |-> "idle", event |-> e0, version |-> 0]
        BY Resting
      <4> HIDE DEF e0
      <4> QED BY <4>1, CommitAtOnce
    <3>2. CASE policy.enabled
      BY <1>10, <3>2 DEF Evaluates
    <3>3. CASE ~policy.enabled
      BY <1>10, <3>1, <3>3 DEF Evaluates
    <3> QED BY <3>2, <3>3
  <2>2. /\ evaluator' \in [Evaluators ->
              [at : EvaluatorSteps, event : TriggerEvents \cup {AtRest.event}, version : Nat]]
        /\ \A v \in Evaluators \ {w} : evaluator'[v] = evaluator[v]
        /\ evaluator'[w].at # "idle" => evaluator'[w].event = e
        /\ evaluator'[w].at \in {"idle", "claim", "commit"}
        /\ evaluator'[w].at = "commit" => e \in declined'
    <3>1. CASE evaluator' = [evaluator EXCEPT ![w] = [at |-> "claim", event |-> e, version |-> policy.version]]
      <4>1. policy.version \in Nat
        BY <1>0 DEF TriggerTypes
      <4> QED BY <1>0, <3>1, <4>1 DEF TriggerTypes, EvaluatorSteps
    <3>2. CASE /\ evaluator' = [evaluator EXCEPT ![w] = [at |-> "commit", event |-> e, version |-> 0]]
               /\ declined' = declined \cup {e}
      BY <1>0, <3>2 DEF TriggerTypes, EvaluatorSteps
    <3>3. CASE evaluator' = [evaluator EXCEPT ![w] = AtRest]
      <4>1. AtRest \in [at : EvaluatorSteps, event : TriggerEvents \cup {AtRest.event}, version : Nat]
        BY RestingTyped
      <4>2. AtRest.at = "idle"
        BY Resting
      <4> QED BY <1>0, <3>3, <4>1, <4>2 DEF TriggerTypes
    <3> QED BY <2>1, <3>1, <3>2, <3>3
  <2>3. /\ UNCHANGED <<incoming, policy, decisions, triggerTime, pumped, flagged, created, ran, missed, revived>>
        /\ declined \subseteq declined'
    BY <1>10 DEF Evaluates
  <2>4. TriggerTypes'
    BY <1>0, <2>2, <2>3 DEF TriggerTypes
  <2>5. EventOpenedOnce(e)'
    BY <1>0, <2>3 DEF EventsOpenedOnce, EventOpenedOnce
  <2>6. EvaluatorSound(w)'
    BY <2>2 DEF EvaluatorSound, Owns, OwnSteps, Passable
  <2>7. CooledDown'
    BY <1>0, <2>3, CooldownKept DEF Counted
  <2> QED BY <1>0, <2>2, <2>3, <2>4, <2>5, <2>6, <2>7, OneEvaluator DEF Owns, OwnSteps
<1>11. CASE ReconcileDecision
  <2>1. PICK e \in TriggerEvents :
           LET d == decisions[e] IN
           /\ Unsettled(d)
           /\ \/ /\ d.state = "started"
                 /\ \/ decisions' = [decisions EXCEPT ![e].state = "triggered", ![e].resource = TRUE,
                                                    ![e].dispatch = "not_requested"]
                    \/ decisions' = [decisions EXCEPT ![e].state = "failed", ![e].dispatch = "failed"]
              \/ /\ d.state = "triggered"
                 /\ \E outcome \in {"completed", "failed"} :
                      decisions' = [decisions EXCEPT ![e].dispatch = outcome]
    BY <1>11 DEF ReconcileDecision
  <2>2. /\ UNCHANGED <<incoming, policy, evaluator, triggerTime, pumped, flagged>>
        /\ UNCHANGED <<created, ran, declined, missed, revived>>
    BY <1>11 DEF ReconcileDecision, triggerHistory
  <2>3. /\ decisions' \in DecisionRows /\ \A f \in TriggerEvents \ {e} : decisions'[f] = decisions[f]
        /\ decisions'[e].startedAt = decisions[e].startedAt
        /\ decisions[e].state \in {"started", "triggered"} /\ decisions'[e].state \in Decided
    <3>1. {"triggered", "failed"} \subseteq Decided
          /\ {"not_requested", "failed", "completed"} \subseteq Dispatches
      BY DEF Decided, Dispatches
    <3>2. decisions[e].state \in {"started", "triggered"}
      BY <2>1
    <3>3. decisions[e].state \in Decided
      BY <3>2 DEF Decided
    <3>4. CASE decisions' = [decisions EXCEPT ![e].state = "triggered", ![e].resource = TRUE,
                                           ![e].dispatch = "not_requested"]
      BY <1>0, <3>1, <3>2, <3>4, DecisionWritten
    <3>5. CASE decisions' = [decisions EXCEPT ![e].state = "failed", ![e].dispatch = "failed"]
      BY <1>0, <3>1, <3>2, <3>5, DecisionWritten
    <3>6. ASSUME NEW outcome \in {"completed", "failed"},
                 decisions' = [decisions EXCEPT ![e].dispatch = outcome]
          PROVE  /\ decisions' \in DecisionRows /\ \A f \in TriggerEvents \ {e} : decisions'[f] = decisions[f]
                 /\ decisions'[e].startedAt = decisions[e].startedAt
                 /\ decisions'[e].state \in Decided
      BY <1>0, <3>1, <3>3, <3>6, DecisionWritten
    <3> QED BY <2>1, <3>2, <3>4, <3>5, <3>6
  <2>4. TriggerTypes'
    BY <1>0, <2>2, <2>3 DEF TriggerTypes
  <2>5. EventsOpenedOnce'
    BY <1>0, <2>2, <2>3 DEF EventsOpenedOnce, EventOpenedOnce, Decided
  <2>6. \A f \in TriggerEvents : Passable(f) => Passable(f)'
    BY <2>2, <2>3 DEF Passable, Decided
  <2>7. EvaluatorsSound' /\ OneOwner'
    BY <1>0, <2>2, <2>3, <2>6
       DEF EvaluatorsSound, EvaluatorSound, OneOwner, Owns, OwnSteps, TriggerTypes, Decided
  <2>8. PumpedPassable'
    BY <1>0, <2>2, <2>6 DEF TriggersInv, PumpedPassable, TriggerTypes
  <2>9. CooledDown'
    BY <1>0, <2>2, <2>3, CooldownKept DEF Counted
  <2> QED BY <2>4, <2>5, <2>7, <2>8, <2>9 DEF TriggersInv
<1>12. CASE EditPolicy
  <2>1. /\ UNCHANGED <<incoming, decisions, evaluator, triggerTime, pumped, flagged>>
        /\ UNCHANGED <<created, ran, declined, missed, revived>>
    BY <1>12 DEF EditPolicy, triggerHistory
  <2>2. policy' \in [enabled : BOOLEAN, version : Nat, runs : BOOLEAN]
    <3>1. PICK enabled \in BOOLEAN : policy' = [policy EXCEPT !.enabled = enabled, !.version = @ + 1]
      BY <1>12, Zenon DEF EditPolicy
    <3>2. policy.version \in Nat /\ policy.runs \in BOOLEAN
      BY <1>0 DEF TriggerTypes
    <3>3. policy' = [enabled |-> enabled, version |-> policy.version + 1, runs |-> policy.runs]
      BY <1>0, <3>1 DEF TriggerTypes
    <3> QED BY <3>2, <3>3
  <2> QED BY <1>0, <2>1, <2>2
          DEF TriggersInv, TriggerTypes, EventsOpenedOnce, EventOpenedOnce, EvaluatorsSound,
              EvaluatorSound,
              OneOwner, Owns, PumpedPassable, Passable, CooledDown, Counted
<1>13. CASE TriggerTick
  <2>1. /\ UNCHANGED <<incoming, policy, decisions, evaluator, pumped, flagged>>
        /\ UNCHANGED <<created, ran, declined, missed, revived>>
    BY <1>13 DEF TriggerTick, triggerHistory
  <2>2. triggerTime' \in 0 .. TriggerHorizon /\ triggerTime' = triggerTime + 1 /\ triggerTime \in Nat
    BY <1>0, <1>13, TriggerAssumption DEF TriggerTick, TriggerTypes
  <2>3. \A e \in TriggerEvents : decisions[e].startedAt \in Nat
    BY <1>0 DEF TriggerTypes, DecisionRows
  <2>4. CooledDown'
    BY <1>0, <2>1, <2>2, <2>3 DEF CooledDown, Counted
  <2> QED BY <1>0, <2>1, <2>2, <2>4
          DEF TriggersInv, TriggerTypes, EventsOpenedOnce, EventOpenedOnce, EvaluatorsSound,
              EvaluatorSound,
              OneOwner, Owns, PumpedPassable, Passable
<1>14. CASE UNCHANGED triggerVars
  BY <1>0, <1>14
     DEF triggerVars, triggerHistory, TriggersInv, TriggerTypes, EventsOpenedOnce, EventOpenedOnce,
         EvaluatorsSound, EvaluatorSound, OneOwner, Owns, PumpedPassable, Passable, CooledDown,
         Counted
<1>15. \A w \in Evaluators : HandIn(w) \/ PumpEvent(w) => \E e \in TriggerEvents : Evaluates(w, e)
  BY DEF HandIn, PumpEvent
<1>16. Pumps \subseteq Evaluators /\ TriggerCallers \subseteq Evaluators
  BY DEF Evaluators
<1> QED BY <1>1, <1>2, <1>3, <1>4, <1>5, <1>6, <1>7, <1>8, <1>9, <1>10, <1>11, <1>12, <1>13, <1>14,
           <1>15, <1>16 DEF TriggersNext

LEMMA TriggersInvariant == TriggersSpec => []TriggersInv
<1> QED BY TriggersStart, TriggersStep, PTL DEF TriggersSpec

\* For any number of pumps, requests and events: an event opens and runs one collaboration at
\* most, the cooldown holds between two that the policy opened, and the pump passes over no
\* event that it neither decided nor gave up for an error.
THEOREM EventsTriggerOnce == TriggersSpec => []EventTriggersOnce
<1>1. TriggersInv => EventTriggersOnce
  <2> SUFFICES ASSUME TriggersInv PROVE EventTriggersOnce
    OBVIOUS
  <2>1. \A e \in TriggerEvents :
           created[e] <= 1 /\ ran[e] <= created[e] /\ (created[e] > 0 => ~incoming[e].deep)
    BY DEF TriggersInv, EventsOpenedOnce, EventOpenedOnce
  <2>2. \A e, f \in {g \in TriggerEvents \ revived : decisions[g].state \in {"started", "triggered"}} :
           Cooldown > 0 /\ e # f /\ decisions[e].startedAt <= decisions[f].startedAt
           => Earlier(incoming[f].occurredAt, decisions[f].startedAt) - decisions[e].startedAt >= Cooldown
    BY DEF TriggersInv, CooledDown, Counted
  <2>3. \A e \in pumped \ (missed \cup declined) :
           decisions[e].state # "none" /\ (decisions[e].state = "blocked_depth" => e \in flagged)
    BY DEF TriggersInv, PumpedPassable, Passable
  <2> QED BY <2>1, <2>2, <2>3 DEF EventTriggersOnce
<1> QED BY <1>1, TriggersInvariant, PTL

=============================================================================
