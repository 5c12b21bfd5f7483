-------------------------- MODULE Reminders_proofs --------------------------
(* Proofs about Reminders for every number of reminders, pumps and attempts. *)
EXTENDS Reminders, TLAPS

\* Rewriting one field of a well-formed row keeps it well formed.
LEMMA RowType ==
    ASSUME NEW row \in Rows
    PROVE  /\ \A s \in Status : [row EXCEPT !.status = s] \in Rows
           /\ \A n \in Nat : /\ [row EXCEPT !.occurrence = n] \in Rows
                             /\ [row EXCEPT !.attempts = n] \in Rows
                             /\ [row EXCEPT !.dueAt = n] \in Rows
                             /\ [row EXCEPT !.nextAttemptAt = n] \in Rows
                             /\ [row EXCEPT !.leaseUntil = n] \in Rows
BY DEF Rows

\* The rows the store operations write.
LEMMA WrittenRows ==
    ASSUME NEW row \in Rows, NEW s \in Status, NEW n \in Nat, NEW m \in Nat
    PROVE  /\ [row EXCEPT !.status = s, !.dueAt = n, !.nextAttemptAt = n] \in Rows
           /\ [row EXCEPT !.status = s, !.attempts = 0, !.nextAttemptAt = n] \in Rows
           /\ [row EXCEPT !.status = s, !.attempts = 0, !.dueAt = n,
                          !.nextAttemptAt = n] \in Rows
           /\ [row EXCEPT !.status = s, !.attempts = @ + 1, !.leaseUntil = n] \in Rows
           /\ [row EXCEPT !.status = s, !.leaseUntil = n, !.nextAttemptAt = m] \in Rows
           /\ [row EXCEPT !.occurrence = @ + 1, !.leaseUntil = n] \in Rows
<1> DEFINE S == [row EXCEPT !.status = s]
<1>1. S \in Rows /\ row.attempts + 1 \in Nat /\ row.occurrence + 1 \in Nat
  BY RowType DEF Rows
<1>2. [S EXCEPT !.dueAt = n] \in Rows
  BY <1>1, RowType
<1>3. [S EXCEPT !.attempts = 0] \in Rows
  BY <1>1, RowType
<1>4. [[S EXCEPT !.attempts = 0] EXCEPT !.dueAt = n] \in Rows
  BY <1>3, RowType
<1>5. [S EXCEPT !.attempts = row.attempts + 1] \in Rows
  BY <1>1, RowType
<1>6. [S EXCEPT !.leaseUntil = n] \in Rows
  BY <1>1, RowType
<1>7. [row EXCEPT !.occurrence = row.occurrence + 1] \in Rows
  BY <1>1, RowType
<1> HIDE DEF S
<1>8. QED
  BY <1>1, <1>2, <1>3, <1>4, <1>5, <1>6, <1>7, RowType DEF S

\* Writing a well-formed row keeps the store well formed.
LEMMA StoreType ==
    ASSUME reminders \in [Ids -> Rows], NEW r \in Ids, NEW row \in Rows, Store(r, row)
    PROVE  reminders' \in [Ids -> Rows]
BY DEF Store

\* So does rewriting or dropping one in-flight call.
LEMMA WorkType ==
    ASSUME inFlight \in [Pumps -> SUBSET Work], NEW p \in Pumps, NEW w \in inFlight[p]
    PROVE  /\ w \in Work
           /\ \A pc \in {"enqueue", "mark", "error", "fail"} :
                 Become(p, w, pc) => inFlight' \in [Pumps -> SUBSET Work]
           /\ Settle(p, w) => inFlight' \in [Pumps -> SUBSET Work]
<1>1. w \in Work
  OBVIOUS
<1>2. ASSUME NEW pc \in {"enqueue", "mark", "error", "fail"}
      PROVE  [w EXCEPT !.pc = pc] \in Work
  BY <1>1 DEF Work
<1>3. QED
  BY <1>1, <1>2 DEF Become, Settle

\* The row a commit writes is well formed.
LEMMA ProjectedType ==
    ASSUME TypeOK, NEW r \in Ids
    PROVE  Projected(r) \in Rows
<1>1. reminders[r] \in Rows /\ now \in Nat
  BY DEF TypeOK
<1>2. NextDue(reminders[r]) \in Nat
  BY <1>1, ConstantsAssumption DEF NextDue, Rows
<1> DEFINE done == [reminders[r] EXCEPT !.occurrence = @ + 1, !.leaseUntil = NoLease]
<1>3. done \in Rows
  BY <1>1, WrittenRows DEF NoLease, Status
<1>4. /\ "scheduled" \in Status /\ "projected" \in Status
  BY DEF Status
<1> HIDE DEF done
<1>5. /\ [done EXCEPT !.status = "projected"] \in Rows
      /\ [done EXCEPT !.status = "scheduled", !.attempts = 0, !.dueAt = NextDue(reminders[r]),
                      !.nextAttemptAt = NextDue(reminders[r])] \in Rows
  BY <1>2, <1>3, <1>4, RowType, WrittenRows
<1>6. QED
  BY <1>5 DEF Projected, done

\* A commit moves on to the next occurrence.
LEMMA ProjectedNext ==
    ASSUME NEW r \in Ids, reminders \in [Ids -> Rows]
    PROVE  Projected(r).occurrence = reminders[r].occurrence + 1
BY DEF Projected, Rows

\* The empty store is well formed.
LEMMA TypeInit == Init => TypeOK
BY ConstantsAssumption DEF Init, TypeOK, Rows, Status, NoLease, Idle

\* Each action keeps every row, outbox key and in-flight claim well formed.
LEMMA TypeStep ==
    ASSUME TypeOK, [Next]_vars
    PROVE  TypeOK'
<1> USE ConstantsAssumption DEF TypeOK
<1>1. CASE Tick
  BY <1>1 DEF Tick
<1>2. ASSUME NEW r \in Ids, Create(r) PROVE TypeOK'
  <2>1. PICK due \in {now, now + 1} :
           Store(r, [reminders[r] EXCEPT !.status = "scheduled", !.dueAt = due,
                                         !.nextAttemptAt = due])
    BY <1>2 DEF Create
  <2>2. [reminders[r] EXCEPT !.status = "scheduled", !.dueAt = due,
                             !.nextAttemptAt = due] \in Rows
    <3>1. due \in Nat /\ reminders[r] \in Rows /\ "scheduled" \in Status
      BY DEF Status
    <3>2. QED
      BY <3>1, WrittenRows
  <2>3. QED
    BY <1>2, <2>1, <2>2, StoreType DEF Create
<1>3. ASSUME NEW r \in Ids, Cancel(r) PROVE TypeOK'
  <2>1. [reminders[r] EXCEPT !.status = "cancelled"] \in Rows
    BY DEF Rows, Status
  <2>2. QED
    BY <1>3, <2>1, StoreType DEF Cancel
<1>4. ASSUME NEW r \in Ids, Retry(r) PROVE TypeOK'
  <2>1. [reminders[r] EXCEPT !.status = "scheduled", !.attempts = 0,
                             !.nextAttemptAt = now] \in Rows
    BY ZenonT(60) DEF Rows, Status
  <2>2. QED
    BY <1>4, <2>1, StoreType DEF Retry
<1>5. ASSUME NEW p \in Pumps, StartPump(p) PROVE TypeOK'
  BY <1>5 DEF StartPump
<1>6. ASSUME NEW p \in Pumps, ClaimDue(p) PROVE TypeOK'
  <2> DEFINE at == pump[p].startedAt
             Claimed(r) == [reminders[r] EXCEPT !.status = "firing", !.attempts = @ + 1,
                                                !.leaseUntil = at + Lease]
  <2>1. PICK S \in SUBSET Ids :
           /\ reminders' = [r \in Ids |-> IF r \in S THEN Claimed(r) ELSE reminders[r]]
           /\ inFlight' = [inFlight EXCEPT ![p] = @ \cup
                 {[id |-> r, claim |-> ClaimOf(reminders'[r]), startedAt |-> at,
                   pc |-> "enqueue"] : r \in S}]
    BY <1>6 DEF ClaimDue
  <2>2. at \in Nat
    OBVIOUS
  <2>3. \A r \in Ids : reminders[r] \in Rows /\ Claimed(r) \in Rows
    <3>1. at + Lease \in Nat /\ "firing" \in Status
      BY <2>2 DEF Status
    <3>2. QED
      BY <3>1, WrittenRows
  <2>4. reminders' \in [Ids -> Rows]
    BY <2>1, <2>3
  <2>5. \A r \in S : ClaimOf(reminders'[r]) \in Claims
    BY <2>1, <2>4 DEF ClaimOf, Claims, Rows
  <2>6. \A r \in S : [id |-> r, claim |-> ClaimOf(reminders'[r]), startedAt |-> at,
                      pc |-> "enqueue"] \in Work
    BY <2>1, <2>2, <2>5 DEF Work
  <2>7. inFlight' \in [Pumps -> SUBSET Work]
    BY <2>1, <2>6
  <2>8. pump' \in [Pumps -> [busy : BOOLEAN, claimed : BOOLEAN, startedAt : Nat]]
    BY <1>6, ZenonT(60) DEF ClaimDue
  <2>9. QED
    BY <1>6, <2>4, <2>7, <2>8 DEF ClaimDue
<1>7. ASSUME NEW p \in Pumps, FinishPump(p) PROVE TypeOK'
  BY <1>7 DEF FinishPump, Idle
<1>8. ASSUME NEW p \in Pumps, NEW w \in inFlight[p], Enqueue(p, w) PROVE TypeOK'
  <2>1. <<w.id, w.claim.occurrence>> \in Ids \X Nat
    BY WorkType DEF Work, Claims
  <2>2. QED
    BY <1>8, <2>1, WorkType DEF Enqueue
<1>9. ASSUME NEW p \in Pumps, NEW w \in inFlight[p], MarkProjected(p, w) PROVE TypeOK'
  <2>1. w.id \in Ids
    BY WorkType DEF Work
  <2>2. reminders' \in [Ids -> Rows]
    BY <1>9, <2>1, StoreType, ProjectedType DEF MarkProjected
  <2>3. inFlight' \in [Pumps -> SUBSET Work] /\ faults' \in Nat
    BY <1>9, WorkType DEF MarkProjected, Fault
  <2>4. QED
    BY <1>9, <2>2, <2>3 DEF MarkProjected
<1>10. ASSUME NEW p \in Pumps, NEW w \in inFlight[p], HandleError(p, w) PROVE TypeOK'
  BY <1>10, WorkType DEF HandleError, Fault
<1>11. ASSUME NEW p \in Pumps, NEW w \in inFlight[p], MarkFailed(p, w) PROVE TypeOK'
  <2>1. w.id \in Ids /\ w.startedAt \in Nat
    BY WorkType DEF Work
  <2>2. [reminders[w.id] EXCEPT !.status = "failed", !.leaseUntil = NoLease,
                                !.nextAttemptAt = w.startedAt + RetryDelay] \in Rows
    <3>1. /\ w.startedAt + RetryDelay \in Nat /\ reminders[w.id] \in Rows
          /\ "failed" \in Status /\ NoLease \in Nat
      BY <2>1 DEF Status, NoLease
    <3>2. QED
      BY <3>1, WrittenRows
  <2>3. reminders' \in [Ids -> Rows]
    BY <1>11, <2>1, <2>2, StoreType DEF MarkFailed
  <2>4. /\ inFlight' \in [Pumps -> SUBSET Work]
        /\ faults' \in Nat
        /\ pump' \in [Pumps -> [busy : BOOLEAN, claimed : BOOLEAN, startedAt : Nat]]
    <3>1. inFlight' \in [Pumps -> SUBSET Work]
      BY <1>11, WorkType DEF MarkFailed
    <3>2. Idle \in [busy : BOOLEAN, claimed : BOOLEAN, startedAt : Nat]
      BY DEF Idle
    <3>3. QED
      BY <1>11, <3>1, <3>2 DEF MarkFailed, Fault
  <2>5. QED
    BY <1>11, <2>3, <2>4 DEF MarkFailed
<1>12. ASSUME NEW p \in Pumps, Crash(p) PROVE TypeOK'
  BY <1>12 DEF Crash, Fault, Idle
<1>13. CASE UNCHANGED vars
  BY <1>13 DEF vars
<1>14. QED
  BY <1>1, <1>2, <1>3, <1>4, <1>5, <1>6, <1>7, <1>8, <1>9, <1>10, <1>11, <1>12, <1>13
  DEF Next, PumpStep

\* Every reachable row, outbox key and in-flight claim has its declared shape.
THEOREM TypeCorrect == Spec => []TypeOK
<1>1. QED
  BY TypeInit, TypeStep, PTL DEF Spec

\* What a project() call has done before it may commit: its event is stored.
CommitAfterEnqueue ==
    \A p \in Pumps : \A w \in inFlight[p] :
        w.pc = "mark" => <<w.id, w.claim.occurrence>> \in outbox

\* Inductive strengthening of NoSkippedOccurrence.
NoSkipInv == TypeOK /\ NoSkippedOccurrence /\ CommitAfterEnqueue

\* A step that advances no occurrence, loses no event and brings no call to
\* its commit preserves the invariant.
LEMMA QuietStep ==
    ASSUME NoSkipInv, TypeOK', outbox \subseteq outbox',
           \A r \in Ids : reminders'[r].occurrence = reminders[r].occurrence,
           \A p \in Pumps : \A w \in inFlight'[p] :
              w.pc = "mark" => w \in inFlight[p]
    PROVE  NoSkipInv'
BY DEF NoSkipInv, NoSkippedOccurrence, CommitAfterEnqueue

\* No interleaving of leases, failing inserts and crashes skips an occurrence.
THEOREM NoSkip == Spec => []NoSkippedOccurrence
<1>1. Init => NoSkipInv
  <2>1. Init => TypeOK
    BY TypeInit
  <2>2. QED
    BY <2>1 DEF Init, NoSkipInv, NoSkippedOccurrence, CommitAfterEnqueue
<1>2. NoSkipInv /\ [Next]_vars => NoSkipInv'
  <2> SUFFICES ASSUME NoSkipInv, [Next]_vars PROVE NoSkipInv'
    OBVIOUS
  <2>0. TypeOK /\ TypeOK'
    BY TypeStep DEF NoSkipInv
  <2>1. CASE Tick
    BY <2>0, <2>1, QuietStep DEF Tick
  <2>2. ASSUME NEW r \in Ids, Create(r) \/ Cancel(r) \/ Retry(r) PROVE NoSkipInv'
    <3>1. reminders \in [Ids -> Rows]
      BY <2>0 DEF TypeOK
    <3>2. /\ UNCHANGED <<outbox, inFlight>>
          /\ \E row \in Rows : Store(r, row) /\ row.occurrence = reminders[r].occurrence
      <4>1. reminders[r] \in Rows /\ now \in Nat
        BY <2>0 DEF TypeOK
      <4>2. {"scheduled", "cancelled"} \subseteq Status
        BY DEF Status
      <4>3. CASE Create(r)
        <5>1. PICK due \in Nat :
                 Store(r, [reminders[r] EXCEPT !.status = "scheduled", !.dueAt = due,
                                               !.nextAttemptAt = due])
          <6>1. now + 1 \in Nat
            BY <4>1
          <6>2. QED
            BY <4>1, <4>3, <6>1 DEF Create
        <5> DEFINE row == [reminders[r] EXCEPT !.status = "scheduled", !.dueAt = due,
                                               !.nextAttemptAt = due]
        <5>2. row \in Rows
          BY <4>1, <4>2, WrittenRows
        <5>3. row.occurrence = reminders[r].occurrence
          BY <4>1 DEF Rows
        <5>4. QED
          BY <4>3, <5>1, <5>2, <5>3 DEF Create
      <4>4. CASE Cancel(r)
        <5> DEFINE row == [reminders[r] EXCEPT !.status = "cancelled"]
        <5>1. row \in Rows /\ row.occurrence = reminders[r].occurrence
          BY <4>1, <4>2, RowType DEF Rows
        <5>2. QED
          BY <4>4, <5>1 DEF Cancel
      <4>5. CASE Retry(r)
        <5> DEFINE row == [reminders[r] EXCEPT !.status = "scheduled", !.attempts = 0,
                                               !.nextAttemptAt = now]
        <5>1. row \in Rows
          BY <4>1, <4>2, WrittenRows
        <5>2. row.occurrence = reminders[r].occurrence
          BY <4>1 DEF Rows
        <5>3. QED
          BY <4>5, <5>1, <5>2 DEF Retry
      <4>6. QED
        BY <2>2, <4>3, <4>4, <4>5
    <3>3. QED
      BY <2>0, <3>1, <3>2, QuietStep DEF Store
  <2>3. ASSUME NEW p \in Pumps, StartPump(p) \/ FinishPump(p) PROVE NoSkipInv'
    BY <2>0, <2>3, QuietStep DEF StartPump, FinishPump
  <2>4. ASSUME NEW p \in Pumps, ClaimDue(p) PROVE NoSkipInv'
    <3>1. \A r \in Ids : reminders'[r].occurrence = reminders[r].occurrence
      <4>1. \A r \in Ids : reminders[r] \in Rows
        BY <2>0 DEF TypeOK
      <4>2. QED
        BY <2>4, <4>1 DEF ClaimDue, Rows
    <3>2. \A q \in Pumps : \A w \in inFlight'[q] : w.pc = "mark" => w \in inFlight[q]
      <4> DEFINE New(S) == {[id |-> r, claim |-> ClaimOf(reminders'[r]),
                             startedAt |-> pump[p].startedAt, pc |-> "enqueue"] : r \in S}
      <4>1. PICK S \in SUBSET Ids : inFlight' = [inFlight EXCEPT ![p] = @ \cup New(S)]
        BY <2>4 DEF ClaimDue
      <4>2. \A w \in New(S) : w.pc = "enqueue"
        OBVIOUS
      <4> HIDE DEF New
      <4>3. QED
        BY <2>0, <4>1, <4>2 DEF TypeOK
    <3>3. QED
      BY <2>0, <2>4, <3>1, <3>2, QuietStep DEF ClaimDue
  <2>5. ASSUME NEW p \in Pumps, NEW w \in inFlight[p], Enqueue(p, w) PROVE NoSkipInv'
    <3>1. w \in Work /\ inFlight \in [Pumps -> SUBSET Work]
      BY <2>0 DEF TypeOK
    <3>2. [w EXCEPT !.pc = "mark"].id = w.id /\ [w EXCEPT !.pc = "mark"].claim = w.claim
      BY <3>1 DEF Work
    <3>3. [w EXCEPT !.pc = "error"].pc # "mark"
      BY <3>1 DEF Work
    <3>4. outbox \subseteq outbox' /\ reminders' = reminders
      BY <2>5 DEF Enqueue
    <3>5. CASE outbox' = outbox \cup {<<w.id, w.claim.occurrence>>} /\ Become(p, w, "mark")
      <4>1. CommitAfterEnqueue'
        BY <3>1, <3>2, <3>4, <3>5 DEF NoSkipInv, CommitAfterEnqueue, Become
      <4>2. QED
        BY <2>0, <3>4, <4>1 DEF NoSkipInv, NoSkippedOccurrence
    <3>6. CASE Become(p, w, "error")
      BY <2>0, <3>1, <3>3, <3>4, <3>6, QuietStep DEF Become
    <3>7. QED
      BY <2>5, <3>5, <3>6 DEF Enqueue
  <2>6. ASSUME NEW p \in Pumps, NEW w \in inFlight[p], MarkProjected(p, w) PROVE NoSkipInv'
    <3>1. /\ w \in Work /\ inFlight \in [Pumps -> SUBSET Work]
          /\ reminders \in [Ids -> Rows] /\ w.id \in Ids
      BY <2>0 DEF TypeOK, Work
    <3>2. [w EXCEPT !.pc = "error"].pc # "mark"
      BY <3>1 DEF Work
    <3>3. w.pc = "mark" /\ outbox' = outbox /\ (Settle(p, w) \/ Become(p, w, "error"))
      BY <2>6 DEF MarkProjected
    <3>4. CommitAfterEnqueue'
      BY <3>1, <3>2, <3>3 DEF NoSkipInv, CommitAfterEnqueue, Become, Settle
    <3>5. CASE reminders' = reminders
      BY <2>0, <3>3, <3>4, <3>5 DEF NoSkipInv, NoSkippedOccurrence
    <3>6. CASE Store(w.id, Projected(w.id)) /\ MatchesClaim(reminders[w.id], w.claim)
      <4>1. reminders[w.id].occurrence = w.claim.occurrence
        BY <3>1, <3>6 DEF MatchesClaim, ClaimOf, Rows
      <4>2. <<w.id, reminders[w.id].occurrence>> \in outbox
        BY <3>3, <4>1 DEF NoSkipInv, CommitAfterEnqueue
      <4>3. Projected(w.id).occurrence = reminders[w.id].occurrence + 1
        BY <3>1, ProjectedNext
      <4>4. reminders'[w.id].occurrence = reminders[w.id].occurrence + 1
        BY <3>1, <3>6, <4>3 DEF Store
      <4>5. \A r \in Ids : r # w.id => reminders'[r] = reminders[r]
        BY <3>1, <3>6 DEF Store
      <4>6. reminders[w.id].occurrence \in Nat
        BY <3>1 DEF Rows
      <4>7. NoSkippedOccurrence'
        <5> SUFFICES ASSUME NEW r \in Ids, NEW k \in 0 .. reminders'[r].occurrence - 1
                     PROVE  <<r, k>> \in outbox
          BY <3>3 DEF NoSkippedOccurrence
        <5>1. CASE r = w.id /\ k = reminders[w.id].occurrence
          BY <4>2, <5>1
        <5>2. CASE k \in 0 .. reminders[r].occurrence - 1
          BY <5>2 DEF NoSkipInv, NoSkippedOccurrence
        <5>3. QED
          BY <4>4, <4>5, <4>6, <5>1, <5>2
      <4>8. QED
        BY <2>0, <3>4, <4>7 DEF NoSkipInv
    <3>7. QED
      BY <2>6, <3>5, <3>6 DEF MarkProjected
  <2>7. ASSUME NEW p \in Pumps, NEW w \in inFlight[p], HandleError(p, w) PROVE NoSkipInv'
    <3>1. w \in Work /\ inFlight \in [Pumps -> SUBSET Work]
      BY <2>0 DEF TypeOK
    <3>2. [w EXCEPT !.pc = "fail"].pc # "mark"
      BY <3>1 DEF Work
    <3>3. UNCHANGED <<reminders, outbox>> /\ (Settle(p, w) \/ Become(p, w, "fail"))
      BY <2>7 DEF HandleError
    <3>4. QED
      BY <2>0, <3>1, <3>2, <3>3, QuietStep DEF Become, Settle
  <2>8. ASSUME NEW p \in Pumps, NEW w \in inFlight[p], MarkFailed(p, w) PROVE NoSkipInv'
    <3>1. /\ w \in Work /\ inFlight \in [Pumps -> SUBSET Work]
          /\ reminders \in [Ids -> Rows] /\ w.id \in Ids
      BY <2>0 DEF TypeOK, Work
    <3>2. \A r \in Ids : reminders'[r].occurrence = reminders[r].occurrence
      <4> DEFINE row == [reminders[w.id] EXCEPT !.status = "failed", !.leaseUntil = NoLease,
                                                !.nextAttemptAt = w.startedAt + RetryDelay]
      <4>1. row.occurrence = reminders[w.id].occurrence
        BY <3>1 DEF Rows
      <4>2. reminders' = reminders \/ Store(w.id, row)
        BY <2>8 DEF MarkFailed
      <4> HIDE DEF row
      <4>3. QED
        BY <3>1, <4>1, <4>2 DEF Store
    <3>3. outbox' = outbox /\ Settle(p, w)
      BY <2>8 DEF MarkFailed
    <3>4. QED
      BY <2>0, <3>1, <3>2, <3>3, QuietStep DEF Settle
  <2>9. ASSUME NEW p \in Pumps, Crash(p) PROVE NoSkipInv'
    BY <2>0, <2>9, QuietStep DEF Crash, TypeOK
  <2>10. CASE UNCHANGED vars
    BY <2>0, <2>10, QuietStep DEF vars
  <2>11. QED
    BY <2>1, <2>2, <2>3, <2>4, <2>5, <2>6, <2>7, <2>8, <2>9, <2>10 DEF Next, PumpStep
<1>3. NoSkipInv => NoSkippedOccurrence
  BY DEF NoSkipInv
<1>4. QED
  BY <1>1, <1>2, <1>3, PTL DEF Spec
=============================================================================
