--------------------------- MODULE Services_proofs ---------------------------
(* Proofs about three services that keep state of their own: the releases of Evolution,   *)
(* the sweep of RunScan, and the files and the memory of JsonStore.                       *)
EXTENDS Evolution, RunScan, JsonStore, FiniteSetTheorems, SequenceTheorems, WellFoundedInduction,
        TLAPS

-----------------------------------------------------------------------------
(* A candidate's row *)

RowStatuses == {"absent", "proposed", "evaluating", "held", "approved", "shadowing", "canarying",
                "promoted", "rejected", "rolled_back"}
Tries == Phases \X Nat

Rows == [status : RowStatuses, required : Nat \ {0}, gate : [Gates -> {"none", "passed", "failed"}],
         tries : Nat, evaluating : SUBSET (Gates \X Nat), seen : [Phases -> SUBSET Nat],
         failed : [Phases -> BOOLEAN], used : SUBSET Tries, trying : SUBSET Tries]

Ready(row, phase) == Cardinality(row.seen[phase]) >= row.required /\ ~row.failed[phase]

\* What a row has shown by the time it has a status.
Earned(row) ==
    /\ row.status \in {"approved", "shadowing", "canarying", "promoted"} =>
         \A k \in Gates : row.gate[k] = "passed"
    /\ row.status = "canarying" => Ready(row, "shadow")
    /\ row.status = "promoted" =>
         /\ row.trying = {}
         /\ row.required # 1 => Ready(row, "canary") /\ Ready(row, "shadow")

\* A row may become another: well formed, earned, and still promoted if it was.
MayBecome(row, next) ==
    next \in Rows /\ Earned(next) /\ (row.status = "promoted" => next.status = "promoted")

LEMMA WithStatus ==
    ASSUME NEW row \in Rows, NEW s \in RowStatuses
    PROVE  /\ [row EXCEPT !.status = s] \in Rows
           /\ [row EXCEPT !.status = s].status = s
           /\ [row EXCEPT !.status = s].required = row.required
           /\ [row EXCEPT !.status = s].gate = row.gate
           /\ [row EXCEPT !.status = s].seen = row.seen
           /\ [row EXCEPT !.status = s].failed = row.failed
           /\ [row EXCEPT !.status = s].trying = row.trying
BY DEF Rows

LEMMA WithGate ==
    ASSUME NEW row \in Rows, NEW g \in [Gates -> {"none", "passed", "failed"}]
    PROVE  /\ [row EXCEPT !.gate = g] \in Rows
           /\ [row EXCEPT !.gate = g].status = row.status
           /\ [row EXCEPT !.gate = g].required = row.required
           /\ [row EXCEPT !.gate = g].gate = g
           /\ [row EXCEPT !.gate = g].seen = row.seen
           /\ [row EXCEPT !.gate = g].failed = row.failed
           /\ [row EXCEPT !.gate = g].trying = row.trying
BY DEF Rows

LEMMA WithSeen ==
    ASSUME NEW row \in Rows, NEW S \in [Phases -> SUBSET Nat], NEW b \in [Phases -> BOOLEAN]
    PROVE  /\ [row EXCEPT !.seen = S, !.failed = b] \in Rows
           /\ [row EXCEPT !.seen = S, !.failed = b].status = row.status
           /\ [row EXCEPT !.seen = S, !.failed = b].required = row.required
           /\ [row EXCEPT !.seen = S, !.failed = b].gate = row.gate
           /\ [row EXCEPT !.seen = S, !.failed = b].seen = S
           /\ [row EXCEPT !.seen = S, !.failed = b].failed = b
           /\ [row EXCEPT !.seen = S, !.failed = b].trying = row.trying
BY DEF Rows

LEMMA GatedRow ==
    ASSUME NEW row \in Rows, NEW k \in Gates, NEW passed \in BOOLEAN, AcceptsGate(row, k)
    PROVE  MayBecome(row, Gated(row, k, passed))
<1> DEFINE gate == [row.gate EXCEPT ![k] = IF passed THEN "passed" ELSE "failed"]
<1> DEFINE s == IF \E g \in Gates : gate[g] = "failed" THEN "held" ELSE "evaluating"
<1> DEFINE gated == [row EXCEPT !.gate = gate]
<1>1. gate \in [Gates -> {"none", "passed", "failed"}]
  BY DEF Rows
<1>2. s \in {"held", "evaluating"} /\ s \in RowStatuses
  BY DEF RowStatuses
<1>3. Gated(row, k, passed) = [gated EXCEPT !.status = s]
  BY DEF Gated, Rows
<1> HIDE DEF gate, s
<1>4. gated \in Rows
  BY <1>1, WithGate
<1> HIDE DEF gated
<1>5. [gated EXCEPT !.status = s] \in Rows /\ [gated EXCEPT !.status = s].status = s
  BY <1>2, <1>4, WithStatus
<1>6. row.status # "promoted"
  BY DEF AcceptsGate
<1> QED BY <1>2, <1>3, <1>5, <1>6 DEF MayBecome, Earned

LEMMA ObservedRow ==
    ASSUME NEW row \in Rows, Earned(row), NEW phase \in Phases, NEW case \in Nat, NEW passed \in BOOLEAN,
           row.status = PhaseStatus(phase)
    PROVE  MayBecome(row, Observed(row, phase, case, passed))
<1> DEFINE S == [row.seen EXCEPT ![phase] = @ \cup {case}]
<1> DEFINE b == [row.failed EXCEPT ![phase] = @ \/ ~passed]
<1> DEFINE s == IF passed THEN row.status ELSE "held"
<1> DEFINE seen == [row EXCEPT !.seen = S, !.failed = b]
<1>1. S \in [Phases -> SUBSET Nat] /\ b \in [Phases -> BOOLEAN] /\ s \in RowStatuses
      /\ s \in {row.status, "held"}
  BY DEF Rows, RowStatuses
<1>2. Observed(row, phase, case, passed) = [seen EXCEPT !.status = s]
  BY DEF Observed, Rows
<1>3. row.status \in {"shadowing", "canarying"} /\ (row.status = "canarying" => phase # "shadow")
  BY DEF PhaseStatus, Phases
<1>4. row.status = "canarying" => S["shadow"] = row.seen["shadow"] /\ b["shadow"] = row.failed["shadow"]
  BY <1>3 DEF Rows, Phases
<1> HIDE DEF S, b, s
<1>5. seen \in Rows /\ seen.required = row.required /\ seen.gate = row.gate /\ seen.seen = S /\ seen.failed = b
  BY <1>1 DEF Rows
<1> HIDE DEF seen
<1>6. [seen EXCEPT !.status = s] \in Rows /\ [seen EXCEPT !.status = s].status = s
      /\ [seen EXCEPT !.status = s].gate = row.gate
      /\ [seen EXCEPT !.status = s].required = row.required
      /\ [seen EXCEPT !.status = s].seen = S /\ [seen EXCEPT !.status = s].failed = b
  BY <1>1, <1>5, WithStatus
<1> QED BY <1>1, <1>2, <1>3, <1>4, <1>6 DEF MayBecome, Earned, Ready

-----------------------------------------------------------------------------
(* The invariant *)

Versions == Candidates \cup {Baseline}
Retired(c) == candidate[c].status = "promoted" \/ c \in revoked

AskerRecs ==
    {NotAsking}
    \cup [op : {"evaluation"}, of : Candidates, try : Gates \X Nat]
    \cup [op : {"rollout"}, of : Candidates, try : Tries]
    \cup [op : {"activate", "rollback", "revoked", "resume"}, of : Candidates]
    \cup [op : {"traffic"}, of : Candidates, base : Versions]

RowsInv == candidate \in [Candidates -> Rows] /\ \A c \in Candidates : Earned(candidate[c])

\* What an asker has read still holds, or the candidate has been revoked since.
Knows(rec) ==
    /\ rec.op \in {"activate", "traffic"} => Retired(rec.of)
    /\ rec.op = "traffic" => BaseOf[rec.of] = rec.base
    /\ rec.op = "revoked" => rec.of \in revoked

AskerInv == asker \in [Askers -> AskerRecs] /\ \A a \in Askers : Knows(asker[a])

\* A release is younger than the one it was proposed against, down to the baseline.
Generation(rank) ==
    /\ rank \in [Versions -> Nat]
    /\ \A c \in released : BaseOf[c] \in released \cup {Baseline} /\ rank[BaseOf[c]] < rank[c]

RegistryInv ==
    /\ released \subseteq Candidates /\ revoked \subseteq Candidates
    /\ \A c \in released \ revoked : candidate[c].status = "promoted"
    /\ active \in (released \ revoked) \cup {Baseline}
    /\ \E rank : Generation(rank)

RouteInv ==
    \/ route = NoRoute
    \/ /\ route \in [candidate : Candidates, base : Versions, status : {"active", "paused"}]
       /\ candidate[route.candidate].status = "promoted" /\ route.candidate \notin revoked
       /\ active = route.base /\ BaseOf[route.candidate] = route.base

EvolutionInv == RowsInv /\ AskerInv /\ RegistryInv /\ RouteInv

-----------------------------------------------------------------------------
(* One row changes *)

RowChanges(c) == \E row : MayBecome(candidate[c], row) /\ Becomes(c, row)

LEMMA RowStays ==
    ASSUME RowsInv, NEW c \in Candidates, UNCHANGED candidate
    PROVE  RowChanges(c)
<1>1. candidate[c] \in Rows /\ Earned(candidate[c])
  BY DEF RowsInv
<1>2. MayBecome(candidate[c], candidate[c])
  BY <1>1 DEF MayBecome
<1>3. Becomes(c, candidate[c])
  BY DEF Becomes, RowsInv
<1> QED BY <1>2, <1>3 DEF RowChanges

LEMMA OneRow ==
    ASSUME RowsInv, NEW c \in Candidates, RowChanges(c)
    PROVE  RowsInv' /\ \A d \in Candidates : candidate[d].status = "promoted" => candidate'[d].status = "promoted"
<1>1. PICK row : MayBecome(candidate[c], row) /\ Becomes(c, row)
  BY DEF RowChanges
<1>2. row \in Rows /\ Earned(row) /\ (candidate[c].status = "promoted" => row.status = "promoted")
  BY <1>1 DEF MayBecome
<1>3. candidate' \in [Candidates -> Rows] /\ \A d \in Candidates : candidate'[d] = IF d = c THEN row ELSE candidate[d]
  BY <1>1, <1>2 DEF Becomes, RowsInv
<1>4. \A d \in Candidates : Earned(candidate[d])'
  BY <1>2, <1>3 DEF RowsInv, Earned, Ready
<1> QED BY <1>2, <1>3, <1>4 DEF RowsInv

\* A candidate's own steps.
OwnSteps(c) ==
    \/ \E required \in Risks : Propose(c, required)
    \/ Approve(c) \/ StartShadow(c) \/ StartCanary(c) \/ Promote(c) \/ Reject(c)
    \/ \E k \in Gates, passed \in BOOLEAN : EvaluateGate(c, k, passed)
    \/ \E phase \in Phases, passed \in BOOLEAN : \E case \in CasesFor(c, phase) : RecordObservation(c, phase, case, passed)
    \/ \E outcome \in {"completed", "failed"}, passed \in BOOLEAN : ReconcileEvaluation(c, outcome, passed)
    \/ \E passed \in BOOLEAN : ReconcileRollout(c, passed)

\* A step that only gives the row another status.
LEMMA StatusOnly ==
    ASSUME RowsInv, NEW c \in Candidates, NEW s \in RowStatuses, Becomes(c, [candidate[c] EXCEPT !.status = s]),
           Earned([candidate[c] EXCEPT !.status = s]), candidate[c].status # "promoted"
    PROVE  RowChanges(c)
<1>1. candidate[c] \in Rows
  BY DEF RowsInv
<1>2. [candidate[c] EXCEPT !.status = s] \in Rows
  BY <1>1, WithStatus
<1> QED BY <1>2 DEF RowChanges, MayBecome

LEMMA SettledGate ==
    ASSUME RowsInv, NEW c \in Candidates, NEW k \in Gates, NEW passed \in BOOLEAN, SettlesGate(c, k, passed)
    PROVE  RowChanges(c)
<1> DEFINE row == [candidate[c] EXCEPT !.evaluating = {}]
<1>1. candidate[c] \in Rows /\ Earned(candidate[c])
  BY DEF RowsInv
<1>2. row \in Rows /\ Earned(row) /\ row.status = candidate[c].status
  BY <1>1 DEF Rows, Earned, Ready
<1>3. \/ Becomes(c, row)
      \/ AcceptsGate(row, k) /\ Becomes(c, Gated(row, k, passed))
      \/ UNCHANGED candidate
  BY DEF SettlesGate
<1> HIDE DEF row
<1>4. CASE Becomes(c, row)
  BY <1>2, <1>4 DEF RowChanges, MayBecome
<1>5. CASE AcceptsGate(row, k) /\ Becomes(c, Gated(row, k, passed))
  <2>1. MayBecome(row, Gated(row, k, passed))
    BY <1>2, <1>5, GatedRow
  <2> QED BY <1>2, <1>5, <2>1 DEF RowChanges, MayBecome
<1> QED BY <1>3, <1>4, <1>5, RowStays

LEMMA SettledRollout ==
    ASSUME RowsInv, NEW c \in Candidates, NEW try \in Tries, NEW passed \in BOOLEAN, SettlesRollout(c, try, passed)
    PROVE  RowChanges(c)
<1> DEFINE row == [candidate[c] EXCEPT !.trying = {}]
<1>1. candidate[c] \in Rows /\ Earned(candidate[c])
  BY DEF RowsInv
<1>2. row \in Rows /\ Earned(row) /\ row.status = candidate[c].status
  BY <1>1 DEF Rows, Earned, Ready
<1>3. \/ Becomes(c, row)
      \/ Records(row, try[1], try[2]) /\ Becomes(c, Observed(row, try[1], try[2], passed))
      \/ UNCHANGED candidate
  BY DEF SettlesRollout
<1> HIDE DEF row
<1>4. CASE Becomes(c, row)
  BY <1>2, <1>4 DEF RowChanges, MayBecome
<1>5. CASE Records(row, try[1], try[2]) /\ Becomes(c, Observed(row, try[1], try[2], passed))
  <2>1. try[1] \in Phases /\ try[2] \in Nat /\ row.status = PhaseStatus(try[1])
    BY <1>5 DEF Tries, Records
  <2>2. MayBecome(row, Observed(row, try[1], try[2], passed))
    BY <1>2, <2>1, ObservedRow
  <2> QED BY <1>2, <1>5, <2>2 DEF RowChanges, MayBecome
<1> QED BY <1>3, <1>4, <1>5, RowStays

LEMMA OwnStepChangesRow ==
    ASSUME EvolutionAssumption, RowsInv, NEW c \in Candidates, OwnSteps(c)
    PROVE  RowChanges(c)
<1>1. candidate[c] \in Rows /\ Earned(candidate[c])
  BY DEF RowsInv
<1>2. ASSUME NEW required \in Risks, Propose(c, required) PROVE RowChanges(c)
  <2>1. required \in Nat \ {0}
    BY <1>2 DEF EvolutionAssumption
  <2> DEFINE row == [candidate[c] EXCEPT !.status = "proposed", !.required = required]
  <2>2. row \in Rows /\ row.status = "proposed"
    BY <1>1, <2>1 DEF Rows, RowStatuses
  <2>3. Earned(row)
    BY <2>2 DEF Earned
  <2>4. candidate[c].status = "absent" /\ Becomes(c, row)
    BY <1>2 DEF Propose
  <2> HIDE DEF row
  <2> QED BY <2>2, <2>3, <2>4 DEF RowChanges, MayBecome
<1>3. ASSUME Approve(c) PROVE RowChanges(c)
  <2>1. Earned([candidate[c] EXCEPT !.status = "approved"])
    BY <1>1, <1>3 DEF Approve, Earned, Rows
  <2> QED BY <1>3, <2>1, StatusOnly DEF Approve, RowStatuses
<1>4. ASSUME Promote(c) PROVE RowChanges(c)
  <2>1. Earned([candidate[c] EXCEPT !.status = "promoted"])
    BY <1>1, <1>4 DEF Promote, Promotable, LowRisk, RolloutReady, Earned, Ready, Rows
  <2> QED BY <1>4, <2>1, StatusOnly DEF Promote, Promotable, RowStatuses
<1>5. ASSUME Reject(c) PROVE RowChanges(c)
  <2>1. Earned([candidate[c] EXCEPT !.status = "rejected"])
    BY <1>1 DEF Earned, Rows
  <2> QED BY <1>5, <2>1, StatusOnly DEF Reject, RowStatuses
<1>6. ASSUME StartShadow(c) PROVE RowChanges(c)
  <2> DEFINE row == [candidate[c] EXCEPT !.status = "shadowing", !.seen["shadow"] = {}, !.failed["shadow"] = FALSE]
  <2>1. row \in Rows /\ row.status = "shadowing" /\ row.gate = candidate[c].gate
    BY <1>1 DEF Rows, RowStatuses, Phases
  <2>2. candidate[c].status = "approved" /\ Becomes(c, row)
    BY <1>6 DEF StartShadow
  <2> HIDE DEF row
  <2>3. Earned(row)
    BY <1>1, <2>1, <2>2 DEF Earned
  <2> QED BY <2>1, <2>2, <2>3 DEF RowChanges, MayBecome
<1>7. ASSUME StartCanary(c) PROVE RowChanges(c)
  <2> DEFINE row == [candidate[c] EXCEPT !.status = "canarying", !.seen["canary"] = {}, !.failed["canary"] = FALSE]
  <2>1. row \in Rows /\ row.status = "canarying" /\ row.gate = candidate[c].gate /\ row.required = candidate[c].required
        /\ row.seen["shadow"] = candidate[c].seen["shadow"] /\ row.failed["shadow"] = candidate[c].failed["shadow"]
    BY <1>1 DEF Rows, RowStatuses, Phases
  <2>2. candidate[c].status = "shadowing" /\ RolloutReady(c, "shadow") /\ Becomes(c, row)
    BY <1>7 DEF StartCanary
  <2> HIDE DEF row
  <2>3. Earned(row)
    BY <1>1, <2>1, <2>2 DEF Earned, Ready, RolloutReady
  <2> QED BY <2>1, <2>2, <2>3 DEF RowChanges, MayBecome
<1>8. ASSUME NEW k \in Gates, NEW passed \in BOOLEAN, EvaluateGate(c, k, passed) PROVE RowChanges(c)
  <2>1. MayBecome(candidate[c], Gated(candidate[c], k, passed))
    BY <1>1, <1>8, GatedRow DEF EvaluateGate
  <2> QED BY <1>8, <2>1 DEF RowChanges, EvaluateGate
<1>9. ASSUME NEW phase \in Phases, NEW passed \in BOOLEAN, NEW case \in CasesFor(c, phase),
             RecordObservation(c, phase, case, passed)
      PROVE  RowChanges(c)
  <2>1. case \in Nat
    BY <1>1 DEF CasesFor, Rows
  <2>2. MayBecome(candidate[c], Observed(candidate[c], phase, case, passed))
    BY <1>1, <1>9, <2>1, ObservedRow DEF RecordObservation, Records
  <2> QED BY <1>9, <2>2 DEF RowChanges, RecordObservation
<1>10. ASSUME NEW outcome, NEW passed \in BOOLEAN, ReconcileEvaluation(c, outcome, passed) PROVE RowChanges(c)
  <2>1. PICK try \in candidate[c].evaluating :
           \/ SettlesGate(c, try[1], passed)
           \/ Becomes(c, [candidate[c] EXCEPT !.evaluating = {}])
    BY <1>10 DEF ReconcileEvaluation
  <2>2. try[1] \in Gates
    BY <1>1 DEF Rows
  <2>3. CASE SettlesGate(c, try[1], passed)
    BY <2>2, <2>3, SettledGate
  <2>4. CASE Becomes(c, [candidate[c] EXCEPT !.evaluating = {}])
    <3>1. /\ [candidate[c] EXCEPT !.evaluating = {}] \in Rows /\ Earned([candidate[c] EXCEPT !.evaluating = {}])
          /\ [candidate[c] EXCEPT !.evaluating = {}].status = candidate[c].status
      BY <1>1 DEF Rows, Earned, Ready
    <3> QED BY <2>4, <3>1 DEF RowChanges, MayBecome
  <2> QED BY <2>1, <2>3, <2>4
<1>11. ASSUME NEW passed \in BOOLEAN, ReconcileRollout(c, passed) PROVE RowChanges(c)
  <2>1. PICK try \in candidate[c].trying : SettlesRollout(c, try, passed)
    BY <1>11 DEF ReconcileRollout
  <2>2. try \in Tries
    BY <1>1 DEF Rows
  <2> QED BY <2>1, <2>2, SettledRollout
<1> QED BY <1>2, <1>3, <1>4, <1>5, <1>6, <1>7, <1>8, <1>9, <1>10, <1>11 DEF OwnSteps

-----------------------------------------------------------------------------
(* An asker moves *)

\* Nothing retired comes back.
OnlyOnward == revoked \subseteq revoked' /\ \A c \in Candidates : Retired(c) => Retired(c)'

LEMMA AskerMoves ==
    ASSUME AskerInv, OnlyOnward, NEW a \in Askers, NEW rec \in AskerRecs, Knows(rec)',
           asker' = [asker EXCEPT ![a] = rec]
    PROVE  AskerInv'
<1>1. asker' \in [Askers -> AskerRecs] /\ \A b \in Askers : asker'[b] = IF b = a THEN rec ELSE asker[b]
  BY DEF AskerInv
<1>2. ASSUME NEW b \in Askers, b # a PROVE Knows(asker[b])'
  <2>1. asker[b] \in AskerRecs /\ Knows(asker[b])
    BY DEF AskerInv
  <2>2. PICK r \in AskerRecs : r = asker[b]
    BY <2>1
  <2>3. asker'[b] = r
    BY <1>1, <1>2, <2>2
  <2>4. Knows(r)
    BY <2>1, <2>2
  <2>5. r.op # "none" => r.of \in Candidates
    BY DEF AskerRecs, NotAsking
  <2>6. Knows(r)'
    BY <2>4, <2>5 DEF Knows, OnlyOnward
  <2> QED BY <2>3, <2>6 DEF Knows, Retired
<1>3. Knows(asker[a])'
  BY <1>1 DEF Knows, Retired
<1> QED BY <1>1, <1>2, <1>3 DEF AskerInv

LEMMA AskersStay ==
    ASSUME AskerInv, OnlyOnward, UNCHANGED asker
    PROVE  AskerInv'
<1>1. ASSUME NEW b \in Askers PROVE Knows(asker[b])'
  <2>1. asker[b] \in AskerRecs /\ Knows(asker[b])
    BY DEF AskerInv
  <2>2. PICK r \in AskerRecs : r = asker[b]
    BY <2>1
  <2>3. Knows(r) /\ (r.op # "none" => r.of \in Candidates)
    BY <2>1, <2>2 DEF AskerRecs, NotAsking
  <2>4. Knows(r)'
    BY <2>3 DEF Knows, OnlyOnward
  <2> QED BY <2>2, <2>4 DEF Knows, Retired
<1> QED BY <1>1 DEF AskerInv

LEMMA Stopped ==
    ASSUME AskerInv, OnlyOnward, NEW a \in Askers, Stops(a)
    PROVE  AskerInv'
<1>1. PICK rec : rec = NotAsking
  OBVIOUS
<1>2. rec \in AskerRecs /\ Knows(rec)'
  BY <1>1 DEF AskerRecs, NotAsking, Knows
<1> QED BY <1>1, <1>2, AskerMoves DEF Stops

-----------------------------------------------------------------------------
(* The steps of the evaluators *)

EvaluatorSteps(a) ==
    \/ \E c \in Candidates :
          \/ \E k \in Gates : ReserveEvaluation(a, c, k)
          \/ \E phase \in Phases : \E case \in CasesFor(c, phase) : ReserveRollout(a, c, phase, case)
    \/ \E passed \in BOOLEAN : EvaluationAnswers(a, passed) \/ RolloutAnswers(a, passed)
    \/ EvaluationFails(a)

LEMMA AskedOf ==
    ASSUME AskerInv, NEW a \in Askers, asker[a].op # "none"
    PROVE  /\ asker[a].of \in Candidates
           /\ asker[a].op = "evaluation" => asker[a].try \in Gates \X Nat
           /\ asker[a].op = "rollout" => asker[a].try \in Tries
<1>1. asker[a] \in AskerRecs
  BY DEF AskerInv
<1> QED BY <1>1 DEF AskerRecs, NotAsking

\* An evaluator's step changes a row, none of the registry, and leaves an asker that is well formed.
LEMMA EvaluatorStep ==
    ASSUME RowsInv, AskerInv, NEW a \in Askers, EvaluatorSteps(a)
    PROVE  /\ \E c \in Candidates : RowChanges(c)
           /\ UNCHANGED registryVars
           /\ \/ Stops(a)
              \/ \E rec \in AskerRecs : rec.op \in {"evaluation", "rollout"} /\ asker' = [asker EXCEPT ![a] = rec]
<1>1. ASSUME NEW c \in Candidates, NEW k \in Gates, ReserveEvaluation(a, c, k)
      PROVE  RowChanges(c) /\ \E rec \in AskerRecs : rec.op = "evaluation" /\ asker' = [asker EXCEPT ![a] = rec]
  <2>1. candidate[c] \in Rows /\ Earned(candidate[c])
    BY DEF RowsInv
  <2>2. PICK n \in Nat : n = candidate[c].tries + 1
    BY <2>1 DEF Rows
  <2>7. PICK E : E = {<<k, n>>}
    OBVIOUS
  <2>8. <<k, n>> \in Gates \X Nat
    OBVIOUS
  <2>9. E \in SUBSET (Gates \X Nat)
    BY <2>7, <2>8
  <2> DEFINE row == [candidate[c] EXCEPT !.tries = n, !.evaluating = E]
  <2>3. row \in Rows /\ Earned(row) /\ row.status = candidate[c].status
    BY <2>1, <2>9 DEF Rows, Earned, Ready
  <2>4. Becomes(c, row) /\ asker' = [asker EXCEPT ![a] = [op |-> "evaluation", of |-> c, try |-> <<k, n>>]]
    BY <1>1, <2>1, <2>2, <2>7 DEF ReserveEvaluation, Asks, Rows
  <2>5. RowChanges(c)
    BY <2>3, <2>4 DEF RowChanges, MayBecome
  <2>6. [op |-> "evaluation", of |-> c, try |-> <<k, n>>] \in AskerRecs
    BY DEF AskerRecs
  <2> QED BY <2>4, <2>5, <2>6
<1>2. ASSUME NEW c \in Candidates, NEW phase \in Phases, NEW case \in CasesFor(c, phase),
             ReserveRollout(a, c, phase, case)
      PROVE  RowChanges(c) /\ \E rec \in AskerRecs : rec.op = "rollout" /\ asker' = [asker EXCEPT ![a] = rec]
  <2>1. candidate[c] \in Rows /\ Earned(candidate[c])
    BY DEF RowsInv
  <2>2. case \in Nat /\ <<phase, case>> \in Tries
    BY <2>1 DEF CasesFor, Rows, Tries
  <2>3. candidate[c].status # "promoted"
    BY <1>2 DEF ReserveRollout, PhaseStatus
  <2> DEFINE row == [candidate[c] EXCEPT !.used = @ \cup {<<phase, case>>}, !.trying = {<<phase, case>>}]
  <2>4. row \in Rows /\ Earned(row) /\ row.status = candidate[c].status
    BY <2>1, <2>2, <2>3 DEF Rows, Earned, Ready
  <2>5. Becomes(c, row) /\ asker' = [asker EXCEPT ![a] = [op |-> "rollout", of |-> c, try |-> <<phase, case>>]]
    BY <1>2 DEF ReserveRollout, Asks
  <2>6. RowChanges(c)
    BY <2>4, <2>5 DEF RowChanges, MayBecome
  <2>7. [op |-> "rollout", of |-> c, try |-> <<phase, case>>] \in AskerRecs
    BY <2>2 DEF AskerRecs
  <2> QED BY <2>5, <2>6, <2>7
<1>3. ASSUME NEW passed \in BOOLEAN, EvaluationAnswers(a, passed) PROVE \E c \in Candidates : RowChanges(c)
  <2>1. asker[a].of \in Candidates /\ asker[a].try \in Gates \X Nat
    BY <1>3, AskedOf DEF EvaluationAnswers
  <2>2. PICK c \in Candidates : c = asker[a].of
    BY <2>1
  <2>3. PICK k \in Gates : k = asker[a].try[1]
    BY <2>1
  <2>4. SettlesGate(c, k, passed) \/ UNCHANGED candidate
    BY <1>3, <2>2, <2>3 DEF EvaluationAnswers
  <2> QED BY <2>4, SettledGate, RowStays
<1>4. ASSUME NEW passed \in BOOLEAN, RolloutAnswers(a, passed) PROVE \E c \in Candidates : RowChanges(c)
  <2>1. asker[a].of \in Candidates /\ asker[a].try \in Tries
    BY <1>4, AskedOf DEF RolloutAnswers
  <2>2. PICK c \in Candidates : c = asker[a].of
    BY <2>1
  <2>3. PICK try \in Tries : try = asker[a].try
    BY <2>1
  <2>4. SettlesRollout(c, try, passed) \/ UNCHANGED candidate
    BY <1>4, <2>2, <2>3 DEF RolloutAnswers
  <2> QED BY <2>4, SettledRollout, RowStays
<1>5. ASSUME EvaluationFails(a) PROVE \E c \in Candidates : RowChanges(c)
  <2>1. asker[a].of \in Candidates
    BY <1>5, AskedOf DEF EvaluationFails
  <2>2. PICK c \in Candidates : c = asker[a].of
    BY <2>1
  <2>3. PICK E : E = candidate[c].evaluating \ {asker[a].try}
    OBVIOUS
  <2>4. candidate[c] \in Rows /\ Earned(candidate[c])
    BY DEF RowsInv
  <2> DEFINE row == [candidate[c] EXCEPT !.evaluating = E]
  <2>5. row \in Rows /\ Earned(row) /\ row.status = candidate[c].status
    BY <2>3, <2>4 DEF Rows, Earned, Ready
  <2>6. Becomes(c, row)
    BY <1>5, <2>2, <2>3, <2>4 DEF EvaluationFails, Rows
  <2> QED BY <2>5, <2>6 DEF RowChanges, MayBecome
<1>6. UNCHANGED registryVars
  BY DEF EvaluatorSteps, ReserveEvaluation, ReserveRollout, EvaluationAnswers, RolloutAnswers,
     EvaluationFails
<1>7. CASE EvaluationFails(a) \/ \E passed \in BOOLEAN : EvaluationAnswers(a, passed) \/ RolloutAnswers(a, passed)
  <2>1. Stops(a)
    BY <1>7 DEF EvaluationAnswers, RolloutAnswers, EvaluationFails
  <2> QED BY <1>3, <1>4, <1>5, <1>6, <1>7, <2>1
<1> QED BY <1>1, <1>2, <1>6, <1>7 DEF EvaluatorSteps

-----------------------------------------------------------------------------
(* The nearest release that is not revoked *)

\* A set of numbers that is not empty has a least one.
LEMMA LeastNumber ==
    ASSUME NEW S, S \subseteq Nat, S # {}
    PROVE  \E t \in S : \A u \in S : t <= u
<1> DEFINE R == OpToRel(<, Nat)
<1>1. PICK t \in S : \A u \in S : ~ (<<u, t>> \in R)
  <2>1. IsWellFoundedOn(R, Nat)
    BY NatLessThanWellFounded
  <2> HIDE DEF R
  <2> QED BY <2>1, WFMin
<1>2. ASSUME NEW u \in S PROVE t <= u
  <2>1. ~ (u < t)
    BY <1>1 DEF OpToRel
  <2> QED BY <2>1
<1> QED BY <1>2

\* Where the releases under d that are out lead to: the version x, not out, such that d is in
\* every set that has x and the revoked candidates proposed against its members.
Under(S, x, out) == x \in S /\ \A y \in Candidates \cap out : BaseOf[y] \in S => y \in S
LeadsTo(d, out) ==
    {x \in Versions : (x = Baseline \/ x \notin out)
                      /\ \A S \in SUBSET Versions : Under(S, x, out) => d \in S}
Stands(d, out) == d = Baseline \/ d \notin out

LEMMA LeadsToItself ==
    ASSUME EvolutionAssumption, NEW d \in Versions, NEW out, Stands(d, out)
    PROVE  LeadsTo(d, out) = {d}
<1>1. d \in LeadsTo(d, out)
  BY DEF LeadsTo, Under, Stands
<1>2. ASSUME NEW x \in LeadsTo(d, out), x # d PROVE FALSE
  <2>1. Versions \ {d} \in SUBSET Versions
    OBVIOUS
  <2>2. Under(Versions \ {d}, x, out)
    BY <1>2 DEF LeadsTo, Under, Stands, Versions, EvolutionAssumption
  <2>3. d \in Versions \ {d}
    BY <1>2, <2>1, <2>2 DEF LeadsTo
  <2> QED BY <2>3
<1> QED BY <1>1, <1>2

LEMMA LeadsOn ==
    ASSUME EvolutionAssumption, NEW d \in Versions, NEW out, ~Stands(d, out)
    PROVE  BaseOf[d] \in Versions /\ LeadsTo(d, out) = LeadsTo(BaseOf[d], out)
<1>1. d \in Candidates \cap out /\ BaseOf[d] \in Versions
  BY DEF Stands, Versions, EvolutionAssumption
<1>2. ASSUME NEW x \in LeadsTo(BaseOf[d], out) PROVE x \in LeadsTo(d, out)
  BY <1>1, <1>2 DEF LeadsTo, Under
<1>3. ASSUME NEW x \in LeadsTo(d, out), NEW S \in SUBSET Versions, Under(S, x, out) PROVE BaseOf[d] \in S
  <2> DEFINE T == {y \in S : y \in Candidates \cap out => BaseOf[y] \in S}
  <2>1. x = Baseline \/ x \notin out
    BY <1>3 DEF LeadsTo
  <2>2. Under(T, x, out)
    BY <1>3, <2>1 DEF Under, EvolutionAssumption
  <2>3. T \in SUBSET Versions
    OBVIOUS
  <2> HIDE DEF T
  <2>4. d \in T
    BY <1>3, <2>2, <2>3 DEF LeadsTo
  <2> QED BY <1>1, <2>4 DEF T
<1>4. ASSUME NEW x \in LeadsTo(d, out) PROVE x \in LeadsTo(BaseOf[d], out)
  BY <1>3, <1>4 DEF LeadsTo
<1> QED BY <1>1, <1>2, <1>4

\* The recursive function of Predecessor.
Kept(out) ==
    CHOOSE kept : kept = [d \in Candidates \cup {Baseline} |->
                            IF d = Baseline \/ d \notin out THEN d ELSE kept[BaseOf[d]]]

LEMMA KeptUnfolds ==
    ASSUME EvolutionAssumption, NEW out
    PROVE  \A d \in Versions : Kept(out)[d] = IF Stands(d, out) THEN d ELSE Kept(out)[BaseOf[d]]
<1> DEFINE Pick(S) == CHOOSE x : x \in S
<1> DEFINE f == [d \in Versions |-> Pick(LeadsTo(d, out))]
<1> HIDE DEF Pick
<1>1. ASSUME NEW d \in Versions PROVE f[d] = IF Stands(d, out) THEN d ELSE f[BaseOf[d]]
  <2>1. CASE Stands(d, out)
    <3>1. LeadsTo(d, out) = {d}
      BY <2>1, LeadsToItself
    <3>2. Pick({d}) = d
      BY DEF Pick
    <3> QED BY <2>1, <3>1, <3>2
  <2>2. CASE ~Stands(d, out)
    BY <2>2, LeadsOn
  <2> QED BY <2>1, <2>2
<1>2. f = [d \in Versions |-> f[d]]
  OBVIOUS
<1> HIDE DEF f
<1>3. f = [d \in Versions |-> IF Stands(d, out) THEN d ELSE f[BaseOf[d]]]
  BY <1>1, <1>2
<1> DEFINE Fits(kept) == kept = [d \in Versions |-> IF Stands(d, out) THEN d ELSE kept[BaseOf[d]]]
<1>4. Kept(out) = CHOOSE kept : Fits(kept)
  BY DEF Kept, Versions, Stands
<1>5. Fits(f)
  BY <1>3
<1> HIDE DEF Fits
<1>6. Fits(Kept(out))
  BY <1>4, <1>5
<1> QED BY <1>6 DEF Fits

LEMMA PredecessorIsKept ==
    ASSUME NEW c, NEW out
    PROVE  Predecessor(c, out) = Kept(out)[BaseOf[c]]
BY DEF Predecessor, Kept

\* The release under c that stands is older than c.
LEMMA PredecessorStands ==
    ASSUME EvolutionAssumption, RegistryInv, NEW c \in released
    PROVE  Predecessor(c, revoked) \in ((released \ revoked) \cup {Baseline}) \ {c}
<1>1. PICK rank : Generation(rank)
  BY DEF RegistryInv
<1> DEFINE Old(d) == /\ Kept(revoked)[d] \in (released \ revoked) \cup {Baseline}
                     /\ rank[Kept(revoked)[d]] <= rank[d]
<1> DEFINE Bad == {d \in released \cup {Baseline} : ~Old(d)}
<1>2. released \cup {Baseline} \subseteq Versions
  BY DEF RegistryInv, Versions
<1>3. \A d \in Versions : rank[d] \in Nat
  BY <1>1 DEF Generation
<1>4. Bad = {}
  <2> SUFFICES ASSUME Bad # {} PROVE FALSE
    OBVIOUS
  <2>1. {rank[d] : d \in Bad} \subseteq Nat /\ {rank[d] : d \in Bad} # {}
    BY <1>2, <1>3
  <2>2. PICK t \in {rank[d] : d \in Bad} : \A u \in {rank[d] : d \in Bad} : t <= u
    BY <2>1, LeastNumber
  <2>3. PICK d \in Bad : t = rank[d]
    OBVIOUS
  <2>4. d \in Versions /\ Kept(revoked)[d] = IF Stands(d, revoked) THEN d ELSE Kept(revoked)[BaseOf[d]]
    BY <1>2, KeptUnfolds
  <2>5. CASE Stands(d, revoked)
    BY <1>3, <2>4, <2>5 DEF Stands
  <2>6. CASE ~Stands(d, revoked)
    <3>1. d \in released /\ BaseOf[d] \in released \cup {Baseline} /\ rank[BaseOf[d]] < rank[d]
      BY <1>1, <2>6 DEF Generation, Stands
    <3>2. BaseOf[d] \notin Bad
      <4> SUFFICES ASSUME BaseOf[d] \in Bad PROVE FALSE
        OBVIOUS
      <4>1. t <= rank[BaseOf[d]]
        BY <2>2
      <4> HIDE DEF Bad
      <4> QED BY <1>2, <1>3, <2>3, <2>4, <3>1, <4>1
    <3>3. Old(BaseOf[d])
      BY <3>1, <3>2
    <3>4. Kept(revoked)[d] = Kept(revoked)[BaseOf[d]]
      BY <2>4, <2>6
    <3> QED BY <1>2, <1>3, <2>4, <3>1, <3>3, <3>4
  <2> QED BY <2>5, <2>6
<1>5. BaseOf[c] \in released \cup {Baseline} /\ rank[BaseOf[c]] < rank[c]
  BY <1>1 DEF Generation
<1>6. Old(BaseOf[c])
  BY <1>4, <1>5
<1>7. Predecessor(c, revoked) = Kept(revoked)[BaseOf[c]]
  BY PredecessorIsKept
<1> HIDE DEF Bad
<1> QED BY <1>2, <1>3, <1>5, <1>6, <1>7

-----------------------------------------------------------------------------
(* The registry *)

\* A row change leaves the releases as they were.
LEMMA RegistryKept ==
    ASSUME RowsInv, RegistryInv, RouteInv, UNCHANGED registryVars,
           \A c \in Candidates : candidate[c].status = "promoted" => candidate'[c].status = "promoted"
    PROVE  RegistryInv' /\ RouteInv' /\ OnlyOnward
<1>1. OnlyOnward
  BY DEF OnlyOnward, Retired, registryVars
<1>2. \E rank : Generation(rank)'
  BY DEF RegistryInv, Generation, registryVars
<1>3. RegistryInv'
  BY <1>2 DEF RegistryInv, registryVars
<1>4. RouteInv'
  BY DEF RouteInv, registryVars
<1> QED BY <1>1, <1>3, <1>4

LEMMA ActivateKeeps ==
    ASSUME EvolutionAssumption, EvolutionInv, NEW a \in Askers, Activate(a)
    PROVE  EvolutionInv'
<1> USE DEF EvolutionInv
<1>1. asker[a].of \in Candidates /\ Knows(asker[a])
  BY AskedOf DEF Activate, AskerInv
<1>2. PICK c \in Candidates : c = asker[a].of
  BY <1>1
<1>3. Retired(c)
  BY <1>1, <1>2 DEF Knows, Activate
<1>4. candidate' = candidate /\ revoked' = revoked /\ Stops(a)
  BY DEF Activate
<1>5. RowsInv'
  BY <1>4 DEF RowsInv, Earned, Ready
<1>6. OnlyOnward
  BY <1>4 DEF OnlyOnward, Retired
<1>7. AskerInv'
  BY <1>4, <1>6, Stopped
<1>8. CASE UNCHANGED <<active, released, route>>
  BY <1>4, <1>5, <1>7, <1>8, RegistryKept DEF registryVars
<1>9. CASE Activatable(c) /\ active' = c /\ released' = released \cup {c} /\ route' = NoRoute
  <2>1. candidate[c].status = "promoted" /\ c \notin released /\ c \notin revoked /\ BaseOf[c] = active
    BY <1>3, <1>9 DEF Retired, Activatable
  <2>2. PICK rank : Generation(rank)
    BY DEF RegistryInv
  <2>3. PICK next : next = [rank EXCEPT ![c] = rank[active] + 1]
    OBVIOUS
  <2>4. active \in Versions /\ active # c /\ Baseline # c
    BY <2>1 DEF RegistryInv, Versions, EvolutionAssumption
  <2>5. next \in [Versions -> Nat] /\ next[c] = rank[active] + 1 /\ \A d \in Versions \ {c} : next[d] = rank[d]
    BY <2>2, <2>3, <2>4 DEF Generation, Versions
  <2>6. ASSUME NEW d \in released PROVE BaseOf[d] \in released' \cup {Baseline} /\ next[BaseOf[d]] < next[d]
    BY <1>9, <2>1, <2>2, <2>4, <2>5 DEF Generation, RegistryInv, Versions
  <2>7. BaseOf[c] \in released' \cup {Baseline} /\ next[BaseOf[c]] < next[c]
    <3>1. next[active] = rank[active] /\ rank[active] \in Nat
      BY <2>2, <2>4, <2>5 DEF Generation
    <3> QED BY <1>9, <2>1, <2>5, <3>1 DEF RegistryInv
  <2>8. Generation(next)'
    BY <1>9, <2>5, <2>6, <2>7 DEF Generation
  <2>9. RegistryInv'
    BY <1>4, <1>9, <2>1, <2>8 DEF RegistryInv
  <2>10. RouteInv'
    BY <1>9 DEF RouteInv
  <2> QED BY <1>5, <1>7, <2>9, <2>10
<1> QED BY <1>2, <1>8, <1>9 DEF Activate

LEMMA RevokeKeeps ==
    ASSUME EvolutionAssumption, EvolutionInv, NEW a \in Askers, RevokeRelease(a)
    PROVE  EvolutionInv'
<1> USE DEF EvolutionInv
<1>1. asker[a].of \in Candidates
  BY AskedOf DEF RevokeRelease
<1>2. PICK c \in Candidates : c = asker[a].of
  BY <1>1
<1>3. candidate' = candidate /\ released' = released /\ revoked' = revoked \cup {c}
  BY <1>2 DEF RevokeRelease
<1>4. OnlyOnward
  BY <1>3 DEF OnlyOnward, Retired
<1>5. AskerInv'
  <2>1. PICK rec : rec = [op |-> "revoked", of |-> c]
    OBVIOUS
  <2>2. rec \in AskerRecs /\ rec.op = "revoked" /\ rec.of = c
    BY <2>1 DEF AskerRecs
  <2>3. Knows(rec)'
    BY <1>3, <2>2 DEF Knows
  <2>4. asker' = [asker EXCEPT ![a] = rec]
    BY <1>2, <2>1 DEF RevokeRelease
  <2> QED BY <1>4, <2>2, <2>3, <2>4, AskerMoves
<1>6. RowsInv'
  BY <1>3 DEF RowsInv, Earned, Ready
<1>7. \E rank : Generation(rank)'
  BY <1>3 DEF RegistryInv, Generation
<1>8. active' \in (released' \ revoked') \cup {Baseline}
  <2>1. CASE c \in revoked
    BY <1>2, <1>3, <2>1 DEF RevokeRelease, RegistryInv
  <2>2. CASE c \notin revoked /\ active # c
    BY <1>2, <1>3, <2>2 DEF RevokeRelease, RegistryInv
  <2>3. CASE c \notin revoked /\ active = c
    <3>1. c \in released
      BY <2>3 DEF RegistryInv, EvolutionAssumption
    <3>2. active' = Predecessor(c, revoked)
      BY <1>2, <2>3 DEF RevokeRelease
    <3> QED BY <1>3, <3>1, <3>2, PredecessorStands
  <2> QED BY <2>1, <2>2, <2>3
<1>9. RegistryInv'
  BY <1>3, <1>7, <1>8 DEF RegistryInv
<1>10. RouteInv'
  <2>1. CASE c \in revoked
    BY <1>2, <1>3, <2>1 DEF RevokeRelease, RouteInv
  <2>2. CASE c \notin revoked /\ c \in {route.candidate, route.base}
    BY <1>2, <2>2 DEF RevokeRelease, RouteInv
  <2>3. CASE c \notin revoked /\ c \notin {route.candidate, route.base}
    <3>1. route' = route /\ (route # NoRoute => active' = active)
      BY <1>2, <2>3 DEF RevokeRelease, RouteInv
    <3> QED BY <1>3, <2>3, <3>1 DEF RouteInv
  <2> QED BY <2>1, <2>2, <2>3
<1> QED BY <1>5, <1>6, <1>9, <1>10

LEMMA FinishKeeps ==
    ASSUME EvolutionAssumption, EvolutionInv, NEW a \in Askers, FinishRollback(a)
    PROVE  EvolutionInv'
<1> USE DEF EvolutionInv
<1>1. asker[a].of \in Candidates /\ Knows(asker[a])
  BY AskedOf DEF FinishRollback, AskerInv
<1>2. PICK c \in Candidates : c = asker[a].of
  BY <1>1
<1>3. c \in revoked /\ UNCHANGED registryVars /\ Stops(a)
  BY <1>1, <1>2 DEF FinishRollback, Knows
<1>4. candidate' = candidate \/ Becomes(c, [candidate[c] EXCEPT !.status = "rolled_back"])
  BY <1>2 DEF FinishRollback
<1>5. PICK row \in Rows : Earned(row) /\ row = [candidate[c] EXCEPT !.status = "rolled_back"]
  <2>1. [candidate[c] EXCEPT !.status = "rolled_back"] \in Rows
        /\ [candidate[c] EXCEPT !.status = "rolled_back"].status = "rolled_back"
    <3>1. candidate[c] \in Rows /\ "rolled_back" \in RowStatuses
      BY DEF RowsInv, RowStatuses
    <3> QED BY <3>1, WithStatus
  <2> QED BY <2>1 DEF Earned
<1>6. \A d \in Candidates : candidate'[d] = candidate[d] \/ (d = c /\ candidate'[d] = row)
  BY <1>4, <1>5 DEF Becomes, RowsInv
<1>7. candidate' \in [Candidates -> Rows]
  BY <1>4, <1>5 DEF Becomes, RowsInv
<1>8. RowsInv'
  <2>1. ASSUME NEW d \in Candidates PROVE Earned(candidate[d])'
    <3>1. CASE candidate'[d] = candidate[d]
      BY <3>1 DEF RowsInv, Earned, Ready
    <3>2. CASE candidate'[d] = row
      BY <1>5, <3>2 DEF Earned, Ready
    <3> QED BY <1>6, <3>1, <3>2
  <2> QED BY <1>7, <2>1 DEF RowsInv
<1>9. OnlyOnward
  BY <1>3, <1>6 DEF OnlyOnward, Retired, registryVars
<1>10. AskerInv'
  BY <1>3, <1>9, Stopped
<1>11. \E rank : Generation(rank)'
  BY <1>3 DEF RegistryInv, Generation, registryVars
<1>12. RegistryInv'
  BY <1>3, <1>6, <1>11 DEF RegistryInv, registryVars
<1>13. RouteInv'
  BY <1>3, <1>6 DEF RouteInv, registryVars
<1> QED BY <1>8, <1>10, <1>12, <1>13

\* The steps by which a candidate or the route is read, to be acted upon later.
Reads(a) ==
    \/ \E c \in Candidates : ReadForActivation(a, c) \/ CheckRollback(a, c) \/ ReadForTraffic(a, c)
    \/ ReadForResume(a)

LEMMA ReadKeeps ==
    ASSUME EvolutionAssumption, EvolutionInv, NEW a \in Askers, Reads(a)
    PROVE  EvolutionInv'
<1> USE DEF EvolutionInv
<1>1. UNCHANGED <<candidate, registryVars>>
  BY DEF Reads, ReadForActivation, CheckRollback, ReadForTraffic, ReadForResume
<1>2. OnlyOnward
  BY <1>1 DEF OnlyOnward, Retired, registryVars
<1>3. RowsInv'
  BY <1>1 DEF RowsInv, Earned, Ready
<1>4. RegistryInv' /\ RouteInv'
  BY <1>1, RegistryKept
<1>5. \E rec \in AskerRecs : Knows(rec) /\ asker' = [asker EXCEPT ![a] = rec]
  <2>1. ASSUME NEW c \in Candidates, ReadForActivation(a, c)
        PROVE  \E rec \in AskerRecs : Knows(rec) /\ asker' = [asker EXCEPT ![a] = rec]
    <3>1. PICK rec : rec = [op |-> "activate", of |-> c]
      OBVIOUS
    <3>2. rec \in AskerRecs /\ Knows(rec)
      BY <2>1, <3>1 DEF AskerRecs, Knows, ReadForActivation, Retired
    <3> QED BY <2>1, <3>1, <3>2 DEF ReadForActivation, Asks
  <2>2. ASSUME NEW c \in Candidates, CheckRollback(a, c)
        PROVE  \E rec \in AskerRecs : Knows(rec) /\ asker' = [asker EXCEPT ![a] = rec]
    <3>1. PICK rec : rec = [op |-> "rollback", of |-> c]
      OBVIOUS
    <3>2. rec \in AskerRecs /\ Knows(rec)
      BY <3>1 DEF AskerRecs, Knows
    <3> QED BY <2>2, <3>1, <3>2 DEF CheckRollback, Asks
  <2>3. ASSUME NEW c \in Candidates, ReadForTraffic(a, c)
        PROVE  \E rec \in AskerRecs : Knows(rec) /\ asker' = [asker EXCEPT ![a] = rec]
    <3>1. PICK base : base = active
      OBVIOUS
    <3>2. base \in Versions
      BY <3>1 DEF RegistryInv, Versions
    <3>3. PICK rec : rec = [op |-> "traffic", of |-> c, base |-> base]
      OBVIOUS
    <3>4. rec.op = "traffic" /\ rec.of = c /\ rec.base = base /\ rec \in AskerRecs
      BY <3>2, <3>3 DEF AskerRecs
    <3>5. Knows(rec)
      BY <2>3, <3>1, <3>4 DEF Knows, ReadForTraffic, Retired
    <3> QED BY <2>3, <3>1, <3>3, <3>4, <3>5 DEF ReadForTraffic, Asks
  <2>4. ASSUME ReadForResume(a)
        PROVE  \E rec \in AskerRecs : Knows(rec) /\ asker' = [asker EXCEPT ![a] = rec]
    <3>1. PICK c \in Candidates : c = route.candidate
      BY <2>4 DEF ReadForResume, RouteInv, NoRoute
    <3>2. PICK rec : rec = [op |-> "resume", of |-> c]
      OBVIOUS
    <3>3. rec \in AskerRecs /\ Knows(rec)
      BY <3>2 DEF AskerRecs, Knows
    <3> QED BY <2>4, <3>1, <3>2, <3>3 DEF ReadForResume, Asks
  <2> QED BY <2>1, <2>2, <2>3, <2>4 DEF Reads
<1>6. PICK rec \in AskerRecs : Knows(rec) /\ asker' = [asker EXCEPT ![a] = rec]
  BY <1>5
<1>7. Knows(rec)'
  BY <1>1, <1>6 DEF Knows, Retired, registryVars
<1>8. AskerInv'
  BY <1>2, <1>6, <1>7, AskerMoves
<1> QED BY <1>3, <1>4, <1>8

\* The steps that only move the route.
RouteSteps ==
    \/ PauseTraffic \/ StopTraffic
    \/ \E a \in Askers : StartTraffic(a) \/ ResumeTraffic(a)

LEMMA RouteStepKeeps ==
    ASSUME EvolutionAssumption, EvolutionInv, RouteSteps
    PROVE  EvolutionInv'
<1> USE DEF EvolutionInv
<1>1. UNCHANGED <<candidate, active, released, revoked>>
  BY DEF RouteSteps, PauseTraffic, StopTraffic, StartTraffic, ResumeTraffic
<1>2. OnlyOnward
  BY <1>1 DEF OnlyOnward, Retired
<1>3. RowsInv'
  BY <1>1 DEF RowsInv, Earned, Ready
<1>4. AskerInv'
  <2>1. UNCHANGED asker \/ \E a \in Askers : Stops(a)
    BY DEF RouteSteps, PauseTraffic, StopTraffic, StartTraffic, ResumeTraffic, askerVars
  <2> QED BY <1>2, <2>1, Stopped, AskersStay
<1>5. \E rank : Generation(rank)'
  BY <1>1 DEF RegistryInv, Generation
<1>6. RegistryInv'
  BY <1>1, <1>5 DEF RegistryInv
<1>7. RouteInv'
  <2>1. CASE PauseTraffic
    BY <1>1, <2>1 DEF PauseTraffic, RouteInv, NoRoute
  <2>2. CASE StopTraffic
    BY <2>2 DEF StopTraffic, RouteInv
  <2>3. ASSUME NEW a \in Askers, StartTraffic(a) PROVE RouteInv'
    <3>1. asker[a].of \in Candidates /\ Knows(asker[a]) /\ asker[a].op = "traffic" /\ asker[a] \in AskerRecs
      BY <2>3, AskedOf DEF StartTraffic, AskerInv
    <3>2. PICK c \in Candidates : c = asker[a].of
      BY <3>1
    <3>3. PICK base : base = asker[a].base
      OBVIOUS
    <3>4. base \in Versions /\ BaseOf[c] = base /\ Retired(c)
      BY <3>1, <3>2, <3>3 DEF Knows, AskerRecs, NotAsking
    <3>5. route' = route \/ (BaseStands(c, base) /\ route' = [candidate |-> c, base |-> base, status |-> "active"])
      BY <2>3, <3>2, <3>3 DEF StartTraffic
    <3> QED BY <1>1, <3>4, <3>5 DEF RouteInv, BaseStands, Retired
  <2>4. ASSUME NEW a \in Askers, ResumeTraffic(a) PROVE RouteInv'
    <3>1. route' = route \/ (route.status = "paused" /\ route' = [route EXCEPT !.status = "active"])
      BY <2>4 DEF ResumeTraffic
    <3> QED BY <1>1, <3>1 DEF RouteInv, NoRoute
  <2> QED BY <2>1, <2>2, <2>3, <2>4 DEF RouteSteps
<1> QED BY <1>3, <1>4, <1>6, <1>7

-----------------------------------------------------------------------------
(* The invariant holds *)

LEMMA EvolutionStarts ==
    ASSUME EvolutionAssumption, EvolutionInit
    PROVE  EvolutionInv
<1>1. FreshCandidate \in Rows /\ FreshCandidate.status = "absent"
  BY DEF FreshCandidate, Rows, RowStatuses
<1>2. PICK row : row = [FreshCandidate EXCEPT !.status = "promoted", !.gate = [k \in Gates |-> "passed"]]
  OBVIOUS
<1>3. row \in Rows /\ row.status = "promoted" /\ row.trying = {} /\ row.required = 1
      /\ row.gate = [k \in Gates |-> "passed"]
  <2>1. PICK gate : gate = [k \in Gates |-> "passed"]
    OBVIOUS
  <2>2. PICK passed : passed = [FreshCandidate EXCEPT !.gate = gate]
    OBVIOUS
  <2>3. gate \in [Gates -> {"none", "passed", "failed"}]
    BY <2>1
  <2>4. passed \in Rows /\ passed.gate = gate /\ passed.required = 1 /\ passed.trying = {}
    BY <1>1, <2>2, <2>3, WithGate DEF FreshCandidate
  <2>5. row = [passed EXCEPT !.status = "promoted"]
    BY <1>2, <2>1, <2>2 DEF FreshCandidate
  <2>6. "promoted" \in RowStatuses
    BY DEF RowStatuses
  <2> QED BY <2>1, <2>4, <2>5, <2>6, WithStatus
<1>4. Earned(row) /\ Earned(FreshCandidate)
  BY <1>1, <1>3 DEF Earned
<1>5. \A c \in Candidates : candidate[c] = IF c = Shipped THEN row ELSE FreshCandidate
  BY <1>2 DEF EvolutionInit
<1>6. candidate \in [Candidates -> Rows]
  BY <1>1, <1>2, <1>3 DEF EvolutionInit
<1>7. RowsInv
  BY <1>4, <1>5, <1>6 DEF RowsInv
<1>8. AskerInv
  BY DEF EvolutionInit, AskerInv, AskerRecs, NotAsking, Knows
<1>9. RegistryInv
  <2>1. PICK rank : rank = [c \in Versions |-> IF c = Shipped THEN 1 ELSE 0]
    OBVIOUS
  <2>2. Generation(rank)
    BY <2>1 DEF Generation, EvolutionInit, EvolutionAssumption, Versions
  <2> QED BY <1>3, <1>5, <2>2 DEF RegistryInv, EvolutionInit, EvolutionAssumption
<1>10. RouteInv
  BY DEF RouteInv, EvolutionInit
<1> QED BY <1>7, <1>8, <1>9, <1>10 DEF EvolutionInv

LEMMA EvolutionInvHolds ==
    ASSUME EvolutionAssumption
    PROVE  EvolutionSpec => []EvolutionInv
<1>1. EvolutionInit => EvolutionInv
  BY EvolutionStarts
<1>2. EvolutionInv /\ [EvolutionNext]_evolutionVars => EvolutionInv'
  <2> SUFFICES ASSUME EvolutionInv, [EvolutionNext]_evolutionVars PROVE EvolutionInv'
    OBVIOUS
  <2> USE EvolutionAssumption
  <2>1. ASSUME NEW c \in Candidates, OwnSteps(c) PROVE EvolutionInv'
    <3>1. RowChanges(c)
      BY <2>1, OwnStepChangesRow DEF EvolutionInv
    <3>2. RowsInv' /\ \A d \in Candidates : candidate[d].status = "promoted" => candidate'[d].status = "promoted"
      BY <3>1, OneRow DEF EvolutionInv
    <3>3. UNCHANGED <<registryVars, askerVars>>
      BY <2>1
      DEF OwnSteps, Propose, Approve, StartShadow, StartCanary, Promote, Reject, EvaluateGate,
                  RecordObservation, ReconcileEvaluation, ReconcileRollout
    <3>4. RegistryInv' /\ RouteInv' /\ OnlyOnward
      BY <3>2, <3>3, RegistryKept DEF EvolutionInv
    <3>5. AskerInv'
      BY <3>3, <3>4, AskersStay DEF EvolutionInv, askerVars
    <3> QED BY <3>2, <3>4, <3>5 DEF EvolutionInv
  <2>2. ASSUME NEW a \in Askers, EvaluatorSteps(a) PROVE EvolutionInv'
    <3>1. /\ \E c \in Candidates : RowChanges(c)
          /\ UNCHANGED registryVars
          /\ \/ Stops(a)
             \/ \E rec \in AskerRecs : rec.op \in {"evaluation", "rollout"} /\ asker' = [asker EXCEPT ![a] = rec]
      BY <2>2, EvaluatorStep DEF EvolutionInv
    <3>2. RowsInv' /\ \A d \in Candidates : candidate[d].status = "promoted" => candidate'[d].status = "promoted"
      BY <3>1, OneRow DEF EvolutionInv
    <3>3. RegistryInv' /\ RouteInv' /\ OnlyOnward
      BY <3>1, <3>2, RegistryKept DEF EvolutionInv
    <3>4. CASE Stops(a)
      BY <3>2, <3>3, <3>4, Stopped DEF EvolutionInv
    <3>5. ASSUME NEW rec \in AskerRecs, rec.op \in {"evaluation", "rollout"}, asker' = [asker EXCEPT ![a] = rec]
          PROVE  EvolutionInv'
      <4>1. Knows(rec)'
        BY <3>5 DEF Knows
      <4> QED BY <3>2, <3>3, <3>5, <4>1, AskerMoves DEF EvolutionInv
    <3> QED BY <3>1, <3>4, <3>5
  <2>3. ASSUME NEW a \in Askers, Reads(a) PROVE EvolutionInv'
    BY <2>3, ReadKeeps
  <2>4. ASSUME NEW a \in Askers, Activate(a) \/ RevokeRelease(a) \/ FinishRollback(a) PROVE EvolutionInv'
    BY <2>4, ActivateKeeps, RevokeKeeps, FinishKeeps
  <2>5. CASE RouteSteps
    BY <2>5, RouteStepKeeps
  <2>6. CASE UNCHANGED evolutionVars
    <3>1. UNCHANGED <<candidate, active, released, revoked, route, asker>>
      BY <2>6 DEF evolutionVars
    <3>2. RowsInv'
      BY <3>1 DEF EvolutionInv, RowsInv, Earned, Ready
    <3>3. RegistryInv' /\ RouteInv' /\ OnlyOnward
      BY <3>1, RegistryKept DEF EvolutionInv, registryVars
    <3>4. AskerInv'
      BY <3>1, <3>3, AskersStay DEF EvolutionInv
    <3> QED BY <3>2, <3>3, <3>4 DEF EvolutionInv
  <2> QED BY <2>1, <2>2, <2>3, <2>4, <2>5, <2>6
          DEF EvolutionNext, OwnSteps, EvaluatorSteps, Reads, RouteSteps
<1> QED BY <1>1, <1>2, PTL DEF EvolutionSpec

-----------------------------------------------------------------------------
\* Whatever the order of activations, rollbacks and traffic canaries, each of which acts on what it
\* has read earlier, the active release and the candidate of a canary are promoted and not revoked,
\* and a canary runs beside its base (EvolutionActivationRegistry, evolution-activation.ts).
THEOREM OnlyPromotedServe ==
    ASSUME EvolutionAssumption
    PROVE  EvolutionSpec => []ServedIsPromoted
<1>1. EvolutionInv => ServedIsPromoted
  <2> SUFFICES ASSUME EvolutionInv PROVE ServedIsPromoted
    OBVIOUS
  <2>1. active # Baseline => candidate[active].status = "promoted" /\ active \notin revoked
    BY DEF EvolutionInv, RegistryInv
  <2>2. route # NoRoute => /\ candidate[route.candidate].status = "promoted" /\ route.candidate \notin revoked
                           /\ active = route.base /\ BaseOf[route.candidate] = route.base
    BY DEF EvolutionInv, RouteInv
  <2> QED BY <2>1, <2>2 DEF ServedIsPromoted
<1> QED BY <1>1, EvolutionInvHolds, PTL

\* However late the answers of the evaluators come, a promoted candidate has passed every gate, has
\* none of its observations under way and has shown what its canary needs (EvolutionEngine.promote).
THEOREM PromotionIsEarned ==
    ASSUME EvolutionAssumption
    PROVE  EvolutionSpec => []PromotionEarned
<1>1. EvolutionInv => PromotionEarned
  BY DEF EvolutionInv, RowsInv, Earned, PromotionEarned, Ready, RolloutReady, LowRisk
<1> QED BY <1>1, EvolutionInvHolds, PTL

-----------------------------------------------------------------------------
(* The scan of the Runs *)

Cursors == [afterId : Nat, throughId : Nat, resume : [run : Nat, offset : Int, endOffset : Nat]]
Events == RunIds \X Nat

Batches == [pc : {"idle", "reading", "attempting", "commit"}, revision : Nat, previous : Cursors, next : Cursors,
            page : SUBSET RunIds, sizes : [RunIds -> Nat], done : BOOLEAN,
            entries : SUBSET (RunIds \X Int), from : SUBSET Events]

\* The events a sweep must hand to the pump if it ends with this batch.
OwedBy(b) == IF b.previous = FreshCursor THEN b.from ELSE owed

\* Events that are recorded.
Exist(E) == E \subseteq Events /\ \A r \in RunIds, s \in Nat : <<r, s>> \in E => 1 <= s /\ s <= lastSeq[r]

\* Every event of E behind the cursor is in A.
Behind(c, r, s) == r <= c.afterId \/ (r = c.resume.run /\ s <= c.resume.offset)
Covered(E, c, A) == \A r \in RunIds, s \in Nat : <<r, s>> \in E /\ Behind(c, r, s) => <<r, s>> \in A

\* No event of E is out of the reach of a sweep that has come to the cursor.
Reaches(c, E) ==
    \A r \in RunIds, s \in Nat : <<r, s>> \in E =>
        r <= c.throughId /\ (r = c.resume.run => s <= c.resume.endOffset)

ScanTyped ==
    /\ lastSeq \in [RunIds -> Int] /\ \A r \in RunIds : lastSeq[r] >= -1
    /\ checkpoint \in [revision : Nat, cursor : Cursors]
    /\ batch \in [ScanWorkers -> Batches]

CheckpointInv ==
    /\ Exist(owed)
    /\ checkpoint.cursor # FreshCursor =>
          Covered(owed, checkpoint.cursor, attempted) /\ Reaches(checkpoint.cursor, owed)

\* The Runs still to be read are the page, and those behind it when it is not the last.
PageInv(b) ==
    /\ \A r \in b.page : r > b.next.afterId
    /\ \A r \in RunIds, s \in Nat : <<r, s>> \in OwedBy(b) /\ r > b.next.afterId =>
          r \in b.page \/ (~b.done /\ \A q \in b.page : q < r)
    /\ \A r \in b.page, s \in Nat : <<r, s>> \in OwedBy(b) => s <= b.sizes[r]
    /\ b.page # {} \/ ~b.done => b.next.throughId # NoRun

\* What a batch that is read to its end has seen, with what was attempted before.
Ends(b, A) ==
    IF b.next = FreshCursor THEN OwedBy(b) \subseteq A
    ELSE Covered(OwedBy(b), b.next, A) /\ Reaches(b.next, OwedBy(b))

SweepInv(b) ==
    /\ b.previous = checkpoint.cursor
    /\ Exist(OwedBy(b))
    /\ b.pc = "reading" => /\ Covered(OwedBy(b), b.next, attempted \cup b.entries)
                           /\ Reaches(b.next, OwedBy(b))
                           /\ PageInv(b)
    /\ b.pc = "attempting" => Ends(b, attempted \cup b.entries)
    /\ b.pc = "commit" => Ends(b, attempted)

\* A batch read from an older checkpoint will not be committed.
BatchInv(b) ==
    b.pc # "idle" =>
        /\ b.revision <= checkpoint.revision
        /\ IsFiniteSet(b.entries)
        /\ b.revision = checkpoint.revision => SweepInv(b)

ScanInv == ScanTyped /\ CheckpointInv /\ \A w \in ScanWorkers : BatchInv(batch[w])

-----------------------------------------------------------------------------
(* Lemmas about the scan *)

LEMMA LastRun ==
    ASSUME ScanAssumption, NEW S \in SUBSET RunIds
    PROVE  /\ Max({NoRun} \cup S) \in Nat
           /\ \A r \in S : r <= Max({NoRun} \cup S)
<1> DEFINE T == {NoRun} \cup S
<1>1. T \subseteq 0 .. RunCount /\ T \subseteq Nat /\ 0 \in T /\ RunCount \in Nat
  BY DEF RunIds, NoRun, ScanAssumption
<1> DEFINE R == {RunCount - t : t \in T}
<1>2. R \subseteq Nat /\ R # {}
  BY <1>1
<1>3. PICK u \in R : \A v \in R : u <= v
  BY <1>2, LeastNumber
<1>4. PICK t \in T : u = RunCount - t
  OBVIOUS
<1>5. \A x \in T : t >= x
  <2> SUFFICES ASSUME NEW x \in T PROVE t >= x
    OBVIOUS
  <2>1. u <= RunCount - x
    BY <1>3
  <2> HIDE DEF T
  <2> QED BY <1>1, <1>4, <2>1
<1> HIDE DEF T
<1>6. Max(T) \in T /\ \A x \in T : Max(T) >= x
  BY <1>5 DEF Max
<1>7. Max(T) \in Nat
  BY <1>1, <1>6
<1>8. \A r \in S : r \in T /\ r \in Nat
  BY DEF T, RunIds
<1> QED BY <1>6, <1>7, <1>8 DEF T

LEMMA FirstRun ==
    ASSUME NEW S \in SUBSET RunIds, S # {}
    PROVE  Min(S) \in S /\ \A r \in S : Min(S) <= r
<1>1. S \subseteq Nat
  BY DEF RunIds
<1>2. PICK t \in S : \A u \in S : t <= u
  BY <1>1, LeastNumber
<1> QED BY <1>2 DEF Min

LEMMA PageOf ==
    ASSUME ScanAssumption, NEW S \in SUBSET RunIds
    PROVE  /\ Smallest(S, PageSize) \subseteq S
           /\ \A r \in S : r \in Smallest(S, PageSize) \/ \A q \in Smallest(S, PageSize) : q < r
           /\ Cardinality(S) <= PageSize => Smallest(S, PageSize) = S
           /\ ~(Cardinality(S) <= PageSize) => S # {}
<1>1. RunIds \subseteq Nat /\ IsFiniteSet(RunIds) /\ PageSize \in Nat /\ PageSize # 0
  BY FS_Interval DEF RunIds, ScanAssumption
<1>2. IsFiniteSet(S) /\ Cardinality(S) \in Nat
  BY <1>1, FS_Subset, FS_CardinalityType
<1> DEFINE Below(r) == {q \in S : q < r}
<1>3. ASSUME NEW r \in S PROVE IsFiniteSet(Below(r)) /\ Cardinality(Below(r)) \in Nat /\ Cardinality(Below(r)) < Cardinality(S)
  <2>1. Below(r) \in SUBSET S /\ r \notin Below(r)
    BY <1>1
  <2> HIDE DEF Below
  <2>2. IsFiniteSet(Below(r)) /\ Cardinality(Below(r)) <= Cardinality(S) /\ Cardinality(S) # Cardinality(Below(r))
    BY <1>2, <2>1, FS_Subset
  <2>3. Cardinality(Below(r)) \in Nat
    BY <2>2, FS_CardinalityType
  <2> QED BY <1>2, <2>2, <2>3
<1>4. Smallest(S, PageSize) = {r \in S : Cardinality(Below(r)) < PageSize}
  BY DEF Smallest
<1>5. ASSUME NEW r \in S, NEW q \in Smallest(S, PageSize), ~(q < r) PROVE r \in Smallest(S, PageSize)
  <2>1. q \in S /\ Cardinality(Below(q)) < PageSize
    BY <1>4
  <2>2. Below(r) \in SUBSET Below(q)
    <3>1. r \in Nat /\ q \in Nat /\ q >= r /\ S \subseteq Nat
      BY <1>1, <1>5, <2>1
    <3>2. \A x \in S : x < r => x < q
      BY <3>1
    <3> QED BY <3>2
  <2>3. IsFiniteSet(Below(q)) /\ Cardinality(Below(q)) \in Nat /\ Cardinality(Below(r)) \in Nat
    BY <1>3, <2>1
  <2> HIDE DEF Below
  <2>4. Cardinality(Below(r)) <= Cardinality(Below(q))
    BY <2>2, <2>3, FS_Subset
  <2> QED BY <1>1, <1>4, <2>1, <2>3, <2>4
<1> HIDE DEF Below
<1>6. Cardinality(S) <= PageSize => Smallest(S, PageSize) = S
  <2> SUFFICES ASSUME Cardinality(S) <= PageSize, NEW r \in S PROVE Cardinality(Below(r)) < PageSize
    BY <1>4
  <2> QED BY <1>1, <1>2, <1>3
<1>7. S = {} => Cardinality(S) = 0
  BY FS_EmptySet
<1> QED BY <1>1, <1>4, <1>5, <1>6, <1>7

LEMMA InRange ==
    ASSUME NEW r, NEW lo \in Int, NEW hi \in Int
    PROVE  IsFiniteSet({<<r, s>> : s \in lo .. hi})
<1> DEFINE T == {<<r, s>> : s \in lo .. hi}
<1> DEFINE f == [s \in lo .. hi |-> <<r, s>>]
<1>1. f \in Surjection(lo .. hi, T)
  BY DEF Surjection
<1>2. IsFiniteSet(lo .. hi)
  BY FS_Interval
<1> HIDE DEF f, T
<1>3. IsFiniteSet(T)
  BY <1>1, <1>2, FS_Surjection
<1> QED BY <1>3 DEF T

\* A batch stays what it is while the Runs grow, others attempt and the checkpoint stays.
LEMMA BatchStays ==
    ASSUME ScanTyped, NEW b \in Batches, BatchInv(b), UNCHANGED <<checkpoint, owed>>, attempted \subseteq attempted',
           \A r \in RunIds : lastSeq'[r] \in Int /\ lastSeq[r] <= lastSeq'[r]
    PROVE  BatchInv(b)'
<1> SUFFICES ASSUME b.pc # "idle", b.revision = checkpoint.revision PROVE SweepInv(b)'
  BY DEF BatchInv
<1>1. SweepInv(b)
  BY DEF BatchInv
<1>2. OwedBy(b)' = OwedBy(b)
  BY DEF OwedBy
<1>3. PICK E : E = OwedBy(b)
  OBVIOUS
<1>4. E = OwedBy(b)'
  BY <1>2, <1>3
<1>5. Exist(E) => Exist(E)'
  BY DEF Exist, ScanTyped
<1>6. Covered(E, b.next, attempted \cup b.entries) => Covered(E, b.next, attempted \cup b.entries)'
  BY DEF Covered
<1>7. Covered(E, b.next, attempted) => Covered(E, b.next, attempted)'
  BY DEF Covered
<1>8. PageInv(b) => PageInv(b)'
  BY <1>3, <1>4 DEF PageInv
<1>9. Ends(b, attempted \cup b.entries) => Ends(b, attempted \cup b.entries)'
  BY <1>3, <1>4, <1>6 DEF Ends
<1>10. Ends(b, attempted) => Ends(b, attempted)'
  BY <1>3, <1>4, <1>7 DEF Ends
<1> QED BY <1>1, <1>3, <1>4, <1>5, <1>6, <1>8, <1>9, <1>10 DEF SweepInv

LEMMA WorkerMoves ==
    ASSUME ScanInv, NEW w \in ScanWorkers, NEW b \in Batches, batch' = [batch EXCEPT ![w] = b], BatchInv(b)',
           UNCHANGED <<lastSeq, checkpoint, owed>>, attempted \subseteq attempted'
    PROVE  ScanInv'
<1>1. ScanTyped'
  BY DEF ScanInv, ScanTyped
<1>2. CheckpointInv'
  BY DEF ScanInv, CheckpointInv, Exist, Covered, Reaches
<1>3. ASSUME NEW v \in ScanWorkers PROVE BatchInv(batch[v])'
  <2>1. PICK c \in Batches : c = batch[v]
    BY DEF ScanInv, ScanTyped
  <2>2. BatchInv(c)
    BY <2>1 DEF ScanInv
  <2>3. \A r \in RunIds : lastSeq'[r] \in Int /\ lastSeq[r] <= lastSeq'[r]
    BY DEF ScanInv, ScanTyped
  <2>4. BatchInv(c)'
    BY <2>2, <2>3, BatchStays DEF ScanInv
  <2>5. batch'[v] = IF v = w THEN b ELSE c
    BY <2>1 DEF ScanInv, ScanTyped
  <2> QED BY <2>4, <2>5, SMTT(30) DEF BatchInv, SweepInv, PageInv, Ends, OwedBy
<1> QED BY <1>1, <1>2, <1>3 DEF ScanInv

\* The same, for a step that leaves everything but the batch.
LEMMA OnlyBatchMoves ==
    ASSUME ScanInv, NEW w \in ScanWorkers, NEW b \in Batches, batch' = [batch EXCEPT ![w] = b], BatchInv(b),
           UNCHANGED <<lastSeq, checkpoint, attempted, owed>>
    PROVE  ScanInv'
<1>1. \A r \in RunIds : lastSeq'[r] \in Int /\ lastSeq[r] <= lastSeq'[r]
  BY DEF ScanInv, ScanTyped
<1>2. BatchInv(b)'
  BY <1>1, BatchStays DEF ScanInv
<1> QED BY <1>2, WorkerMoves

LEMMA Idle ==
    ASSUME ScanAssumption
    PROVE  NoBatch \in Batches /\ BatchInv(NoBatch) /\ FreshCursor \in Cursors
BY DEF NoBatch, Batches, BatchInv, FreshCursor, Cursors, NoResume, NoRun, RunIds

\* What the page a batch starts with holds.
LEMMA ReadPageKeeps ==
    ASSUME ScanAssumption, ScanInv, NEW w \in ScanWorkers, ReadPage(w)
    PROVE  ScanInv'
<1>1. PICK c : c = checkpoint.cursor
  OBVIOUS
<1>2. c \in Cursors /\ checkpoint.revision \in Nat /\ lastSeq \in [RunIds -> Int]
  BY <1>1 DEF ScanInv, ScanTyped
<1>3. PICK S \in SUBSET RunIds : S = InSweep(c)
  BY DEF InSweep
<1>4. PICK page : page = Smallest(S, PageSize)
  OBVIOUS
<1>5. /\ page \subseteq S
      /\ \A r \in S : r \in page \/ \A q \in page : q < r
      /\ Cardinality(S) <= PageSize => page = S
      /\ ~(Cardinality(S) <= PageSize) => S # {}
  BY <1>4, PageOf
<1>6. PICK through : through = ThroughId(c)
  OBVIOUS
<1>7. /\ through \in Nat
      /\ c.throughId # NoRun => through = c.throughId
      /\ c.throughId = NoRun => \A r \in RunIds : lastSeq[r] >= 0 => r <= through
  <2>1. CASE c.throughId # NoRun
    BY <1>2, <1>6, <2>1 DEF ThroughId, Cursors
  <2>2. CASE c.throughId = NoRun
    <3>1. PICK All \in SUBSET RunIds : All = {r \in RunIds : lastSeq[r] >= 0}
      OBVIOUS
    <3>2. through = Max({NoRun} \cup All)
      BY <1>6, <2>2, <3>1 DEF ThroughId
    <3>3. through \in Nat /\ \A r \in All : r <= through
      BY <3>2, LastRun
    <3> QED BY <2>2, <3>1, <3>3
  <2> QED BY <2>1, <2>2
<1>8. PICK from : from = IF c = FreshCursor THEN Recorded ELSE {}
  OBVIOUS
<1>9. PICK next : next = [c EXCEPT !.throughId = through]
  OBVIOUS
<1>10. next \in Cursors /\ next.throughId = through /\ next.afterId = c.afterId /\ next.resume = c.resume
  BY <1>2, <1>7, <1>9 DEF Cursors
<1>11. PICK sizes : sizes = [r \in RunIds |-> IF r \in page THEN lastSeq[r] ELSE 0]
  OBVIOUS
<1>12. sizes \in [RunIds -> Nat] /\ \A r \in page : sizes[r] = lastSeq[r]
  BY <1>2, <1>3, <1>5, <1>11 DEF InSweep
<1>26. PICK done : done = (Cardinality(S) <= PageSize)
  OBVIOUS
<1>28. done \in BOOLEAN
  BY <1>26
<1>27. PICK revision \in Nat : revision = checkpoint.revision
  BY <1>2
<1>13. PICK b : b = [pc |-> "reading", revision |-> revision, previous |-> c, next |-> next,
                     page |-> page, sizes |-> sizes, done |-> done,
                     entries |-> {}, from |-> from]
  OBVIOUS
<1>14. batch' = [batch EXCEPT ![w] = b] /\ UNCHANGED <<lastSeq, checkpoint, attempted, owed>>
  <2>1. b = [NoBatch EXCEPT !.pc = "reading", !.revision = checkpoint.revision, !.previous = c, !.next = next,
                            !.page = page, !.sizes = sizes, !.done = Cardinality(S) <= PageSize, !.from = from]
    <3>3. b = [NoBatch EXCEPT !.pc = "reading", !.revision = revision, !.previous = c, !.next = next,
                              !.page = page, !.sizes = sizes, !.done = done, !.from = from]
      <4>1. PICK x : x = [NoBatch EXCEPT !.pc = "reading", !.revision = revision, !.previous = c, !.next = next]
        OBVIOUS
      <4>2. x = [pc |-> "reading", revision |-> revision, previous |-> c, next |-> next,
                 page |-> {}, sizes |-> NoBatch.sizes, done |-> FALSE, entries |-> {}, from |-> {}]
        BY <4>1 DEF NoBatch
      <4>3. PICK y : y = [x EXCEPT !.page = page, !.sizes = sizes]
        OBVIOUS
      <4>4. y = [pc |-> "reading", revision |-> revision, previous |-> c, next |-> next,
                 page |-> page, sizes |-> sizes, done |-> FALSE, entries |-> {}, from |-> {}]
        BY <4>2, <4>3
      <4>5. PICK z : z = [y EXCEPT !.done = done]
        OBVIOUS
      <4>6. z = [pc |-> "reading", revision |-> revision, previous |-> c, next |-> next,
                 page |-> page, sizes |-> sizes, done |-> done, entries |-> {}, from |-> {}]
        BY <4>4, <4>5
      <4>7. b = [z EXCEPT !.from = from]
        BY <1>13, <4>6
      <4> QED BY <4>1, <4>3, <4>5, <4>7
    <3> QED BY <1>26, <1>27, <3>3
  <2> QED BY <1>1, <1>3, <1>4, <1>6, <1>8, <1>9, <1>11, <2>1 DEF ReadPage
<1>15. Recorded \subseteq Events /\ Exist(Recorded)
  BY <1>2 DEF Recorded, Events, Exist
<1>16. b \in Batches
  <2>1. from \in SUBSET Events
    BY <1>8, <1>15
  <2> QED BY <1>2, <1>3, <1>5, <1>10, <1>12, <1>13, <1>26, <1>27, <1>28, <2>1 DEF Batches
<1>17. PICK E : E = OwedBy(b)
  OBVIOUS
<1>18. IF c = FreshCursor THEN E = Recorded ELSE E = owed
  BY <1>8, <1>13, <1>17 DEF OwedBy
<1>19. Exist(E)
  BY <1>15, <1>18 DEF ScanInv, CheckpointInv
<1>20. Covered(E, next, attempted)
  <2>1. CASE c = FreshCursor
    BY <1>10, <1>19, <2>1 DEF Covered, Behind, FreshCursor, NoResume, NoRun, RunIds
  <2>2. CASE c # FreshCursor
    BY <1>1, <1>10, <1>18, <2>2 DEF Covered, Behind, ScanInv, CheckpointInv
  <2> QED BY <2>1, <2>2
<1>21. Reaches(next, E)
  <2>1. CASE c = FreshCursor
    <3>1. \A r \in RunIds, s \in Nat : <<r, s>> \in E => lastSeq[r] \in Int /\ 1 <= lastSeq[r]
      BY <1>2, <1>19 DEF Exist
    <3>2. \A r \in RunIds, s \in Nat : <<r, s>> \in E => r <= through
      BY <1>7, <2>1, <3>1 DEF FreshCursor
    <3> QED BY <1>10, <2>1, <3>2 DEF Reaches, FreshCursor, NoResume, NoRun, RunIds
  <2>2. CASE c # FreshCursor
    <3>1. Reaches(c, E)
      BY <1>1, <1>18, <2>2 DEF ScanInv, CheckpointInv
    <3>2. \A r \in RunIds, s \in Nat : <<r, s>> \in E => r <= through
      BY <1>2, <1>7, <3>1 DEF Reaches, NoRun, RunIds, Cursors
    <3> QED BY <1>10, <3>1, <3>2 DEF Reaches
  <2> QED BY <2>1, <2>2
<1>22. \A r \in RunIds, s \in Nat : <<r, s>> \in E /\ r > c.afterId => r \in S
  <2> SUFFICES ASSUME NEW r \in RunIds, NEW s \in Nat, <<r, s>> \in E, r > c.afterId PROVE r \in S
    OBVIOUS
  <2>1. lastSeq[r] >= 0
    BY <1>2, <1>19 DEF Exist
  <2>2. r <= through
    BY <1>10, <1>21 DEF Reaches
  <2> QED BY <1>3, <1>7, <2>1, <2>2 DEF InSweep
<1>23. S # {} => through # NoRun
  <2> SUFFICES ASSUME NEW r \in S PROVE through # NoRun
    OBVIOUS
  <2>1. r \in RunIds /\ lastSeq[r] >= 0
    BY <1>3 DEF InSweep
  <2> QED BY <1>7, <2>1 DEF NoRun, RunIds
<1>24. PageInv(b)
  <2>1. \A r \in page : r > c.afterId
    BY <1>3, <1>5 DEF InSweep
  <2>2. \A r \in RunIds, s \in Nat : <<r, s>> \in E /\ r > c.afterId =>
          r \in page \/ (~(Cardinality(S) <= PageSize) /\ \A q \in page : q < r)
    BY <1>5, <1>22
  <2>3. \A r \in page, s \in Nat : <<r, s>> \in E => s <= sizes[r]
    BY <1>3, <1>5, <1>12, <1>19 DEF Exist
  <2>4. page # {} \/ ~(Cardinality(S) <= PageSize) => through # NoRun
    BY <1>5, <1>23
  <2> QED BY <1>10, <1>13, <1>17, <1>26, <2>1, <2>2, <2>3, <2>4 DEF PageInv
<1>25. BatchInv(b)
  <2>1. b.pc = "reading" /\ b.revision = checkpoint.revision /\ b.previous = c /\ b.next = next /\ b.entries = {}
    BY <1>13, <1>27
  <2>2. attempted \cup b.entries = attempted
    BY <2>1
  <2>3. SweepInv(b)
    BY <1>1, <1>17, <1>19, <1>20, <1>21, <1>24, <2>1, <2>2 DEF SweepInv
  <2> QED BY <1>2, <2>1, <2>3, FS_EmptySet DEF BatchInv
<1> QED BY <1>14, <1>16, <1>25, OnlyBatchMoves

LEMMA EndOfPageKeeps ==
    ASSUME ScanAssumption, ScanInv, NEW w \in ScanWorkers, EndOfPage(w)
    PROVE  ScanInv'
<1>1. PICK b \in Batches : b = batch[w]
  BY DEF ScanInv, ScanTyped
<1>2. PICK next \in Cursors : next = IF b.done THEN FreshCursor ELSE b.next
  BY Idle DEF Batches
<1>3. PICK end : end = [b EXCEPT !.pc = "attempting", !.next = next]
  OBVIOUS
<1>4. end \in Batches /\ end.pc = "attempting" /\ end.next = next /\ end.previous = b.previous /\ end.from = b.from
      /\ end.entries = b.entries /\ end.revision = b.revision
  BY <1>3 DEF Batches
<1>5. batch' = [batch EXCEPT ![w] = end] /\ UNCHANGED <<lastSeq, checkpoint, attempted, owed>>
  BY <1>1, <1>2, <1>3 DEF EndOfPage, ScanInv, ScanTyped, Batches
<1>6. BatchInv(b) /\ b.pc = "reading" /\ b.page = {}
  BY <1>1 DEF ScanInv, EndOfPage
<1>7. ASSUME b.revision = checkpoint.revision PROVE SweepInv(end)
  <2>1. SweepInv(b) /\ PageInv(b)
    BY <1>6, <1>7 DEF BatchInv, SweepInv
  <2>2. PICK E : E = OwedBy(b)
    OBVIOUS
  <2>3. OwedBy(end) = E
    BY <1>4, <2>2 DEF OwedBy
  <2>4. \A r \in RunIds, s \in Nat : <<r, s>> \in E => r <= b.next.afterId \/ ~b.done
    <3>1. b.next.afterId \in Nat /\ \A r \in RunIds : r \in Nat
      BY DEF Batches, Cursors, RunIds
    <3> QED BY <1>6, <2>1, <2>2, <3>1 DEF PageInv
  <2>5. E \subseteq Events /\ Covered(E, b.next, attempted \cup b.entries) /\ Reaches(b.next, E)
    BY <1>6, <2>1, <2>2 DEF SweepInv, Exist
  <2>6. CASE b.done
    <3>1. E \subseteq attempted \cup b.entries
      BY <2>4, <2>5, <2>6 DEF Covered, Behind, Events
    <3> QED BY <1>2, <1>4, <2>1, <2>2, <2>3, <2>6, <3>1 DEF SweepInv, Ends
  <2>7. CASE ~b.done
    <3>1. b.next # FreshCursor
      BY <2>1, <2>7 DEF PageInv, FreshCursor
    <3> QED BY <1>2, <1>4, <2>1, <2>2, <2>3, <2>5, <2>7, <3>1 DEF SweepInv, Ends
  <2> QED BY <2>6, <2>7
<1>8. BatchInv(end)
  BY <1>4, <1>6, <1>7 DEF BatchInv
<1> QED BY <1>4, <1>5, <1>8, OnlyBatchMoves

LEMMA AttemptKeeps ==
    ASSUME ScanAssumption, ScanInv, NEW w \in ScanWorkers, Attempt(w)
    PROVE  ScanInv'
<1>1. PICK b \in Batches : b = batch[w]
  BY DEF ScanInv, ScanTyped
<1>2. PICK tried : tried = [b EXCEPT !.pc = "commit"]
  OBVIOUS
<1>3. tried \in Batches /\ tried.pc = "commit" /\ tried.next = b.next /\ tried.previous = b.previous
      /\ tried.from = b.from /\ tried.entries = b.entries /\ tried.revision = b.revision
  BY <1>2 DEF Batches
<1>4. batch' = [batch EXCEPT ![w] = tried] /\ UNCHANGED <<lastSeq, checkpoint, owed>>
      /\ attempted' = attempted \cup b.entries
  BY <1>1, <1>2 DEF Attempt, ScanInv, ScanTyped, Batches
<1>5. BatchInv(b) /\ b.pc = "attempting"
  BY <1>1 DEF ScanInv, Attempt
<1>6. ASSUME b.revision = checkpoint.revision PROVE SweepInv(tried)'
  <2>1. SweepInv(b) /\ Ends(b, attempted \cup b.entries)
    BY <1>5, <1>6 DEF BatchInv, SweepInv
  <2>2. PICK E : E = OwedBy(b)
    OBVIOUS
  <2>3. OwedBy(tried)' = E
    BY <1>3, <1>4, <2>2 DEF OwedBy
  <2>4. Exist(E)'
    BY <1>4, <2>1, <2>2 DEF SweepInv, Exist
  <2>5. Ends(tried, attempted)'
    BY <1>3, <1>4, <2>1, <2>2, <2>3 DEF Ends
  <2> QED BY <1>3, <1>4, <2>1, <2>3, <2>4, <2>5 DEF SweepInv
<1>7. BatchInv(tried)'
  BY <1>3, <1>4, <1>5, <1>6 DEF BatchInv
<1> QED BY <1>3, <1>4, <1>7, WorkerMoves

-----------------------------------------------------------------------------
(* One Run of the page is read *)

LEMMA PassRun ==
    ASSUME ScanAssumption, NEW b \in Batches, BatchInv(b), b.pc = "reading", b.page # {},
           NEW r, r = Min(b.page), NEW seen \in SUBSET (RunIds \X Int), IsFiniteSet(seen), b.entries \subseteq seen,
           b.revision = checkpoint.revision =>
               \A s \in Nat : <<r, s>> \in OwedBy(b) => <<r, s>> \in attempted \cup seen,
           NEW next, next = Passing(b.next, r),
           NEW passed, passed = [b EXCEPT !.next = next, !.page = @ \ {r}, !.entries = seen]
    PROVE  passed \in Batches /\ BatchInv(passed)
<1>1. b.page \in SUBSET RunIds /\ b.next \in Cursors /\ b.next.afterId \in Nat
  BY DEF Batches, Cursors
<1>2. r \in b.page /\ r \in RunIds /\ \A q \in b.page : r <= q
  BY <1>1, FirstRun
<1>3. \A q \in RunIds : q \in Nat /\ q # 0
  BY DEF RunIds
<1>4. next \in Cursors /\ next.afterId = r /\ next.throughId = b.next.throughId
      /\ next.resume \in {b.next.resume, NoResume}
  <2>1. PICK resume \in {b.next.resume, NoResume} : next = [b.next EXCEPT !.afterId = r, !.resume = resume]
    BY DEF Passing
  <2>2. resume \in [run : Nat, offset : Int, endOffset : Nat]
    BY <1>1 DEF Cursors, NoResume, NoRun
  <2> QED BY <1>1, <1>2, <1>3, <2>1, <2>2 DEF Cursors
<1>5. /\ passed \in Batches /\ passed.pc = "reading" /\ passed.next = next /\ passed.page = b.page \ {r}
      /\ passed.entries = seen /\ passed.previous = b.previous /\ passed.from = b.from
      /\ passed.revision = b.revision /\ passed.done = b.done /\ passed.sizes = b.sizes
  BY <1>4 DEF Batches
<1>6. ASSUME b.revision = checkpoint.revision PROVE SweepInv(passed)
  <2>1. SweepInv(b) /\ Covered(OwedBy(b), b.next, attempted \cup b.entries) /\ Reaches(b.next, OwedBy(b)) /\ PageInv(b)
    BY <1>6 DEF BatchInv, SweepInv
  <2>2. PICK E : E = OwedBy(b)
    OBVIOUS
  <2>3. OwedBy(passed) = E
    BY <1>5, <2>2 DEF OwedBy
  <2>4. ASSUME NEW q \in RunIds, NEW s \in Nat, <<q, s>> \in E, Behind(next, q, s)
        PROVE  <<q, s>> \in attempted \cup seen
    <3>1. CASE Behind(b.next, q, s)
      BY <2>1, <2>2, <2>4, <3>1 DEF Covered
    <3>2. CASE ~Behind(b.next, q, s)
      <4>1. q <= r /\ q > b.next.afterId
        BY <1>1, <1>3, <1>4, <2>4, <3>2 DEF Behind, NoResume, NoRun
      <4>2. q \in b.page
        BY <1>2, <1>3, <2>1, <2>2, <2>4, <4>1 DEF PageInv
      <4>3. q = r
        BY <1>2, <1>3, <4>1, <4>2
      <4> QED BY <1>6, <2>2, <2>4, <4>3
    <3> QED BY <3>1, <3>2
  <2>5. Covered(E, next, attempted \cup seen)
    BY <2>4 DEF Covered
  <2>6. Reaches(next, E)
    BY <1>3, <1>4, <2>1, <2>2 DEF Reaches, NoResume, NoRun
  <2>7. PageInv(passed)
    <3>1. \A q \in b.page \ {r} : q > r
      BY <1>1, <1>2, <1>3
    <3>2. \A q \in RunIds, s \in Nat : <<q, s>> \in E /\ q > r =>
            q \in b.page \ {r} \/ (~b.done /\ \A p \in b.page \ {r} : p < q)
      <4> SUFFICES ASSUME NEW q \in RunIds, NEW s \in Nat, <<q, s>> \in E, q > r
                   PROVE  q \in b.page \ {r} \/ (~b.done /\ \A p \in b.page \ {r} : p < q)
        OBVIOUS
      <4>1. r > b.next.afterId
        BY <1>2, <2>1 DEF PageInv
      <4>2. q > b.next.afterId /\ q # r
        BY <1>1, <1>2, <1>3, <4>1
      <4> QED BY <2>1, <2>2, <4>2 DEF PageInv
    <3>3. \A q \in b.page \ {r}, s \in Nat : <<q, s>> \in E => s <= b.sizes[q]
      BY <2>1, <2>2 DEF PageInv
    <3>4. next.throughId # NoRun
      BY <1>4, <2>1 DEF PageInv
    <3> QED BY <1>4, <1>5, <2>3, <3>1, <3>2, <3>3, <3>4 DEF PageInv
  <2> QED BY <1>5, <2>1, <2>2, <2>3, <2>5, <2>6, <2>7 DEF SweepInv
<1> QED BY <1>5, <1>6 DEF BatchInv

\* The batch stops at a Run, keeping its place in it.
LEMMA StopInRun ==
    ASSUME ScanAssumption, NEW b \in Batches, BatchInv(b), b.pc = "reading", b.page # {},
           NEW seen \in SUBSET (RunIds \X Int), IsFiniteSet(seen), b.entries \subseteq seen,
           NEW next \in Cursors, next.afterId = b.next.afterId, next.throughId = b.next.throughId,
           b.revision = checkpoint.revision =>
               Covered(OwedBy(b), next, attempted \cup seen) /\ Reaches(next, OwedBy(b)),
           NEW stopped,
           stopped = [b EXCEPT !.entries = seen, !.page = {}, !.done = FALSE, !.pc = "attempting", !.next = next]
    PROVE  stopped \in Batches /\ BatchInv(stopped)
<1>1. /\ stopped \in Batches /\ stopped.pc = "attempting" /\ stopped.next = next
      /\ stopped.entries = seen /\ stopped.previous = b.previous /\ stopped.from = b.from
      /\ stopped.revision = b.revision
  BY DEF Batches
<1>2. ASSUME b.revision = checkpoint.revision PROVE SweepInv(stopped)
  <2>1. SweepInv(b) /\ PageInv(b)
    BY <1>2 DEF BatchInv, SweepInv
  <2>2. next # FreshCursor
    BY <2>1 DEF PageInv, FreshCursor
  <2>3. OwedBy(stopped) = OwedBy(b)
    BY <1>1 DEF OwedBy
  <2>4. Ends(stopped, attempted \cup seen)
    BY <1>1, <1>2, <2>2, <2>3 DEF Ends
  <2> QED BY <1>1, <2>1, <2>3, <2>4 DEF SweepInv
<1> QED BY <1>1, <1>2 DEF BatchInv

LEMMA ReadRunKeeps ==
    ASSUME ScanAssumption, ScanInv, NEW w \in ScanWorkers, ReadRun(w)
    PROVE  ScanInv'
<1>1. PICK b \in Batches : b = batch[w]
  BY DEF ScanInv, ScanTyped
<1>2. BatchInv(b) /\ b.pc = "reading" /\ b.page # {} /\ IsFiniteSet(b.entries)
  BY <1>1 DEF ScanInv, ReadRun, BatchInv
<1>3. PICK r : r = Min(b.page)
  OBVIOUS
<1>4. r \in b.page /\ r \in RunIds /\ r \in Nat /\ r # 0
  BY <1>2, <1>3, FirstRun DEF Batches, RunIds
<1>5. PICK at : at = Resumed(b, r)
  OBVIOUS
<1>6. at \in [run : Nat, offset : Int, endOffset : Nat] /\ at.run = r
  BY <1>4, <1>5 DEF Resumed, Batches, Cursors
<1>7. PICK to : to = ReadTo(b, at)
  OBVIOUS
<1>8. to \in Int /\ at.offset \in Int /\ at.endOffset \in Nat /\ Room(b) \in Int
  <2>1. Room(b) \in Int
    BY <1>2, FS_CardinalityType DEF Room, ScanAssumption
  <2> QED BY <1>6, <1>7, <2>1 DEF ReadTo, Least
<1>9. PICK seen : seen = {<<r, s>> : s \in at.offset + 1 .. to}
  OBVIOUS
<1>10. PICK read : read = b.entries \cup seen
  OBVIOUS
<1>11. read \in SUBSET (RunIds \X Int) /\ IsFiniteSet(read) /\ b.entries \subseteq read
  <2>1. IsFiniteSet(seen)
    <3>1. PICK from \in Int : from = at.offset + 1
      BY <1>8
    <3> QED BY <1>8, <1>9, <3>1, InRange
  <2>2. seen \subseteq RunIds \X Int
    BY <1>4, <1>8, <1>9
  <2> QED BY <1>2, <1>10, <2>1, <2>2, FS_Union DEF Batches
\* What is known of the Run's events in a batch that may be committed.
<1>12. ASSUME b.revision = checkpoint.revision
       PROVE  \A s \in Nat : <<r, s>> \in OwedBy(b) =>
                 1 <= s /\ s <= at.endOffset /\ (s <= at.offset => <<r, s>> \in attempted)
  <2>1. SweepInv(b) /\ PageInv(b) /\ b.previous = checkpoint.cursor /\ Exist(OwedBy(b))
    BY <1>2, <1>12 DEF BatchInv, SweepInv
  <2>2. PICK E : E = OwedBy(b)
    OBVIOUS
  <2>3. \A s \in Nat : <<r, s>> \in E => 1 <= s /\ s <= b.sizes[r]
    BY <1>4, <2>1, <2>2 DEF Exist, PageInv
  <2>4. CASE b.previous.resume.run = r
    <3>1. b.previous # FreshCursor
      BY <1>4, <2>4 DEF FreshCursor, NoResume, NoRun
    <3>2. E = owed /\ Covered(E, b.previous, attempted) /\ Reaches(b.previous, E)
      BY <2>1, <2>2, <3>1 DEF OwedBy, ScanInv, CheckpointInv
    <3>3. \A s \in Nat : <<r, s>> \in E => s <= b.previous.resume.endOffset
      BY <1>4, <2>4, <3>2 DEF Reaches
    <3>4. at.endOffset \in {b.previous.resume.endOffset, b.sizes[r]} /\ at.offset = b.previous.resume.offset
      BY <1>5, <2>4 DEF Resumed, Batches, Cursors
    <3>5. \A s \in Nat : <<r, s>> \in E /\ s <= at.offset => <<r, s>> \in attempted
      BY <1>4, <2>4, <3>2, <3>4 DEF Covered, Behind
    <3> QED BY <2>2, <2>3, <3>3, <3>4, <3>5
  <2>5. CASE b.previous.resume.run # r
    BY <1>5, <2>2, <2>3, <2>5 DEF Resumed
  <2> QED BY <2>4, <2>5
<1>13. PICK next : next = Passing(b.next, r)
  OBVIOUS
<1>14. UNCHANGED <<lastSeq, checkpoint, attempted, owed>>
  BY DEF ReadRun
\* The Run has no events.
<1>15. ASSUME at.endOffset = 0,
              batch' = [batch EXCEPT ![w] = [b EXCEPT !.next = Passing(b.next, r), !.page = @ \ {r}]]
       PROVE  ScanInv'
  <2>1. PICK passed : passed = [b EXCEPT !.next = next, !.page = @ \ {r}, !.entries = b.entries]
    OBVIOUS
  <2>2. b.revision = checkpoint.revision =>
           \A s \in Nat : <<r, s>> \in OwedBy(b) => <<r, s>> \in attempted \cup b.entries
    BY <1>12, <1>15
  <2>3. b.entries \in SUBSET (RunIds \X Int)
    BY DEF Batches
  <2>4. passed \in Batches /\ BatchInv(passed)
    BY <1>2, <1>3, <1>13, <2>1, <2>2, <2>3, PassRun
  <2>5. [b EXCEPT !.next = next, !.page = @ \ {r}] = passed
    BY <2>1 DEF Batches
  <2> QED BY <1>13, <1>14, <1>15, <2>4, <2>5, OnlyBatchMoves
\* The batch is full.
<1>16. ASSUME batch' = [batch EXCEPT ![w] = [b EXCEPT !.page = {}, !.done = FALSE, !.pc = "attempting"]]
       PROVE  ScanInv'
  <2>1. PICK stopped : stopped = [b EXCEPT !.entries = b.entries, !.page = {}, !.done = FALSE, !.pc = "attempting",
                                           !.next = b.next]
    OBVIOUS
  <2>2. b.revision = checkpoint.revision =>
           Covered(OwedBy(b), b.next, attempted \cup b.entries) /\ Reaches(b.next, OwedBy(b))
    BY <1>2 DEF BatchInv, SweepInv
  <2>3. b.entries \in SUBSET (RunIds \X Int) /\ b.next \in Cursors
    BY DEF Batches
  <2>4. stopped \in Batches /\ BatchInv(stopped)
    BY <1>2, <2>1, <2>2, <2>3, StopInRun
  <2>5. [b EXCEPT !.page = {}, !.done = FALSE, !.pc = "attempting"] = stopped
    BY <2>1 DEF Batches
  <2> QED BY <1>14, <1>16, <2>4, <2>5, OnlyBatchMoves
\* Some of the Run is left for a later batch.
<1>17. ASSUME batch' = [batch EXCEPT ![w] = [b EXCEPT !.entries = @ \cup seen, !.page = {}, !.done = FALSE,
                                                      !.pc = "attempting",
                                                      !.next.resume = [at EXCEPT !.offset = to]]]
       PROVE  ScanInv'
  <2>1. PICK resume : resume = [at EXCEPT !.offset = to]
    OBVIOUS
  <2>2. resume \in [run : Nat, offset : Int, endOffset : Nat] /\ resume.run = r /\ resume.offset = to
        /\ resume.endOffset = at.endOffset
    BY <1>6, <1>8, <2>1
  <2>3. PICK kept : kept = [b.next EXCEPT !.resume = resume]
    OBVIOUS
  <2>4. kept \in Cursors /\ kept.afterId = b.next.afterId /\ kept.throughId = b.next.throughId
        /\ kept.resume = resume
    BY <2>2, <2>3 DEF Batches, Cursors
  <2>5. ASSUME b.revision = checkpoint.revision
        PROVE  Covered(OwedBy(b), kept, attempted \cup read) /\ Reaches(kept, OwedBy(b))
    <3>1. Covered(OwedBy(b), b.next, attempted \cup b.entries) /\ Reaches(b.next, OwedBy(b))
      BY <1>2, <2>5 DEF BatchInv, SweepInv
    <3>2. PICK E : E = OwedBy(b)
      OBVIOUS
    <3>3. ASSUME NEW q \in RunIds, NEW s \in Nat, <<q, s>> \in E, Behind(kept, q, s)
          PROVE  <<q, s>> \in attempted \cup read
      <4>1. CASE q <= b.next.afterId
        BY <1>10, <3>1, <3>2, <3>3, <4>1 DEF Covered, Behind
      <4>2. CASE q = r /\ s <= to
        <5>1. CASE s <= at.offset
          BY <1>12, <2>5, <3>2, <3>3, <4>2, <5>1
        <5>2. CASE ~(s <= at.offset)
          <6>1. s \in at.offset + 1 .. to
            BY <1>8, <4>2, <5>2
          <6> QED BY <1>9, <1>10, <4>2, <6>1
        <5> QED BY <5>1, <5>2
      <4> QED BY <2>2, <2>4, <3>3, <4>1, <4>2 DEF Behind
    <3>4. Covered(E, kept, attempted \cup read)
      BY <3>3 DEF Covered
    <3>5. Reaches(kept, E)
      BY <1>12, <2>2, <2>4, <2>5, <3>1, <3>2 DEF Reaches
    <3> QED BY <3>2, <3>4, <3>5
  <2>6. PICK stopped : stopped = [b EXCEPT !.entries = read, !.page = {}, !.done = FALSE, !.pc = "attempting",
                                           !.next = kept]
    OBVIOUS
  <2>7. stopped \in Batches /\ BatchInv(stopped)
    BY <1>2, <1>11, <2>4, <2>5, <2>6, StopInRun
  <2>8. batch' = [batch EXCEPT ![w] = stopped]
    BY <1>10, <1>17, <2>1, <2>3, <2>6
  <2> QED BY <1>14, <2>7, <2>8, OnlyBatchMoves
\* The Run is read to its end.
<1>18. ASSUME ~LeavesSome(b, at),
              batch' = [batch EXCEPT ![w] = [b EXCEPT !.entries = @ \cup seen, !.page = @ \ {r},
                                                      !.next = Passing(b.next, r)]]
       PROVE  ScanInv'
  <2>1. PICK passed : passed = [b EXCEPT !.next = next, !.page = @ \ {r}, !.entries = read]
    OBVIOUS
  <2>2. at.endOffset <= to
    BY <1>7, <1>8, <1>18 DEF LeavesSome
  <2>3. ASSUME b.revision = checkpoint.revision, NEW s \in Nat, <<r, s>> \in OwedBy(b)
        PROVE  <<r, s>> \in attempted \cup read
    <3>1. CASE s <= at.offset
      BY <1>12, <2>3, <3>1
    <3>2. CASE ~(s <= at.offset)
      <4>1. s <= at.endOffset
        BY <1>12, <2>3
      <4>2. s \in at.offset + 1 .. to
        BY <1>8, <2>2, <3>2, <4>1
      <4> QED BY <1>9, <1>10, <4>2
    <3> QED BY <3>1, <3>2
  <2>4. passed \in Batches /\ BatchInv(passed)
    BY <1>2, <1>3, <1>11, <1>13, <2>1, <2>3, PassRun
  <2>5. [b EXCEPT !.entries = @ \cup seen, !.page = @ \ {r}, !.next = next] = passed
    BY <1>10, <2>1 DEF Batches
  <2> QED BY <1>13, <1>14, <1>18, <2>4, <2>5, OnlyBatchMoves
<1>19. \/ /\ at.endOffset = 0
          /\ batch' = [batch EXCEPT ![w] = [b EXCEPT !.next = Passing(b.next, r), !.page = @ \ {r}]]
       \/ batch' = [batch EXCEPT ![w] = [b EXCEPT !.page = {}, !.done = FALSE, !.pc = "attempting"]]
       \/ batch' = [batch EXCEPT ![w] = [b EXCEPT !.entries = @ \cup seen, !.page = {}, !.done = FALSE,
                                                  !.pc = "attempting",
                                                  !.next.resume = [at EXCEPT !.offset = to]]]
       \/ /\ ~LeavesSome(b, at)
          /\ batch' = [batch EXCEPT ![w] = [b EXCEPT !.entries = @ \cup seen, !.page = @ \ {r},
                                                     !.next = Passing(b.next, r)]]
  <2> DEFINE Empty == projected /\ at.endOffset = 0
  <2> DEFINE Full == projected /\ at.endOffset > 0 /\ Room(b) = 0
  <2> DEFINE Other == ~(projected /\ (at.endOffset = 0 \/ Room(b) = 0))
  <2>1. batch' = [batch EXCEPT ![w] =
           CASE Empty -> [b EXCEPT !.next = Passing(b.next, r), !.page = @ \ {r}]
             [] Full -> [b EXCEPT !.page = {}, !.done = FALSE, !.pc = "attempting"]
             [] Other /\ LeavesSome(b, at) ->
                    [b EXCEPT !.entries = @ \cup seen, !.page = {}, !.done = FALSE, !.pc = "attempting",
                              !.next.resume = [at EXCEPT !.offset = to]]
             [] Other /\ ~LeavesSome(b, at) ->
                    [b EXCEPT !.entries = @ \cup seen, !.page = @ \ {r}, !.next = Passing(b.next, r)]]
    BY <1>1, <1>3, <1>5, <1>7, <1>9 DEF ReadRun
  <2>2. Empty => at.endOffset = 0
    OBVIOUS
  <2>3. Empty \/ Full \/ Other
    BY <1>8
  <2>4. ~(Empty /\ Full) /\ ~(Empty /\ Other) /\ ~(Full /\ Other)
    BY <1>8
  <2> HIDE DEF Empty, Full, Other
  <2>5. CASE Empty
    BY <2>1, <2>2, <2>4, <2>5
  <2>6. CASE Full
    BY <2>1, <2>4, <2>6
  <2>7. CASE Other /\ LeavesSome(b, at)
    BY <2>1, <2>4, <2>7
  <2>8. CASE Other /\ ~LeavesSome(b, at)
    BY <2>1, <2>4, <2>8
  <2> QED BY <2>3, <2>5, <2>6, <2>7, <2>8
<1> QED BY <1>15, <1>16, <1>17, <1>18, <1>19

-----------------------------------------------------------------------------
(* The checkpoint moves *)

LEMMA CommitKeeps ==
    ASSUME ScanAssumption, ScanInv, NEW w \in ScanWorkers, Commit(w)
    PROVE  ScanInv'
<1>1. PICK b \in Batches : b = batch[w]
  BY DEF ScanInv, ScanTyped
<1>2. BatchInv(b) /\ b.pc = "commit"
  BY <1>1 DEF ScanInv, Commit
<1>3. lastSeq' = lastSeq /\ batch' = [batch EXCEPT ![w] = NoBatch]
  BY DEF Commit
<1>4. CASE ~Advances(w)
  BY <1>3, <1>4, Idle, OnlyBatchMoves DEF Commit
<1>5. CASE Advances(w)
  <2>1. checkpoint' = [revision |-> checkpoint.revision + 1, cursor |-> b.next]
        /\ attempted' = IF b.next = FreshCursor THEN {} ELSE attempted
    BY <1>1, <1>5 DEF Commit
  <2>2. owed' = IF b.next = FreshCursor THEN {} ELSE OwedBy(b)
    BY <1>1, <1>5 DEF Commit, OwedBy
  <2>3. SweepInv(b) /\ Ends(b, attempted)
    BY <1>1, <1>2, <1>5 DEF BatchInv, SweepInv, Advances
  <2>4. b.next \in Cursors /\ checkpoint.revision \in Nat
    BY DEF Batches, ScanInv, ScanTyped
  <2>5. ScanTyped'
    <3>1. checkpoint' \in [revision : Nat, cursor : Cursors]
      BY <2>1, <2>4
    <3> QED BY <1>3, <3>1, Idle DEF ScanInv, ScanTyped
  <2>6. CheckpointInv'
    <3>1. CASE b.next = FreshCursor
      BY <2>1, <2>2, <3>1 DEF CheckpointInv, Exist
    <3>2. CASE b.next # FreshCursor
      <4>1. PICK E : E = OwedBy(b)
        OBVIOUS
      <4>2. Exist(E) /\ Covered(E, b.next, attempted) /\ Reaches(b.next, E)
        BY <2>3, <3>2, <4>1 DEF SweepInv, Ends
      <4>3. owed' = E /\ attempted' = attempted /\ checkpoint'.cursor = b.next
        BY <2>1, <2>2, <3>2, <4>1
      <4> QED BY <1>3, <4>2, <4>3 DEF CheckpointInv, Exist, Covered, Reaches
    <3> QED BY <3>1, <3>2
  <2>7. ASSUME NEW v \in ScanWorkers PROVE BatchInv(batch[v])'
    <3>1. CASE v = w
      BY <1>3, <3>1 DEF BatchInv, NoBatch, ScanInv, ScanTyped
    <3>2. CASE v # w
      <4>1. PICK c \in Batches : c = batch[v]
        BY DEF ScanInv, ScanTyped
      <4>2. batch'[v] = c /\ BatchInv(c)
        BY <1>3, <3>2, <4>1 DEF ScanInv, ScanTyped
      <4>3. c.pc # "idle" => c.revision \in Nat /\ c.revision <= checkpoint.revision /\ IsFiniteSet(c.entries)
        BY <4>2 DEF BatchInv, Batches
      <4>4. checkpoint'.revision = checkpoint.revision + 1
        BY <2>1
      <4> QED BY <2>4, <4>2, <4>3, <4>4 DEF BatchInv
    <3> QED BY <3>1, <3>2
  <2> QED BY <2>5, <2>6, <2>7 DEF ScanInv
<1> QED BY <1>4, <1>5

LEMMA RunsGrow ==
    ASSUME ScanAssumption, ScanInv, NEW r \in RunIds, CreateRun(r) \/ AppendEvent(r)
    PROVE  ScanInv'
<1>1. UNCHANGED <<checkpoint, batch, attempted, owed>>
  BY DEF CreateRun, AppendEvent
<1>2. lastSeq' \in [RunIds -> Int] /\ \A q \in RunIds : lastSeq[q] <= lastSeq'[q] /\ lastSeq'[q] >= -1
  BY DEF ScanInv, ScanTyped, CreateRun, AppendEvent
<1>3. ScanTyped'
  BY <1>1, <1>2 DEF ScanInv, ScanTyped
<1>4. CheckpointInv'
  <2>1. Exist(owed)'
    BY <1>1, <1>2 DEF ScanInv, ScanTyped, CheckpointInv, Exist
  <2> QED BY <1>1, <2>1 DEF ScanInv, CheckpointInv, Covered, Reaches
<1>5. ASSUME NEW v \in ScanWorkers PROVE BatchInv(batch[v])'
  <2>1. PICK b \in Batches : b = batch[v]
    BY DEF ScanInv, ScanTyped
  <2>2. BatchInv(b)
    BY <2>1 DEF ScanInv
  <2>3. BatchInv(b)'
    BY <1>1, <1>2, <2>2, BatchStays DEF ScanInv
  <2> QED BY <1>1, <2>1, <2>3 DEF BatchInv, SweepInv, PageInv, Ends, OwedBy
<1> QED BY <1>3, <1>4, <1>5 DEF ScanInv

LEMMA ScanInvHolds ==
    ASSUME ScanAssumption
    PROVE  ScanSpec => []ScanInv
<1> USE ScanAssumption
<1>1. ScanInit => ScanInv
  <2> SUFFICES ASSUME ScanInit PROVE ScanInv
    OBVIOUS
  <2>1. ScanTyped
    <3>1. checkpoint \in [revision : Nat, cursor : Cursors]
      BY Idle DEF ScanInit
    <3>2. batch \in [ScanWorkers -> Batches]
      BY Idle DEF ScanInit
    <3> QED BY <3>1, <3>2 DEF ScanInit, ScanTyped
  <2>2. CheckpointInv
    BY DEF ScanInit, CheckpointInv, Exist
  <2>3. ASSUME NEW v \in ScanWorkers PROVE BatchInv(batch[v])
    BY DEF ScanInit, BatchInv, NoBatch
  <2> QED BY <2>1, <2>2, <2>3 DEF ScanInv
<1>2. ScanInv /\ [ScanNext]_scanVars => ScanInv'
  <2> SUFFICES ASSUME ScanInv, [ScanNext]_scanVars PROVE ScanInv'
    OBVIOUS
  <2>1. ASSUME NEW r \in RunIds, CreateRun(r) \/ AppendEvent(r) PROVE ScanInv'
    BY <2>1, RunsGrow
  <2>2. ASSUME NEW w \in ScanWorkers, ReadPage(w) PROVE ScanInv'
    BY <2>2, ReadPageKeeps
  <2>3. ASSUME NEW w \in ScanWorkers, ReadRun(w) PROVE ScanInv'
    BY <2>3, ReadRunKeeps
  <2>4. ASSUME NEW w \in ScanWorkers, EndOfPage(w) \/ Attempt(w) \/ Commit(w) PROVE ScanInv'
    BY <2>4, EndOfPageKeeps, AttemptKeeps, CommitKeeps
  <2>5. ASSUME NEW w \in ScanWorkers, AbandonBatch(w) PROVE ScanInv'
    BY <2>5, Idle, OnlyBatchMoves DEF AbandonBatch
  <2>6. CASE UNCHANGED scanVars
    BY <2>6
    DEF scanVars, ScanInv, ScanTyped, CheckpointInv, Exist, Covered, Reaches, BatchInv, SweepInv,
                PageInv, Ends, OwedBy
  <2> QED BY <2>1, <2>2, <2>3, <2>4, <2>5, <2>6 DEF ScanNext
<1> QED BY <1>1, <1>2, PTL DEF ScanSpec

\* When a sweep of the Runs ends, every event there was when it began has been handed to the pump in
\* it, whatever Runs and events were added and whichever workers read, gave up or committed
\* meanwhile (RunScanCursor.batch and advance).
THEOREM SweepIsComplete ==
    ASSUME ScanAssumption
    PROVE  ScanSpec => SweepMissesNothing
<1> DEFINE Hands ==
        \A w \in ScanWorkers :
            (checkpoint' # checkpoint /\ batch[w].pc = "commit" /\ batch'[w].pc = "idle"
               /\ checkpoint'.cursor = FreshCursor)
            => (IF checkpoint.cursor = FreshCursor THEN batch[w].from ELSE owed) \subseteq attempted
<1>1. ScanInv /\ [ScanNext]_scanVars => [Hands]_scanVars
  <2> SUFFICES ASSUME ScanInv, ScanNext, NEW w \in ScanWorkers,
                      checkpoint' # checkpoint, batch[w].pc = "commit", batch'[w].pc = "idle",
                      checkpoint'.cursor = FreshCursor
               PROVE  (IF checkpoint.cursor = FreshCursor THEN batch[w].from ELSE owed) \subseteq attempted
    BY DEF Hands
  <2>1. PICK v \in ScanWorkers : Commit(v) /\ Advances(v)
    BY DEF ScanNext, CreateRun, AppendEvent, ReadPage, ReadRun, EndOfPage, Attempt, Commit,
       AbandonBatch
  <2>2. v = w
    BY <2>1 DEF Commit, ScanInv, ScanTyped
  <2>3. batch[w].next = FreshCursor
    BY <2>1, <2>2 DEF Commit
  <2>4. SweepInv(batch[w])
    BY <2>1, <2>2 DEF ScanInv, BatchInv, Advances
  <2> QED BY <2>3, <2>4 DEF SweepInv, Ends, OwedBy
<1> QED BY <1>1, ScanInvHolds, PTL DEF ScanSpec, SweepMissesNothing

-----------------------------------------------------------------------------
(* The JSON store: what its files and its memory have to do with each other *)

\* The process runs.
Live == store.pc \notin {"down", "refused"}

StoreRecords == [seq : 1 .. MaxOps, op : Operations]
Lines == [recs : Seq(StoreRecords), torn : BOOLEAN, ended : BOOLEAN]
Processes ==
    [pc : {"down", "refused", "open", "sidecars", "rename", "truncate"}, closing : BOOLEAN,
     rows : SUBSET Items, past : SUBSET Items, loaded : BOOLEAN, hist : 0 .. MaxOps,
     seq : 0 .. MaxOps, entries : Nat]

JournalTypes ==
    /\ journal \in Seq(Lines)
    /\ snapshot \in [exists : BOOLEAN, seq : 0 .. MaxOps, rows : SUBSET Items, hist : 0 .. MaxOps]
    /\ sidecar \in [0 .. MaxOps -> SUBSET Items]
    /\ store \in Processes
    /\ truth \in Contents /\ maybe \in Contents
    /\ ops \in 0 .. MaxOps

\* No number is above the commits tried.
Below(line, n) == line.recs \in Seq({r \in StoreRecords : r.seq <= n})

SeqsTried ==
    /\ store.seq <= ops /\ snapshot.seq <= ops
    /\ \A i \in DOMAIN journal : Below(journal[i], ops)

\* Only the last line may lack its newline, and a part of one record is such a line.
LinesEnded ==
    \A i \in DOMAIN journal :
        /\ journal[i].ended \/ i = Len(journal)
        /\ Len(journal[i].recs) = 0 => journal[i].torn /\ ~journal[i].ended

SnapshotShows == [rows |-> snapshot.rows, past |-> IF snapshot.hist = 0 THEN {} ELSE sidecar[snapshot.hist]]

\* Memory shows what was committed, and so does a snapshot of the same number.
MemoryTrue ==
    /\ snapshot.hist \in {0, snapshot.seq}
    /\ Live => /\ View(store) = truth
               /\ snapshot.seq <= store.seq
               /\ snapshot.seq = store.seq => SnapshotShows = truth
               /\ ~store.loaded => store.hist = snapshot.hist
    /\ store.pc \in {"rename", "truncate"} => store.loaded
    /\ store.pc = "truncate" => snapshot.seq = store.seq
    /\ store.pc = "rename" /\ store.past # {} => sidecar[store.seq] = store.past

\* While no number is used twice, the only record ahead of memory is the one that failed last.
AheadOf(n, c, d) ==
    \A i \in DOMAIN journal : Parses(journal[i]) =>
        /\ journal[i].recs[1].seq <= n + 1
        /\ journal[i].recs[1].seq = n + 1 => applyOperation(c, journal[i].recs[1].op) = d

OneAhead == Live /\ ~Glued(journal) /\ ~Repeated(journal) => AheadOf(store.seq, truth, maybe)

\* What a start would make of the files.
ShowsUpTo(n) ==
    \/ Replayed.s.seq = n /\ View(Replayed.s) = truth
    \/ Replayed.s.seq = n + 1 /\ View(Replayed.s) = maybe

ReplayTrue ==
    ~Glued(journal) /\ Replayed.end # "bad" =>
        /\ Live => ShowsUpTo(store.seq)
        /\ ~Live => View(Replayed.s) \in {truth, maybe}

Blemished(j) == Glued(j) \/ Repeated(j) \/ Gapped(j)

\* The journal begins no later than behind the snapshot.
FirstFits ==
    /\ journal # <<>> /\ Parses(journal[1]) => journal[1].recs[1].seq <= snapshot.seq + 1
    /\ Live /\ journal = <<>> => store.seq = snapshot.seq

RefusedBlemished == store.pc = "refused" => Blemished(journal)

StoreInv ==
    JournalTypes /\ SeqsTried /\ LinesEnded /\ MemoryTrue /\ OneAhead /\ ReplayTrue /\ FirstFits
      /\ RefusedBlemished

-----------------------------------------------------------------------------
(* The replay is a recursion over the journal: what it has after each line *)

ReplayBase == [s |-> FromSnapshot, last |-> 0, valid |-> 0, end |-> "whole"]

\* The recursion behind the replay, over the sets of the first n lines.
Replays(g, n) ==
    g = [s \in SUBSET (1..n) |-> IF s = {} THEN ReplayBase
                                 ELSE ReplayLine(g[s \ {Max(s)}], journal[Max(s)])]

LEMMA MaxIs ==
    ASSUME NEW s \in SUBSET Nat, NEW n \in s, \A m \in s : m <= n
    PROVE  Max(s) = n
<1>1. \A m \in s : n >= m
  OBVIOUS
<1>2. \A x \in s : (\A m \in s : x >= m) => x = n
  OBVIOUS
<1>3. (CHOOSE x \in s : \A m \in s : x >= m) = n
  BY <1>1, <1>2
<1> QED BY <1>3 DEF Max

LEMMA ReplayExists == \A n \in Nat : \E g : Replays(g, n)
<1> DEFINE Bad == {n \in Nat : ~ \E g : Replays(g, n)}
<1> SUFFICES ASSUME Bad # {} PROVE FALSE
  OBVIOUS
<1>1. PICK n \in Bad : \A m \in Bad : n <= m
  <2>1. Bad \in SUBSET Nat
    OBVIOUS
  <2> HIDE DEF Bad
  <2> QED BY <2>1, LeastNumber
<1>2. CASE n = 0
  <2> DEFINE g == [s \in SUBSET (1..0) |-> ReplayBase]
  <2>1. \A s \in SUBSET (1..0) : s = {}
    OBVIOUS
  <2>2. g = [s \in SUBSET (1..0) |-> IF s = {} THEN ReplayBase
                                     ELSE ReplayLine(g[s \ {Max(s)}], journal[Max(s)])]
    BY <2>1
  <2> HIDE DEF g
  <2>3. Replays(g, 0)
    BY <2>2 DEF Replays
  <2> QED BY <1>2, <2>3
<1>3. CASE n # 0
  <2>1. n - 1 \in Nat /\ n - 1 \notin Bad /\ n \in Nat
    BY <1>1, <1>3
  <2>2. PICK g : Replays(g, n - 1)
    BY <2>1
  <2> DEFINE h == [s \in SUBSET (1..n) |-> IF s \in SUBSET (1 .. (n-1)) THEN g[s]
                                           ELSE ReplayLine(g[s \ {n}], journal[n])]
  <2>3. ASSUME NEW s \in SUBSET (1..n)
        PROVE  h[s] = IF s = {} THEN ReplayBase ELSE ReplayLine(h[s \ {Max(s)}], journal[Max(s)])
    <3>1. CASE s \in SUBSET (1 .. (n-1))
      <4>1. s \ {Max(s)} \in SUBSET (1 .. (n-1)) /\ s \ {Max(s)} \in SUBSET (1..n)
        BY <3>1
      <4>2. g[s] = IF s = {} THEN ReplayBase ELSE ReplayLine(g[s \ {Max(s)}], journal[Max(s)])
        BY <2>2, <3>1 DEF Replays
      <4>3. h[s] = g[s] /\ h[s \ {Max(s)}] = g[s \ {Max(s)}]
        BY <3>1, <4>1
      <4> QED BY <4>2, <4>3
    <3>2. CASE s \notin SUBSET (1 .. (n-1))
      <4>1. n \in s /\ s \ {n} \in SUBSET (1 .. (n-1)) /\ s \ {n} \in SUBSET (1..n)
        BY <2>1, <3>2
      <4>2. Max(s) = n
        <5>1. s \in SUBSET Nat /\ \A m \in s : m <= n
          BY <2>1
        <5> QED BY <4>1, <5>1, MaxIs
      <4>3. h[s] = ReplayLine(g[s \ {n}], journal[n]) /\ h[s \ {n}] = g[s \ {n}]
        BY <3>2, <4>1
      <4> QED BY <4>1, <4>2, <4>3
    <3> QED BY <3>1, <3>2
  <2>4. h = [s \in SUBSET (1..n) |-> IF s = {} THEN ReplayBase
                                     ELSE ReplayLine(h[s \ {Max(s)}], journal[Max(s)])]
    <3>1. h = [s \in SUBSET (1..n) |-> h[s]]
      OBVIOUS
    <3> HIDE DEF h
    <3>2. \A s \in SUBSET (1..n) :
              h[s] = IF s = {} THEN ReplayBase ELSE ReplayLine(h[s \ {Max(s)}], journal[Max(s)])
      BY <2>3
    <3> QED BY <3>1, <3>2
  <2> HIDE DEF h
  <2>5. Replays(h, n)
    BY <2>4 DEF Replays
  <2> QED BY <1>1, <2>5
<1> QED BY <1>2, <1>3

\* What the replay has after each line.
Course(st) ==
    /\ st[0] = ReplayBase
    /\ \A k \in 1 .. Len(journal) : st[k] = ReplayLine(st[k - 1], journal[k])
    /\ Replayed = st[Len(journal)]

HasCourse == \E st : Course(st)

LEMMA ReplayCourse == journal \in Seq(Lines) => HasCourse
<1> SUFFICES ASSUME journal \in Seq(Lines) PROVE HasCourse
  OBVIOUS
<1>1. Len(journal) \in Nat /\ DOMAIN journal = 1..Len(journal)
  OBVIOUS
<1>2. PICK c : Replays(c, Len(journal))
  BY <1>1, ReplayExists
<1>3. c = [s \in SUBSET (DOMAIN journal) |-> IF s = {} THEN ReplayBase
                                             ELSE ReplayLine(c[s \ {Max(s)}], journal[Max(s)])]
  BY <1>1, <1>2 DEF Replays
<1>4. \E d : /\ d = [s \in SUBSET (DOMAIN journal) |-> IF s = {} THEN ReplayBase
                                             ELSE ReplayLine(d[s \ {Max(s)}], journal[Max(s)])]
             /\ Replayed = d[DOMAIN journal]
  BY <1>3 DEF Replayed, FoldLeft, MapThenFoldSet, ReplayBase
<1>5. PICK g : Replays(g, Len(journal)) /\ Replayed = g[1..Len(journal)]
  BY <1>1, <1>4 DEF Replays
<1> DEFINE st == [k \in 0..Len(journal) |-> g[1..k]]
<1>6. st[0] = ReplayBase
  BY <1>1, <1>5 DEF Replays
<1>7. ASSUME NEW k \in 1..Len(journal) PROVE st[k] = ReplayLine(st[k - 1], journal[k])
  <2>1. k \in 0..Len(journal) /\ k-1 \in 0..Len(journal) /\ k \in Nat \ {0}
    BY <1>1
  <2>2. 1..k # {} /\ (1..k) \ {k} = 1..(k-1) /\ 1..k \in SUBSET Nat /\ k \in 1..k
    BY <2>1
  <2>3. 1..k \in SUBSET (1..Len(journal))
    BY <1>1
  <2>4. Max(1..k) = k
    <3>1. \A m \in 1..k : m <= k
      BY <2>1
    <3> QED BY <2>2, <3>1, MaxIs
  <2>5. g[1..k] = ReplayLine(g[1..(k-1)], journal[k])
    BY <1>5, <2>2, <2>3, <2>4 DEF Replays
  <2> QED BY <2>1, <2>5
<1>8. Replayed = st[Len(journal)]
  BY <1>1, <1>5
<1> HIDE DEF st
<1> QED BY <1>6, <1>7, <1>8 DEF Course, HasCourse

LEMMA UpTo ==
    ASSUME NEW n \in Nat, NEW S, 0 \in S, \A k \in 1..n : k - 1 \in S => k \in S
    PROVE  \A k \in 0..n : k \in S
<1> DEFINE Bad == {k \in 0..n : k \notin S}
<1> SUFFICES ASSUME Bad # {} PROVE FALSE
  OBVIOUS
<1>1. PICK k \in Bad : \A m \in Bad : k <= m
  <2>1. Bad \subseteq Nat
    OBVIOUS
  <2> HIDE DEF Bad
  <2> QED BY <2>1, LeastNumber
<1>2. k \in 1..n /\ k - 1 \in 0..n /\ k - 1 \notin Bad
  BY <1>1
<1> QED BY <1>1, <1>2

-----------------------------------------------------------------------------
(* One record *)

Accs == [s : Processes, last : 0 .. MaxOps, valid : Nat, end : {"whole", "cut", "bad"}]

Sidecars == sidecar \in [0 .. MaxOps -> SUBSET Items]

LEMMA ViewLoaded ==
    ASSUME Sidecars, NEW s \in Processes
    PROVE  /\ loadHistory(s) \in Processes /\ loadHistory(s).loaded
           /\ loadHistory(s).hist = s.hist /\ loadHistory(s).seq = s.seq
           /\ loadHistory(s).entries = s.entries /\ loadHistory(s).rows = s.rows
           /\ loadHistory(s).pc = s.pc /\ loadHistory(s).closing = s.closing
           /\ View(loadHistory(s)) = View(s)
           /\ loadHistory(s).past = View(s).past
           /\ View(s) \in Contents /\ View(s).rows = s.rows
           /\ s.loaded => loadHistory(s) = s /\ View(s) = Raw(s)
           /\ View(s) = [rows |-> s.rows, past |-> IF s.loaded THEN s.past ELSE Archived(s) \cup s.past]
<1>1. Archived(s) \in SUBSET Items
  BY DEF Sidecars, Archived, Processes
<1>2. CASE s.loaded
  BY <1>1, <1>2 DEF loadHistory, View, Raw, Processes, Contents
<1>3. CASE ~s.loaded
  <2> DEFINE t == [s EXCEPT !.past = Archived(s) \cup @, !.loaded = TRUE]
  <2>1. loadHistory(s) = t
    BY <1>3 DEF loadHistory
  <2>2. t \in Processes /\ t.loaded /\ t.hist = s.hist /\ t.seq = s.seq /\ t.entries = s.entries
        /\ t.rows = s.rows /\ t.pc = s.pc /\ t.closing = s.closing /\ t.past = Archived(s) \cup s.past
    BY <1>1 DEF Processes
  <2> HIDE DEF t
  <2>3. loadHistory(t) = t
    BY <2>2 DEF loadHistory
  <2>4. s.rows \in SUBSET Items /\ s.past \in SUBSET Items
    BY DEF Processes
  <2> QED BY <1>1, <1>3, <2>1, <2>2, <2>3, <2>4 DEF View, Contents
<1> QED BY <1>2, <1>3

LEMMA ApplyTyped ==
    ASSUME NEW c \in Contents, NEW op \in Operations PROVE applyOperation(c, op) \in Contents
BY DEF applyOperation, Contents, Operations

\* A record put into memory shows what the operation makes of what memory showed.
LEMMA Shown ==
    ASSUME Sidecars, NEW s \in Processes, NEW op \in Operations, op.kind = "drop" => s.loaded
    PROVE  /\ Show(s, applyOperation(Raw(s), op)) \in Processes
           /\ Show(s, applyOperation(Raw(s), op)).hist = s.hist
           /\ Show(s, applyOperation(Raw(s), op)).loaded = s.loaded
           /\ Show(s, applyOperation(Raw(s), op)).pc = s.pc
           /\ Show(s, applyOperation(Raw(s), op)).closing = s.closing
           /\ Show(s, applyOperation(Raw(s), op)).seq = s.seq
           /\ Show(s, applyOperation(Raw(s), op)).entries = s.entries
           /\ View(Show(s, applyOperation(Raw(s), op))) = applyOperation(View(s), op)
<1> DEFINE c == applyOperation(Raw(s), op)
           t == Show(s, c)
<1>1. Raw(s) \in Contents
  BY DEF Raw, Contents, Processes
<1>2. c \in Contents
  BY <1>1, ApplyTyped
<1> HIDE DEF c
<1>3. /\ t \in Processes /\ t.hist = s.hist /\ t.loaded = s.loaded /\ t.pc = s.pc /\ t.closing = s.closing
      /\ t.seq = s.seq /\ t.entries = s.entries /\ t.rows = c.rows /\ t.past = c.past
  BY <1>2 DEF Show, Processes, Contents
<1> HIDE DEF t
<1>4. Archived(t) = Archived(s)
  BY <1>3 DEF Archived
<1>5. View(t) = [rows |-> c.rows, past |-> IF s.loaded THEN c.past ELSE Archived(s) \cup c.past]
  BY <1>3, <1>4, ViewLoaded
<1>6. View(s) = [rows |-> s.rows, past |-> IF s.loaded THEN s.past ELSE Archived(s) \cup s.past]
  BY ViewLoaded
<1>7. View(t) = applyOperation(View(s), op)
  <2>1. CASE op.kind = "row"
    <3>1. c.rows = s.rows \cup {op.item} /\ c.past = s.past
      BY <2>1 DEF c, Raw, applyOperation
    <3>2. applyOperation(View(s), op) = [View(s) EXCEPT !.rows = @ \cup {op.item}]
      BY <2>1 DEF applyOperation
    <3>3. CASE s.loaded
      BY <1>5, <1>6, <3>1, <3>2, <3>3
    <3>4. CASE ~s.loaded
      <4>1. View(t) = [rows |-> s.rows \cup {op.item}, past |-> Archived(s) \cup s.past]
        BY <1>5, <3>1, <3>4
      <4>2. View(s) = [rows |-> s.rows, past |-> Archived(s) \cup s.past]
        BY <1>6, <3>4
      <4> QED BY <3>2, <4>1, <4>2
    <3> QED BY <3>3, <3>4
  <2>2. CASE op.kind = "keep"
    <3>1. c.rows = s.rows /\ c.past = s.past \cup {op.item}
      BY <2>2 DEF c, Raw, applyOperation
    <3>2. applyOperation(View(s), op) = [View(s) EXCEPT !.past = @ \cup {op.item}]
      BY <2>2 DEF applyOperation
    <3>3. Archived(s) \cup (s.past \cup {op.item}) = (Archived(s) \cup s.past) \cup {op.item}
      OBVIOUS
    <3> QED BY <1>5, <1>6, <3>1, <3>2, <3>3
  <2>3. CASE op.kind = "drop"
    <3>1. c.rows = s.rows /\ c.past = s.past \ {op.item}
      BY <2>3 DEF c, Raw, applyOperation
    <3>2. applyOperation(View(s), op) = [View(s) EXCEPT !.past = @ \ {op.item}]
      BY <2>3 DEF applyOperation
    <3> QED BY <1>5, <1>6, <2>3, <3>1, <3>2
  <2> QED BY <2>1, <2>2, <2>3 DEF Operations
<1>8. t = Show(s, applyOperation(Raw(s), op))
  BY DEF t, c
<1> QED BY <1>3, <1>7, <1>8

LEMMA RecordSkipped ==
    ASSUME NEW a \in Accs, NEW r \in StoreRecords, r.seq <= a.s.seq
    PROVE  ReplayRecord(a, r) = [a EXCEPT !.last = r.seq, !.valid = @ + 1]
BY DEF ReplayRecord, Replaying

LEMMA RecordApplied ==
    ASSUME Sidecars, NEW a \in Accs, NEW r \in StoreRecords, r.seq > a.s.seq
    PROVE  \E s \in Processes :
             /\ ReplayRecord(a, r) = [a EXCEPT !.last = r.seq, !.valid = @ + 1, !.s = s]
             /\ s.seq = r.seq /\ s.hist = a.s.hist /\ s.entries = a.s.entries + 1
             /\ View(s) = applyOperation(View(a.s), r.op)
<1> DEFINE u == IF r.op.kind = "drop" THEN loadHistory(a.s) ELSE a.s
           w == Show(u, applyOperation(Raw(u), r.op))
           s == [w EXCEPT !.seq = r.seq, !.entries = @ + 1]
<1>1. a.s \in Processes /\ r.op \in Operations /\ r.seq \in 1 .. MaxOps
  BY DEF Accs, StoreRecords
<1>2. u \in Processes /\ u.hist = a.s.hist /\ u.entries = a.s.entries /\ View(u) = View(a.s)
      /\ (r.op.kind = "drop" => u.loaded)
  BY <1>1, ViewLoaded
<1>3. ReplayRecord(a, r) = [a EXCEPT !.last = r.seq, !.valid = @ + 1, !.s = s]
  <2>1. ~ (r.seq <= a.s.seq)
    BY <1>1 DEF Processes
  <2> QED BY <2>1 DEF ReplayRecord, Replaying
<1> HIDE DEF u
<1>4. w \in Processes /\ w.hist = u.hist /\ w.entries = u.entries
      /\ View(w) = applyOperation(View(u), r.op)
  BY <1>1, <1>2, Shown
<1> HIDE DEF w
<1>5. s \in Processes /\ s.seq = r.seq /\ s.hist = w.hist /\ s.entries = w.entries + 1
      /\ s.rows = w.rows /\ s.past = w.past /\ s.loaded = w.loaded
  <2>1. r.seq \in 0 .. MaxOps
    BY <1>1, StoreAssumption
  <2>2. w.entries + 1 \in Nat
    BY <1>4 DEF Processes
  <2> QED BY <1>4, <2>1, <2>2 DEF Processes
<1> HIDE DEF s
<1>6. View(s) = View(w)
  <2>1. Archived(s) = Archived(w)
    BY <1>5 DEF Archived
  <2>2. View(s) = [rows |-> s.rows, past |-> IF s.loaded THEN s.past ELSE Archived(s) \cup s.past]
    BY <1>5, ViewLoaded
  <2>3. View(w) = [rows |-> w.rows, past |-> IF w.loaded THEN w.past ELSE Archived(w) \cup w.past]
    BY <1>4, ViewLoaded
  <2> QED BY <1>5, <2>1, <2>2, <2>3
<1> QED BY <1>2, <1>3, <1>4, <1>5, <1>6

-----------------------------------------------------------------------------
(* The replay, line by line *)

JournalFits == JournalTypes /\ SeqsTried

\* The first n lines are records, each above the one before, the last numbered last.
Rising(n, last) ==
    /\ n = 0 => last = 0
    /\ n > 0 => last = journal[n].recs[1].seq
    /\ \A i \in 1 .. n : Parses(journal[i]) /\ journal[i].recs[1].seq <= last
    /\ \A i, j \in 1 .. n : i < j => journal[i].recs[1].seq < journal[j].recs[1].seq

\* What the replay has after k lines.
SoundCount(a, k) ==
    /\ a \in Accs
    /\ a.s.hist = snapshot.hist
    /\ a.s.seq <= ops /\ snapshot.seq <= a.s.seq
    /\ a.s.entries = 0 => a.s = FromSnapshot /\ a.s.seq = snapshot.seq /\ a.last <= snapshot.seq
    /\ a.s.entries > 0 => a.last = a.s.seq /\ a.last > snapshot.seq
    /\ a.valid <= k
    /\ a.end = "whole" => a.valid = k
    /\ a.end = "cut" => a.valid = Len(journal) - 1 /\ k = Len(journal) /\ ~Parses(journal[k])
    /\ a.valid > 0 => journal[1].recs[1].seq <= snapshot.seq + 1

Sound(a, k) == SoundCount(a, k) /\ Rising(a.valid, a.last)

LEMMA BaseSound == JournalFits => Sound(ReplayBase, 0)
<1> SUFFICES ASSUME JournalFits PROVE Sound(ReplayBase, 0)
  OBVIOUS
<1>1. /\ snapshot.hist \in 0 .. MaxOps /\ snapshot.seq \in 0 .. MaxOps /\ snapshot.rows \in SUBSET Items
      /\ snapshot.seq <= ops /\ 0 \in 0 .. MaxOps /\ Len(journal) \in Nat
  BY StoreAssumption DEF JournalFits, JournalTypes, SeqsTried
<1>2. FromSnapshot \in Processes /\ FromSnapshot.hist = snapshot.hist /\ FromSnapshot.seq = snapshot.seq
      /\ FromSnapshot.entries = 0
  BY <1>1 DEF FromSnapshot, Down, Processes
<1>3. ReplayBase.s = FromSnapshot /\ ReplayBase.last = 0 /\ ReplayBase.valid = 0 /\ ReplayBase.end = "whole"
      /\ ReplayBase \in Accs
  BY <1>1, <1>2 DEF ReplayBase, Accs
<1> HIDE DEF ReplayBase
<1> QED BY <1>1, <1>2, <1>3 DEF Sound, SoundCount, Rising

LEMMA LineTyped ==
    ASSUME JournalFits, NEW k \in 1 .. Len(journal)
    PROVE  /\ journal[k] \in Lines /\ k \in DOMAIN journal
           /\ Parses(journal[k]) => /\ journal[k].recs[1] \in StoreRecords
                                    /\ journal[k].recs[1].seq <= ops
<1>1. journal \in Seq(Lines) /\ journal[k] \in Lines /\ k \in DOMAIN journal
  BY DEF JournalFits, JournalTypes
<1>2. ASSUME Parses(journal[k])
      PROVE  journal[k].recs[1] \in StoreRecords /\ journal[k].recs[1].seq <= ops
  <2>1. journal[k].recs \in Seq(StoreRecords) /\ Len(journal[k].recs) = 1
    BY <1>1, <1>2 DEF Lines, Parses
  <2>2. 1 \in DOMAIN journal[k].recs /\ journal[k].recs[1] \in StoreRecords
    BY <2>1
  <2>3. journal[k].recs[1] \in {r \in StoreRecords : r.seq <= ops}
    <3>1. journal[k].recs \in Seq({r \in StoreRecords : r.seq <= ops})
      BY <1>1 DEF JournalFits, SeqsTried, Below
    <3>2. 1 \in 1 .. Len(journal[k].recs)
      BY <2>1
    <3> QED BY <3>1, <3>2
  <2> QED BY <2>2, <2>3
<1> QED BY <1>1, <1>2

LEMMA LineSound ==
    ASSUME JournalFits, NEW a, NEW k \in 1 .. Len(journal), Sound(a, k - 1)
    PROVE  Sound(ReplayLine(a, journal[k]), k)
<1> DEFINE b == ReplayLine(a, journal[k])
<1> SUFFICES Sound(b, k)
  OBVIOUS
<1>t. Len(journal) \in Nat /\ a \in Accs /\ a.s \in Processes /\ a.last \in 0 .. MaxOps
      /\ a.valid \in Nat /\ a.end \in {"whole", "cut", "bad"} /\ a.s.seq \in 0 .. MaxOps
      /\ a.s.entries \in Nat /\ ops \in 0 .. MaxOps /\ snapshot.seq \in 0 .. MaxOps /\ Sidecars
      /\ MaxOps \in Nat
  BY StoreAssumption, SMTT(30) DEF Sound, SoundCount, Accs, Processes, JournalFits, JournalTypes, Sidecars
<1>1. CASE a.end # "whole"
  <2>1. b = a
    BY <1>1 DEF ReplayLine
  <2>2. a.end = "bad"
    BY <1>1, <1>t DEF Sound, SoundCount
  <2> HIDE DEF b
  <2> QED BY <1>t, <2>1, <2>2 DEF Sound, SoundCount
<1>2. CASE a.end = "whole" /\ ~Parses(journal[k])
  <2>0. a.valid = k - 1
    BY <1>2 DEF Sound, SoundCount
  <2>1. PICK e \in {"cut", "bad"} : b = [a EXCEPT !.end = e] /\ (e = "cut" => a.valid + 1 = Len(journal))
    BY <1>2 DEF ReplayLine
  <2> HIDE DEF b
  <2>2. b \in Accs /\ b.s = a.s /\ b.last = a.last /\ b.valid = a.valid /\ b.end = e
    BY <1>t, <2>1 DEF Accs
  <2>3. e = "cut" => a.valid = Len(journal) - 1 /\ k = Len(journal) /\ ~Parses(journal[k])
    BY <1>2, <1>t, <2>0, <2>1
  <2> QED BY <1>t, <2>0, <2>2, <2>3 DEF Sound, SoundCount
<1>3. CASE a.end = "whole" /\ Parses(journal[k]) /\ ~Contiguous(a, journal[k].recs[1])
  <2>0. a.valid = k - 1
    BY <1>3 DEF Sound, SoundCount
  <2>1. b = [a EXCEPT !.end = "bad"]
    BY <1>3 DEF ReplayLine
  <2> HIDE DEF b
  <2>2. b \in Accs /\ b.s = a.s /\ b.last = a.last /\ b.valid = a.valid /\ b.end = "bad"
    BY <1>t, <2>1 DEF Accs
  <2> QED BY <1>t, <2>0, <2>2 DEF Sound, SoundCount
<1>4. CASE a.end = "whole" /\ Parses(journal[k]) /\ Contiguous(a, journal[k].recs[1])
  <2> DEFINE r == journal[k].recs[1]
  <2>0. a.valid = k - 1
    BY <1>4 DEF Sound, SoundCount
  <2>1. b = ReplayRecord(a, r)
    BY <1>4 DEF ReplayLine
  <2>2. r \in StoreRecords /\ r.seq <= ops /\ r.seq \in 1 .. MaxOps
    BY <1>4, LineTyped DEF StoreRecords
  <2>3. r.seq > a.last /\ (a.s.entries > 0 => r.seq > a.s.seq)
    <3>1. /\ a.s.entries = 0 => a.s.seq = snapshot.seq /\ a.last <= snapshot.seq
          /\ a.s.entries > 0 => a.last = a.s.seq
      BY DEF Sound, SoundCount
    <3>2. r.seq \in Nat /\ r.seq > 0 /\ a.last \in Nat /\ a.s.seq \in Nat /\ snapshot.seq \in Nat
      BY <1>t, <2>2, SMTT(30)
    <3>3. IF r.seq > a.s.seq
          THEN IF a.s.entries = 0 THEN r.seq = a.s.seq + 1 ELSE r.seq = a.last + 1
          ELSE r.seq = a.last + 1 \/ a.last = 0
      BY <1>4 DEF Contiguous
    <3> HIDE DEF r
    <3> QED BY <1>t, <3>1, <3>2, <3>3
  <2>4. \A i \in 1 .. k : i \in 1 .. a.valid \/ i = k
    BY <2>0
  <2>5. \A i \in 1 .. a.valid : journal[i].recs[1].seq < r.seq /\ Parses(journal[i]) /\ journal[i].recs[1].seq \in Nat
    <3> SUFFICES ASSUME NEW i \in 1 .. a.valid
                 PROVE  journal[i].recs[1].seq < r.seq /\ Parses(journal[i]) /\ journal[i].recs[1].seq \in Nat
      OBVIOUS
    <3>1. Parses(journal[i]) /\ journal[i].recs[1].seq <= a.last
      BY DEF Sound, Rising
    <3>2. i \in 1 .. Len(journal)
      BY <1>t, <2>0
    <3>3. journal[i].recs[1].seq \in Nat
      BY <3>1, <3>2, LineTyped DEF StoreRecords
    <3> QED BY <1>t, <2>2, <2>3, <3>1, <3>3
  <2>6. \A i, j \in 1 .. k : i < j => journal[i].recs[1].seq < journal[j].recs[1].seq
    <3> SUFFICES ASSUME NEW i \in 1 .. k, NEW j \in 1 .. k, i < j
                 PROVE  journal[i].recs[1].seq < journal[j].recs[1].seq
      OBVIOUS
    <3>1. i \in 1 .. a.valid
      BY <2>0, <2>4
    <3>2. CASE j = k
      BY <2>5, <3>1, <3>2
    <3>3. CASE j \in 1 .. a.valid
      BY <3>1, <3>3 DEF Sound, Rising
    <3> QED BY <2>4, <3>2, <3>3
  <2>7. \A i \in 1 .. k : Parses(journal[i]) /\ journal[i].recs[1].seq <= r.seq
    BY <1>4, <2>2, <2>4, <2>5
  <2>10. Rising(k, r.seq)
    BY <2>6, <2>7 DEF Rising
  <2>11. r.seq \in 0 .. MaxOps /\ a.valid + 1 = k /\ k \in Nat
    BY <1>t, <2>0, <2>2
  <2>12. journal[1].recs[1].seq <= snapshot.seq + 1
    <3>1. CASE k = 1
      <4>1. a.last = 0
        BY <2>0, <3>1 DEF Sound, Rising
      <4>2. a.s.entries = 0
        BY <1>t, <4>1 DEF Sound, SoundCount
      <4>3. a.s.seq = snapshot.seq
        BY <4>2 DEF Sound, SoundCount
      <4>4. r.seq > a.s.seq => r.seq = a.s.seq + 1
        BY <1>4, <4>2 DEF Contiguous
      <4>5. journal[1].recs[1].seq = r.seq
        BY <3>1
      <4> HIDE DEF r
      <4> QED BY <1>t, <2>2, <4>3, <4>4, <4>5
    <3>2. CASE k # 1
      <4>1. a.valid > 0
        BY <2>0, <3>2
      <4> QED BY <4>1 DEF Sound, SoundCount
    <3> QED BY <3>1, <3>2
  <2> HIDE DEF b, r
  <2>8. CASE r.seq <= a.s.seq
    <3>1. b = [a EXCEPT !.last = r.seq, !.valid = @ + 1]
      BY <1>t, <2>1, <2>2, <2>8, RecordSkipped
    <3>2. b \in Accs /\ b.s = a.s /\ b.last = r.seq /\ b.valid = k /\ b.end = "whole"
      BY <1>4, <1>t, <2>11, <3>1 DEF Accs
    <3>3. a.s.entries = 0 /\ r.seq <= snapshot.seq
      BY <1>t, <2>2, <2>3, <2>8 DEF Sound, SoundCount
    <3>4. SoundCount(b, k)
      BY <1>t, <2>11, <2>12, <3>2, <3>3 DEF Sound, SoundCount
    <3> QED BY <2>10, <3>2, <3>4 DEF Sound
  <2>9. CASE r.seq > a.s.seq
    <3>1. PICK s \in Processes :
             /\ b = [a EXCEPT !.last = r.seq, !.valid = @ + 1, !.s = s]
             /\ s.seq = r.seq /\ s.hist = a.s.hist /\ s.entries = a.s.entries + 1
      BY <1>t, <2>1, <2>2, <2>9, RecordApplied
    <3>2. b \in Accs /\ b.s = s /\ b.last = r.seq /\ b.valid = k /\ b.end = "whole"
      BY <1>4, <1>t, <2>11, <3>1 DEF Accs
    <3>3. s.entries > 0 /\ r.seq > snapshot.seq /\ snapshot.seq <= s.seq
      BY <1>t, <2>2, <2>9, <3>1 DEF Sound, SoundCount
    <3>5. s.hist = snapshot.hist /\ s.seq <= ops
      BY <2>2, <3>1 DEF Sound, SoundCount
    <3>6. SoundCount(b, k)
      BY <1>t, <2>11, <2>12, <3>1, <3>2, <3>3, <3>5 DEF SoundCount
    <3> QED BY <2>10, <3>2, <3>6 DEF Sound
  <2> QED BY <1>t, <2>2, <2>8, <2>9
<1> QED BY <1>1, <1>2, <1>3, <1>4, <1>t

LEMMA CourseSound ==
    ASSUME JournalFits, NEW st, Course(st)
    PROVE  \A k \in 0 .. Len(journal) : Sound(st[k], k)
<1> DEFINE S == {k \in 0 .. Len(journal) : Sound(st[k], k)}
<1>1. Len(journal) \in Nat
  BY DEF JournalFits, JournalTypes
<1>2. 0 \in S
  BY <1>1, BaseSound DEF Course
<1>3. ASSUME NEW k \in 1 .. Len(journal), k - 1 \in S PROVE k \in S
  <2>1. Sound(st[k - 1], k - 1) /\ st[k] = ReplayLine(st[k - 1], journal[k])
    BY <1>3 DEF Course
  <2>2. Sound(st[k], k)
    BY <2>1, LineSound
  <2> QED BY <1>1, <2>2
<1> HIDE DEF S
<1>4. \A k \in 0 .. Len(journal) : k \in S
  BY <1>1, <1>2, <1>3, UpTo
<1> QED BY <1>4 DEF S

LEMMA ReplayedSound == JournalFits => Sound(Replayed, Len(journal))
<1> SUFFICES ASSUME JournalFits PROVE Sound(Replayed, Len(journal))
  OBVIOUS
<1>1. journal \in Seq(Lines) /\ Len(journal) \in Nat
  BY DEF JournalFits, JournalTypes
<1>2. PICK st : Course(st)
  BY <1>1, ReplayCourse DEF HasCourse
<1>3. \A k \in 0 .. Len(journal) : Sound(st[k], k)
  BY <1>2, CourseSound
<1>4. Len(journal) \in 0 .. Len(journal)
  BY <1>1
<1> QED BY <1>2, <1>3, <1>4 DEF Course

-----------------------------------------------------------------------------
(* The replay after the files have changed *)

\* A line does the same to the same replay when the history files it may read are the same.
LEMMA LineAgain ==
    ASSUME NEW a, NEW line, a.s.hist # 0 => sidecar'[a.s.hist] = sidecar[a.s.hist],
           Parses(line) \/ Len(journal') = Len(journal)
    PROVE  ReplayLine(a, line)' = ReplayLine(a, line)
<1>1. loadHistory(a.s)' = loadHistory(a.s)
  BY DEF loadHistory, Archived
<1>2. Parses(line) => ReplayRecord(a, line.recs[1])' = ReplayRecord(a, line.recs[1])
  BY <1>1 DEF ReplayRecord
<1>3. CASE a.end # "whole"
  BY <1>3 DEF ReplayLine
<1>4. CASE a.end = "whole" /\ Parses(line)
  BY <1>2, <1>4 DEF ReplayLine
<1>5. CASE a.end = "whole" /\ ~Parses(line)
  BY <1>5 DEF ReplayLine
<1> QED BY <1>3, <1>4, <1>5

\* What a replay reads of the snapshot is what it was.
SameBase == snapshot' = snapshot /\ (snapshot.hist # 0 => sidecar'[snapshot.hist] = sidecar[snapshot.hist])

LEMMA PrefixAgain ==
    ASSUME JournalFits, NEW st, Course(st), NEW tt, Course(tt)', SameBase,
           NEW n \in 0 .. Len(journal), n <= Len(journal'), Len(journal') \in Nat,
           \A i \in 1 .. n : journal'[i] = journal[i]
                             /\ (Parses(journal[i]) \/ Len(journal') = Len(journal))
    PROVE  \A k \in 0 .. n : tt[k] = st[k]
<1> DEFINE S == {k \in 0 .. n : tt[k] = st[k]}
<1>1. Len(journal) \in Nat /\ n \in Nat
  BY DEF JournalFits, JournalTypes
<1>2. 0 \in S
  <2>1. ReplayBase' = ReplayBase
    BY DEF SameBase, ReplayBase, FromSnapshot
  <2> QED BY <1>1, <2>1 DEF Course
<1>3. ASSUME NEW k \in 1 .. n, k - 1 \in S PROVE k \in S
  <2>1. k \in 1 .. Len(journal) /\ k - 1 \in 0 .. Len(journal) /\ tt[k - 1] = st[k - 1]
    BY <1>1, <1>3
  <2>2. k \in 1 .. Len(journal')
    BY <1>1
  <2>3. st[k - 1].s.hist = snapshot.hist
    BY <2>1, CourseSound DEF Sound, SoundCount
  <2>4. tt[k] = ReplayLine(tt[k - 1], journal[k])'
    BY <2>2 DEF Course
  <2>5. PICK a, line : a = st[k - 1] /\ line = journal[k]
    OBVIOUS
  <2>6. a = tt[k - 1] /\ line = journal'[k] /\ (Parses(line) \/ Len(journal') = Len(journal))
    BY <2>1, <2>5
  <2>7. tt[k] = ReplayLine(a, line)'
    BY <2>4, <2>6
  <2>8. ReplayLine(a, line)' = ReplayLine(a, line)
    BY <2>3, <2>5, <2>6, LineAgain DEF SameBase
  <2>9. st[k] = ReplayLine(a, line)
    BY <2>1, <2>5 DEF Course
  <2> QED BY <1>1, <2>7, <2>8, <2>9
<1> HIDE DEF S
<1>4. \A k \in 0 .. n : k \in S
  BY <1>1, <1>2, <1>3, UpTo
<1> QED BY <1>4 DEF S

LEMMA NextCourse == (journal \in Seq(Lines))' => HasCourse'
<1>1. (journal \in Seq(Lines) => HasCourse)'
  BY ReplayCourse, PTL
<1> QED BY <1>1

LEMMA ReplayAgain ==
    JournalFits /\ SameBase /\ journal' = journal => Replayed' = Replayed
<1> SUFFICES ASSUME JournalFits, SameBase, journal' = journal PROVE Replayed' = Replayed
  OBVIOUS
<1>1. journal \in Seq(Lines) /\ Len(journal) \in Nat /\ Len(journal') = Len(journal)
  BY DEF JournalFits, JournalTypes
<1>2. PICK st : Course(st)
  BY <1>1, ReplayCourse DEF HasCourse
<1>3. PICK tt : Course(tt)'
  BY <1>1, NextCourse DEF HasCourse
<1>4. \A k \in 0 .. Len(journal) : tt[k] = st[k]
  <2>1. Len(journal) \in 0 .. Len(journal)
    BY <1>1
  <2> QED BY <1>1, <1>2, <1>3, <2>1, PrefixAgain
<1>5. tt[Len(journal)] = st[Len(journal)]
  BY <1>1, <1>4
<1> QED BY <1>1, <1>2, <1>3, <1>5 DEF Course

\* A line put behind records that all parse is replayed after them.
LEMMA ReplayOneMore ==
    ASSUME JournalFits, SameBase, NEW line, journal' = Append(journal, line), (journal \in Seq(Lines))',
           \A i \in DOMAIN journal : Parses(journal[i])
    PROVE  \E a : a = Replayed /\ Replayed' = ReplayLine(a, line)'
<1> DEFINE n == Len(journal)
<1>1. journal \in Seq(Lines) /\ n \in Nat /\ DOMAIN journal = 1 .. n
  BY DEF JournalFits, JournalTypes
<1>2. Len(journal') = n + 1 /\ journal'[n + 1] = line /\ \A i \in 1 .. n : journal'[i] = journal[i]
  BY <1>1
<1>3. PICK st : Course(st)
  BY <1>1, ReplayCourse DEF HasCourse
<1>4. PICK tt : Course(tt)'
  BY NextCourse DEF HasCourse
<1> HIDE DEF n
<1>5. \A k \in 0 .. n : tt[k] = st[k]
  <2>1. n \in 0 .. Len(journal) /\ n <= Len(journal') /\ Len(journal') \in Nat
    BY <1>1, <1>2 DEF n
  <2>2. \A i \in 1 .. n : journal'[i] = journal[i] /\ (Parses(journal[i]) \/ Len(journal') = Len(journal))
    BY <1>1, <1>2
  <2> QED BY <1>3, <1>4, <2>1, <2>2, PrefixAgain
<1>6. PICK a, k : a = st[n] /\ k = n + 1
  OBVIOUS
<1>7. k \in 1 .. Len(journal') /\ tt[k - 1] = a /\ journal'[k] = line /\ Len(journal') = k
  BY <1>1, <1>2, <1>5, <1>6
<1>8. tt[k] = ReplayLine(tt[k - 1], journal[k])'
  BY <1>4, <1>7 DEF Course
<1>9. tt[k] = ReplayLine(a, line)'
  BY <1>7, <1>8
<1>10. a = Replayed /\ Replayed' = tt[k]
  BY <1>3, <1>4, <1>6, <1>7 DEF Course, n
<1> QED BY <1>9, <1>10

\* A last line that is cut off was all that the replay left out.
LEMMA ReplayCut ==
    ASSUME JournalFits, SameBase, Replayed.end = "cut", journal' = SubSeq(journal, 1, Replayed.valid)
    PROVE  Replayed'.end = "whole" /\ Replayed'.s = Replayed.s
<1> DEFINE n == Len(journal) - 1
<1>1. journal \in Seq(Lines) /\ Len(journal) \in Nat /\ DOMAIN journal = 1 .. Len(journal)
  BY DEF JournalFits, JournalTypes
<1>2. Replayed.valid = n /\ n \in Nat /\ n \in 0 .. Len(journal) /\ n + 1 = Len(journal)
      /\ \A i \in 1 .. n : Parses(journal[i])
  <2>1. Sound(Replayed, Len(journal))
    BY ReplayedSound
  <2>2. Replayed.valid = n /\ Replayed.valid \in Nat
    BY <2>1 DEF Sound, SoundCount, Accs
  <2> QED BY <1>1, <2>1, <2>2 DEF Sound, Rising
<1>3. journal' \in Seq(Lines) /\ Len(journal') = n /\ \A i \in 1 .. n : journal'[i] = journal[i]
  BY <1>1, <1>2
<1>4. PICK st : Course(st)
  BY <1>1, ReplayCourse DEF HasCourse
<1>5. PICK tt : Course(tt)'
  BY <1>3, NextCourse DEF HasCourse
<1>6. Replayed = st[n + 1] /\ st[n + 1] = ReplayLine(st[n], journal[n + 1])
  <2>1. n + 1 \in 1 .. Len(journal) /\ (n + 1) - 1 = n
    BY <1>1, <1>2
  <2> QED BY <1>2, <1>4, <2>1 DEF Course
<1>7. Sound(st[n], n)
  BY <1>2, <1>4, CourseSound
<1> HIDE DEF n
<1>8. st[n].end = "whole"
  <2> SUFFICES ASSUME st[n].end # "whole" PROVE FALSE
    OBVIOUS
  <2>1. st[n + 1] = st[n]
    BY <1>6 DEF ReplayLine
  <2>2. st[n].end = "cut"
    BY <1>6, <2>1, Zenon
  <2>3. n = Len(journal)
    BY <1>7, <2>2 DEF Sound, SoundCount
  <2> QED BY <1>1, <1>2, <2>3
<1>9. st[n + 1].s = st[n].s
  <2>1. st[n] \in Accs
    BY <1>7 DEF Sound, SoundCount
  <2>2. CASE ~Parses(journal[n + 1])
    <3>1. PICK e : st[n + 1] = [st[n] EXCEPT !.end = e]
      BY <1>6, <1>8, <2>2 DEF ReplayLine
    <3> QED BY <2>1, <3>1 DEF Accs
  <2>3. CASE Parses(journal[n + 1])
    <3>1. n + 1 \in 1 .. Len(journal) /\ Sound(st[n + 1], n + 1)
      BY <1>1, <1>2, <1>4, CourseSound
    <3> QED BY <1>2, <1>6, <2>3, <3>1 DEF Sound, SoundCount
  <2> QED BY <2>2, <2>3
<1>10. Replayed' = st[n]
  <2>1. \A k \in 0 .. n : tt[k] = st[k]
    <3>1. n <= Len(journal') /\ Len(journal') \in Nat
      BY <1>2, <1>3
    <3>2. \A i \in 1 .. n : journal'[i] = journal[i] /\ (Parses(journal[i]) \/ Len(journal') = Len(journal))
      BY <1>2, <1>3
    <3> QED BY <1>2, <1>4, <1>5, <3>1, <3>2, PrefixAgain
  <2>2. Replayed' = tt[n]
    BY <1>3, <1>5 DEF Course
  <2> QED BY <1>2, <2>1, <2>2
<1> QED BY <1>6, <1>8, <1>9, <1>10

LEMMA ReplayOfNothing == journal' = <<>> => Replayed' = ReplayBase'
<1> SUFFICES ASSUME journal' = <<>> PROVE Replayed' = ReplayBase'
  OBVIOUS
<1>1. journal' \in Seq(Lines) /\ Len(journal') = 0
  OBVIOUS
<1>2. PICK tt : Course(tt)'
  BY <1>1, NextCourse DEF HasCourse
<1> QED BY <1>1, <1>2 DEF Course

\* A replay that refuses nothing has seen no number twice, and none above its own.
LEMMA ReplayRises ==
    ASSUME JournalFits, Replayed.end # "bad"
    PROVE  /\ ~Repeated(journal)
           /\ \A i \in DOMAIN journal : Parses(journal[i]) => journal[i].recs[1].seq <= Replayed.s.seq
<1> DEFINE R == Replayed
<1>1. journal \in Seq(Lines) /\ Len(journal) \in Nat /\ DOMAIN journal = 1 .. Len(journal)
  BY DEF JournalFits, JournalTypes
<1>2. Sound(R, Len(journal))
  BY ReplayedSound
<1> HIDE DEF R
<1>3. R \in Accs /\ R.valid \in Nat /\ R.end \in {"cut", "whole"} /\ R.last \in Nat /\ R.s.seq \in Nat
      /\ R.s.entries \in Nat /\ snapshot.seq \in Nat
  BY <1>2 DEF R, Sound, SoundCount, Accs, Processes, JournalFits, JournalTypes
<1>4. R.last <= R.s.seq
  BY <1>2, <1>3 DEF Sound, SoundCount
<1>5. ASSUME NEW i \in DOMAIN journal, Parses(journal[i])
      PROVE  i \in 1 .. R.valid /\ journal[i].recs[1].seq <= R.last /\ journal[i].recs[1].seq \in Nat
  <2>1. i \in 1 .. R.valid
    BY <1>1, <1>2, <1>3, <1>5 DEF Sound, SoundCount
  <2>2. journal[i].recs[1].seq \in Nat
    BY <1>1, <1>5, LineTyped DEF StoreRecords
  <2> QED BY <1>2, <2>1, <2>2 DEF Sound, Rising
<1>6. ~Repeated(journal)
  <2> SUFFICES ASSUME NEW a \in DOMAIN journal, NEW b \in DOMAIN journal, a < b,
                      Parses(journal[a]), Parses(journal[b])
               PROVE  ~ (journal[b].recs[1].seq <= journal[a].recs[1].seq)
    BY DEF Repeated
  <2>1. journal[a].recs[1].seq < journal[b].recs[1].seq
    BY <1>2, <1>5 DEF Sound, Rising
  <2> QED BY <1>5, <2>1
<1> QED BY <1>3, <1>4, <1>5, <1>6 DEF R

LEMMA EndedParses ==
    ASSUME journal \in Seq(Lines), LinesEnded, ~Glued(journal), NEW i \in DOMAIN journal, journal[i].ended
    PROVE  Parses(journal[i])
<1>1. journal[i] \in Lines
  OBVIOUS
<1>2. Len(journal[i].recs) \in Nat /\ journal[i].torn \in BOOLEAN
  BY <1>1 DEF Lines
<1>3. Len(journal[i].recs) # 0
  BY DEF LinesEnded
<1>4. ~ (Len(journal[i].recs) + (IF journal[i].torn THEN 1 ELSE 0) > 1)
  BY DEF Glued
<1>5. CASE journal[i].torn
  BY <1>2, <1>3, <1>4, <1>5
<1>6. CASE ~journal[i].torn
  <2>1. ~ (Len(journal[i].recs) + 0 > 1)
    BY <1>4, <1>6
  <2>2. Len(journal[i].recs) = 1
    <3>1. PICK l : l = Len(journal[i].recs)
      OBVIOUS
    <3>2. l \in Nat /\ l # 0 /\ ~ (l + 0 > 1)
      BY <1>2, <1>3, <2>1, <3>1
    <3>3. l = 1
      BY ONLY <3>2
    <3> QED BY <3>1, <3>3
  <2> QED BY <1>6, <2>2, Zenon DEF Parses
<1> QED BY <1>5, <1>6

LEMMA ViewOfSnapshot ==
    ASSUME Sidecars, FromSnapshot \in Processes PROVE View(FromSnapshot) = SnapshotShows
<1>1. FromSnapshot.seq = snapshot.seq /\ FromSnapshot.rows = snapshot.rows /\ FromSnapshot.past = {}
      /\ FromSnapshot.hist = snapshot.hist /\ FromSnapshot.loaded = (snapshot.hist = 0)
  BY DEF FromSnapshot, Down
<1>2. View(FromSnapshot) = [rows |-> FromSnapshot.rows,
                            past |-> IF FromSnapshot.loaded THEN FromSnapshot.past
                                     ELSE Archived(FromSnapshot) \cup FromSnapshot.past]
  BY ViewLoaded
<1>3. CASE snapshot.hist = 0
  BY <1>1, <1>2, <1>3 DEF SnapshotShows
<1>4. CASE snapshot.hist # 0
  BY <1>1, <1>2, <1>4 DEF SnapshotShows, Archived
<1> QED BY <1>3, <1>4

\* Behind a snapshot that shows what was committed, the replay shows that, or it with the
\* one record ahead.
LEMMA ReplayAhead ==
    JournalFits /\ SnapshotShows = truth /\ AheadOf(snapshot.seq, truth, maybe) => ShowsUpTo(snapshot.seq)
<1> SUFFICES ASSUME JournalFits, SnapshotShows = truth, AheadOf(snapshot.seq, truth, maybe)
             PROVE  ShowsUpTo(snapshot.seq)
  OBVIOUS
<1> DEFINE Good(a) == \/ a.s.seq = snapshot.seq /\ View(a.s) = truth
                      \/ a.s.seq = snapshot.seq + 1 /\ View(a.s) = maybe
<1>1. /\ journal \in Seq(Lines) /\ Len(journal) \in Nat /\ DOMAIN journal = 1 .. Len(journal)
      /\ Sidecars /\ snapshot.seq \in Nat
  BY DEF JournalFits, JournalTypes, Sidecars
<1>2. PICK st : Course(st)
  BY <1>1, ReplayCourse DEF HasCourse
<1> DEFINE S == {k \in 0 .. Len(journal) : Good(st[k])}
<1>3. 0 \in S
  <2>1. st[0].s = FromSnapshot /\ Sound(st[0], 0)
    BY <1>1, <1>2, CourseSound DEF Course, ReplayBase
  <2>2. FromSnapshot \in Processes
    BY <2>1 DEF Sound, SoundCount, Accs
  <2>3. FromSnapshot.seq = snapshot.seq /\ FromSnapshot.rows = snapshot.rows /\ FromSnapshot.past = {}
        /\ FromSnapshot.hist = snapshot.hist /\ FromSnapshot.loaded = (snapshot.hist = 0)
    BY DEF FromSnapshot, Down
  <2>4. View(FromSnapshot) = SnapshotShows
    BY <1>1, <2>2, ViewOfSnapshot
  <2> QED BY <1>1, <2>1, <2>3, <2>4
<1>4. ASSUME NEW k \in 1 .. Len(journal), k - 1 \in S PROVE k \in S
  <2>1. PICK a, line : a = st[k - 1] /\ line = journal[k]
    OBVIOUS
  <2>2. Good(a) /\ Sound(a, k - 1) /\ st[k] = ReplayLine(a, line) /\ k \in 0 .. Len(journal)
    BY <1>1, <1>2, <1>4, <2>1, CourseSound DEF Course
  <2>3. a \in Accs /\ a.s \in Processes /\ a.s.seq \in Nat
    BY <2>2 DEF Sound, SoundCount, Accs, Processes
  <2> DEFINE r == line.recs[1]
  <2>4. CASE a.end # "whole"
    BY <2>2, <2>4 DEF ReplayLine
  <2>5. CASE a.end = "whole" /\ (~Parses(line) \/ ~Contiguous(a, r))
    <3>1. PICK e : ReplayLine(a, line) = [a EXCEPT !.end = e]
      BY <2>5 DEF ReplayLine
    <3>2. st[k].s = a.s
      BY <2>2, <2>3, <3>1 DEF Accs
    <3> QED BY <2>2, <3>2
  <2>6. CASE a.end = "whole" /\ Parses(line) /\ Contiguous(a, r)
    <3>1. st[k] = ReplayRecord(a, r)
      BY <2>2, <2>6 DEF ReplayLine
    <3>2. r \in StoreRecords /\ r.seq \in Nat
      BY <2>1, <2>6, LineTyped DEF StoreRecords
    <3>3. r.seq <= snapshot.seq + 1 /\ (r.seq = snapshot.seq + 1 => applyOperation(truth, r.op) = maybe)
      BY <1>1, <2>1, <2>6 DEF AheadOf
    <3> HIDE DEF r
    <3>4. CASE r.seq <= a.s.seq
      <4>1. st[k] = [a EXCEPT !.last = r.seq, !.valid = @ + 1]
        BY <2>3, <3>1, <3>2, <3>4, RecordSkipped
      <4>2. st[k].s = a.s
        BY <2>3, <4>1 DEF Accs
      <4> QED BY <2>2, <4>2
    <3>5. CASE r.seq > a.s.seq
      <4>1. PICK s \in Processes :
               /\ st[k] = [a EXCEPT !.last = r.seq, !.valid = @ + 1, !.s = s]
               /\ s.seq = r.seq /\ View(s) = applyOperation(View(a.s), r.op)
        <5>1. \E s \in Processes :
               /\ ReplayRecord(a, r) = [a EXCEPT !.last = r.seq, !.valid = @ + 1, !.s = s]
               /\ s.seq = r.seq /\ s.hist = a.s.hist /\ s.entries = a.s.entries + 1
               /\ View(s) = applyOperation(View(a.s), r.op)
          BY <1>1, <2>3, <3>2, <3>5, RecordApplied
        <5> QED BY <3>1, <5>1
      <4>2. st[k].s = s
        BY <2>3, <4>1 DEF Accs
      <4>3. a.s.seq = snapshot.seq /\ View(a.s) = truth /\ r.seq = snapshot.seq + 1
        BY <1>1, <2>2, <2>3, <3>2, <3>3, <3>5
      <4> QED BY <2>2, <3>3, <4>1, <4>2, <4>3
    <3> QED BY <2>3, <3>2, <3>4, <3>5
  <2> QED BY <2>4, <2>5, <2>6
<1>5. \A k \in 0 .. Len(journal) : k \in S
  <2> HIDE DEF S
  <2> QED BY <1>1, <1>3, <1>4, UpTo
<1>6. Good(Replayed)
  BY <1>1, <1>2, <1>5 DEF Course
<1> QED BY <1>6 DEF ShowsUpTo

\* A journal without blemish that begins no later than behind the snapshot is not refused.
LEMMA CleanReplays ==
    JournalFits /\ LinesEnded /\ FirstFits /\ ~Blemished(journal) => Replayed.end # "bad"
<1> SUFFICES ASSUME JournalFits, LinesEnded, FirstFits, ~Blemished(journal) PROVE Replayed.end # "bad"
  OBVIOUS
<1>1. /\ journal \in Seq(Lines) /\ Len(journal) \in Nat /\ DOMAIN journal = 1 .. Len(journal)
      /\ snapshot.seq \in Nat
  BY DEF JournalFits, JournalTypes
<1>2. PICK st : Course(st)
  BY <1>1, ReplayCourse DEF HasCourse
<1> DEFINE S == {k \in 0 .. Len(journal) : st[k].end # "bad"}
<1>3. 0 \in S
  BY <1>1, <1>2 DEF Course, ReplayBase
<1>4. ASSUME NEW k \in 1 .. Len(journal), k - 1 \in S PROVE k \in S
  <2>1. PICK a, line : a = st[k - 1] /\ line = journal[k]
    OBVIOUS
  <2>2. a.end # "bad" /\ Sound(a, k - 1) /\ st[k] = ReplayLine(a, line) /\ k \in 0 .. Len(journal)
    BY <1>1, <1>2, <1>4, <2>1, CourseSound DEF Course
  <2>3. a \in Accs /\ a.s.seq \in Nat /\ a.last \in Nat /\ a.valid \in Nat /\ a.s.entries \in Nat
    BY <2>2 DEF Sound, SoundCount, Accs, Processes
  <2> DEFINE r == line.recs[1]
  <2>4. CASE a.end # "whole"
    BY <2>2, <2>4 DEF ReplayLine
  <2>5. CASE a.end = "whole" /\ ~Parses(line)
    <3>1. ~line.ended
      BY <1>1, <2>1, <2>5, EndedParses DEF Blemished
    <3>2. k = Len(journal)
      BY <1>1, <2>1, <3>1 DEF LinesEnded
    <3>3. a.valid + 1 = Len(journal)
      BY <2>2, <2>5, <3>2 DEF Sound, SoundCount
    <3>4. ReplayLine(a, line) = [a EXCEPT !.end = "cut"]
      BY <2>5, <3>3 DEF ReplayLine
    <3> QED BY <2>2, <2>3, <3>4 DEF Accs
  <2>6. CASE a.end = "whole" /\ Parses(line)
    <3>1. r \in StoreRecords /\ r.seq \in Nat
      BY <2>1, <2>6, LineTyped DEF StoreRecords
    <3>2. a.valid = k - 1
      BY <2>2, <2>6 DEF Sound, SoundCount
    <3>3. Contiguous(a, r)
      <4>1. CASE k = 1
        <5>1. a.last = 0
          BY <2>2, <3>2, <4>1 DEF Sound, Rising
        <5>2. a.s.entries = 0
          BY <1>1, <2>2, <2>3, <5>1 DEF Sound, SoundCount
        <5>3. a.s.seq = snapshot.seq
          BY <2>2, <5>2 DEF Sound, SoundCount
        <5>4. r.seq <= snapshot.seq + 1
          <6>1. journal # <<>> /\ line = journal[1]
            BY <2>1, <4>1, <1>1
          <6> QED BY <2>6, <6>1 DEF FirstFits
        <5> HIDE DEF r
        <5> QED BY <1>1, <3>1, <5>1, <5>2, <5>3, <5>4 DEF Contiguous
      <4>2. CASE k # 1
        <5>1. k - 1 \in DOMAIN journal /\ k \in DOMAIN journal /\ k = (k - 1) + 1 /\ a.valid > 0
          BY <1>1, <3>2, <4>2
        <5>2. a.last = journal[k - 1].recs[1].seq /\ Parses(journal[k - 1])
          BY <2>2, <3>2, <5>1 DEF Sound, Rising
        <5>3. ~ (r.seq > a.last + 1)
          BY <2>1, <2>6, <5>1, <5>2 DEF Blemished, Gapped
        <5>4. ~ (r.seq <= a.last)
          BY <2>1, <2>6, <5>1, <5>2 DEF Blemished, Repeated
        <5>5. /\ a.s.entries = 0 => a.s.seq = snapshot.seq /\ a.last <= snapshot.seq
              /\ a.s.entries > 0 => a.last = a.s.seq
          BY <2>2 DEF Sound, SoundCount
        <5> HIDE DEF r
        <5>6. r.seq = a.last + 1
          BY <2>3, <3>1, <5>3, <5>4
        <5> QED BY <1>1, <2>3, <3>1, <5>5, <5>6 DEF Contiguous
      <4> QED BY <4>1, <4>2
    <3>4. st[k] = ReplayRecord(a, r)
      BY <2>2, <2>6, <3>3 DEF ReplayLine
    <3>5. st[k].end = a.end
      BY <2>3, <3>4 DEF ReplayRecord, Replaying, Accs
    <3> QED BY <2>2, <3>5
  <2> QED BY <2>4, <2>5, <2>6
<1>5. \A k \in 0 .. Len(journal) : k \in S
  <2> HIDE DEF S
  <2> QED BY <1>1, <1>3, <1>4, UpTo
<1> QED BY <1>1, <1>2, <1>5 DEF Course

-----------------------------------------------------------------------------
(* The steps that leave the journal and what a start reads of the snapshot *)

LEMMA ViewAgain ==
    ASSUME NEW s, s.hist # 0 => sidecar'[s.hist] = sidecar[s.hist] PROVE View(s)' = View(s)
BY DEF View, loadHistory, Archived

LEMMA ReplaySame ==
    ASSUME JournalFits, SameBase, journal' = journal
    PROVE  Replayed' = Replayed /\ View(Replayed.s)' = View(Replayed.s)
<1>1. Replayed' = Replayed
  BY ReplayAgain
<1>2. PICK s : s = Replayed.s
  OBVIOUS
<1>3. s.hist = snapshot.hist
  BY <1>2, ReplayedSound DEF Sound, SoundCount
<1>4. View(s)' = View(s)
  BY <1>3, ViewAgain DEF SameBase
<1> QED BY <1>1, <1>2, <1>4

LEMMA MoreTried ==
    ASSUME JournalTypes, SeqsTried, NEW n \in Nat, ops <= n
    PROVE  \A i \in DOMAIN journal : Below(journal[i], n)
<1> SUFFICES ASSUME NEW i \in DOMAIN journal PROVE Below(journal[i], n)
  OBVIOUS
<1>1. Below(journal[i], ops)
  BY DEF SeqsTried
<1>2. {r \in StoreRecords : r.seq <= ops} \subseteq {r \in StoreRecords : r.seq <= n}
  BY DEF JournalTypes, StoreRecords
<1> HIDE DEF StoreRecords
<1> QED BY <1>1, <1>2, SeqMonotonic DEF Below

\* The process goes on with the number it has, or it is gone.
LEMMA ProcessTries ==
    ASSUME StoreInv, journal' = journal, SameBase, UNCHANGED <<truth, maybe>>, ops <= ops',
           JournalTypes', MemoryTrue', store'.seq <= ops', store'.pc # "refused", Live,
           Live' => store'.seq = store.seq
    PROVE  StoreInv'
<1>1. SeqsTried' /\ LinesEnded' /\ FirstFits' /\ RefusedBlemished'
  <2>1. ops' \in Nat /\ ops \in Nat /\ snapshot.seq \in Nat /\ store'.seq \in Nat
    BY DEF StoreInv, JournalTypes, Processes
  <2>2. \A i \in DOMAIN journal : Below(journal[i], ops')
    BY <2>1, MoreTried DEF StoreInv
  <2>3. SeqsTried'
    BY <2>1, <2>2 DEF StoreInv, SeqsTried, SameBase
  <2> QED BY <2>3 DEF StoreInv, LinesEnded, FirstFits, RefusedBlemished, SameBase
<1>2. OneAhead'
  <2>1. Live' => AheadOf(store.seq, truth, maybe)' = AheadOf(store.seq, truth, maybe)
    BY DEF AheadOf
  <2> QED BY <2>1 DEF StoreInv, OneAhead
<1>3. ReplayTrue'
  <2>1. Replayed' = Replayed /\ View(Replayed.s)' = View(Replayed.s)
    BY ReplaySame DEF StoreInv, JournalFits
  <2>2. ShowsUpTo(store.seq) => View(Replayed.s) \in {truth, maybe}
    BY DEF ShowsUpTo
  <2>3. Live' /\ ShowsUpTo(store.seq) => ShowsUpTo(store.seq)'
    BY <2>1 DEF ShowsUpTo
  <2>4. View(Replayed.s) \in {truth, maybe} => View(Replayed.s)' \in {truth', maybe'}
    BY <2>1
  <2> QED BY <2>1, <2>2, <2>3, <2>4 DEF StoreInv, ReplayTrue
<1> QED BY <1>1, <1>2, <1>3 DEF StoreInv

LEMMA ProcessMoves ==
    ASSUME StoreInv, journal' = journal, SameBase, UNCHANGED <<truth, maybe, ops>>,
           JournalTypes', MemoryTrue', store'.seq <= ops, store'.pc # "refused", Live,
           Live' => store'.seq = store.seq
    PROVE  StoreInv'
<1>1. ops <= ops' /\ store'.seq <= ops'
  BY DEF StoreInv, JournalTypes
<1> QED BY <1>1, ProcessTries

LEMMA DownTyped == Down \in Processes /\ Down.pc = "down" /\ Down.seq = 0
BY StoreAssumption DEF Down, Processes

\* The process ends.
LEMMA ProcessEnds ==
    ASSUME StoreInv, UNCHANGED <<files, truth, maybe, ops>>, store' = Down, Live PROVE StoreInv'
<1>1. JournalTypes'
  BY DownTyped DEF StoreInv, JournalTypes, files
<1>2. SameBase /\ journal' = journal /\ ~Live' /\ store'.seq <= ops /\ store'.pc = "down"
  BY DownTyped DEF SameBase, files, Live, StoreInv, JournalTypes
<1>3. MemoryTrue'
  BY <1>2 DEF StoreInv, MemoryTrue, files
<1> QED BY <1>1, <1>2, <1>3, ProcessMoves

LEMMA LoadHistoryStep == ASSUME StoreInv, LoadHistory PROVE StoreInv'
<1>1. /\ store \in Processes /\ Sidecars /\ store.pc = "open" /\ store' = loadHistory(store)
      /\ UNCHANGED <<files, truth, maybe, ops>>
  BY DEF LoadHistory, StoreInv, JournalTypes, Sidecars
<1>2. PICK s : s = loadHistory(store)
  OBVIOUS
<1>3. /\ s \in Processes /\ s.loaded /\ s.seq = store.seq /\ s.pc = "open" /\ View(s) = View(store)
  BY <1>1, <1>2, ViewLoaded
<1>4. View(s)' = View(s)
  BY <1>1, ViewAgain DEF files
<1>5. JournalTypes' /\ SameBase /\ journal' = journal /\ Live /\ store'.seq <= ops
  BY <1>1, <1>2, <1>3 DEF StoreInv, JournalTypes, SeqsTried, SameBase, files, Live
<1>6. View(store)' = View(store)
  BY <1>1, <1>2, <1>3, <1>4
<1>7. MemoryTrue'
  BY <1>1, <1>2, <1>3, <1>5, <1>6 DEF StoreInv, MemoryTrue, Live, files, SnapshotShows
<1> QED BY <1>1, <1>2, <1>3, <1>5, <1>7, ProcessMoves

LEMMA WriteSidecarsStep == ASSUME StoreInv, WriteSidecars PROVE StoreInv'
<1>1. /\ store \in Processes /\ Sidecars /\ store.pc = "sidecars" /\ Live
      /\ UNCHANGED <<journal, snapshot, truth, maybe, ops>>
  BY DEF WriteSidecars, StoreInv, JournalTypes, Sidecars, Live
<1>2. PICK s : s = loadHistory(store)
  OBVIOUS
<1>3. /\ sidecar' = IF s.past = {} THEN sidecar ELSE [sidecar EXCEPT ![s.seq] = s.past]
      /\ store' = [s EXCEPT !.pc = "rename"]
  BY <1>2 DEF WriteSidecars
<1>4. /\ s \in Processes /\ s.loaded /\ s.seq = store.seq /\ View(s) = View(store) /\ s.past = View(store).past
      /\ View(store) = truth /\ s.rows = store.rows /\ View(store).rows = store.rows
      /\ s.past = truth.past
  BY <1>1, <1>2, ViewLoaded DEF StoreInv, MemoryTrue
<1>5. /\ store' \in Processes /\ store'.loaded /\ store'.seq = store.seq /\ store'.past = s.past
      /\ store'.rows = s.rows /\ store'.pc = "rename"
  BY <1>3, <1>4 DEF Processes
<1>6. sidecar' \in [0 .. MaxOps -> SUBSET Items]
  BY <1>1, <1>3, <1>4 DEF Sidecars, Processes
<1>7. SameBase /\ SnapshotShows' = SnapshotShows
  <2>1. snapshot.hist # 0 => sidecar'[snapshot.hist] = sidecar[snapshot.hist]
    <3>1. CASE s.past = {} \/ snapshot.hist # s.seq
      BY <1>1, <1>3, <3>1 DEF Sidecars
    <3>2. CASE s.past # {} /\ snapshot.hist = s.seq /\ snapshot.hist # 0
      <4>1. snapshot.hist = snapshot.seq /\ snapshot.seq = store.seq
        BY <1>4, <3>2 DEF StoreInv, MemoryTrue
      <4>2. SnapshotShows = truth
        BY <1>1, <4>1 DEF StoreInv, MemoryTrue
      <4>3. sidecar[snapshot.hist] = s.past
        BY <1>4, <3>2, <4>2 DEF SnapshotShows
      <4>4. s.seq \in 0 .. MaxOps
        BY <1>4 DEF Processes
      <4> QED BY <1>1, <1>3, <3>2, <4>3, <4>4 DEF Sidecars
    <3> QED BY <3>1, <3>2
  <2> QED BY <1>1, <2>1 DEF SameBase, SnapshotShows
<1>8. JournalTypes' /\ store'.seq <= ops
  BY <1>1, <1>5, <1>6 DEF StoreInv, JournalTypes, SeqsTried
<1>9. MemoryTrue'
  <2>1. View(store)' = truth
    <3>1. View(store)' = [rows |-> store'.rows, past |-> store'.past]
      BY <1>5 DEF View, loadHistory
    <3>2. View(store) = [rows |-> store.rows, past |-> s.past]
      BY <1>1, <1>4, ViewLoaded
    <3> QED BY <1>4, <1>5, <3>1, <3>2
  <2>2. store'.past # {} => sidecar'[store'.seq] = store'.past
    <3>1. s.seq \in 0 .. MaxOps
      BY <1>4 DEF Processes
    <3> QED BY <1>1, <1>3, <1>4, <1>5, <3>1 DEF Sidecars
  <2> QED BY <1>1, <1>5, <1>7, <2>1, <2>2 DEF StoreInv, MemoryTrue, Live
<1> QED BY <1>1, <1>5, <1>7, <1>8, <1>9, ProcessMoves

\* What memory shows does not depend on what the process is doing.
LEMMA SameView ==
    ASSUME NEW s, NEW t, t.rows = s.rows, t.past = s.past, t.loaded = s.loaded, t.hist = s.hist,
           s \in Processes, t \in Processes, Sidecars
    PROVE  View(t) = View(s)
<1>1. Archived(t) = Archived(s)
  BY DEF Archived
<1>2. View(s) = [rows |-> s.rows, past |-> IF s.loaded THEN s.past ELSE Archived(s) \cup s.past]
  BY ViewLoaded
<1>3. View(t) = [rows |-> t.rows, past |-> IF t.loaded THEN t.past ELSE Archived(t) \cup t.past]
  BY ViewLoaded
<1> QED BY <1>1, <1>2, <1>3

LEMMA StoreCrashStep == ASSUME StoreInv, StoreCrash PROVE StoreInv'
BY ProcessEnds DEF StoreCrash, Live

\* The process goes on with the same memory.
LEMMA ProcessContinues ==
    ASSUME StoreInv, Live, UNCHANGED <<files, truth, maybe, ops>>,
           NEW p \in {"open", "sidecars"}, NEW c \in BOOLEAN, store' = [store EXCEPT !.pc = p, !.closing = c]
    PROVE  StoreInv'
<1>1. store \in Processes /\ Sidecars
  BY DEF StoreInv, JournalTypes, Sidecars
<1>2. /\ store' \in Processes /\ store'.pc = p /\ store'.rows = store.rows /\ store'.past = store.past
      /\ store'.loaded = store.loaded /\ store'.hist = store.hist /\ store'.seq = store.seq
  BY <1>1 DEF Processes
<1>3. PICK s : s = store'
  OBVIOUS
<1>4. View(s) = View(store)
  BY <1>1, <1>2, <1>3, SameView
<1>5. View(store)' = View(store)
  <2>1. View(s)' = View(s)
    BY ViewAgain DEF files
  <2> QED BY <1>3, <1>4, <2>1
<1>6. JournalTypes' /\ SameBase /\ journal' = journal /\ store'.seq <= ops
  BY <1>2 DEF StoreInv, JournalTypes, SeqsTried, SameBase, files
<1>7. MemoryTrue'
  BY <1>2, <1>5 DEF StoreInv, MemoryTrue, Live, files, SnapshotShows
<1> QED BY <1>2, <1>6, <1>7, ProcessMoves

LEMMA CompactionFailsStep == ASSUME StoreInv, CompactionFails PROVE StoreInv'
<1>1. Live /\ UNCHANGED <<files, truth, maybe, ops>> /\ store \in Processes
  BY DEF CompactionFails, Live, StoreInv, JournalTypes
<1>2. CASE store.closing
  BY <1>1, <1>2, ProcessEnds DEF CompactionFails
<1>3. CASE ~store.closing
  <2>1. store.closing \in BOOLEAN
    BY <1>1 DEF Processes
  <2>2. store' = [store EXCEPT !.pc = "open", !.closing = store.closing]
    BY <1>1, <1>3 DEF CompactionFails, Processes
  <2> QED BY <1>1, <2>1, <2>2, ProcessContinues
<1> QED BY <1>2, <1>3

LEMMA CloseStep == ASSUME StoreInv, Close PROVE StoreInv'
<1>1. Live /\ UNCHANGED <<files, truth, maybe, ops>>
  BY DEF Close, Live
<1>2. CASE store.entries > 0
  BY <1>1, <1>2, ProcessContinues DEF Close
<1>3. CASE ~(store.entries > 0)
  BY <1>1, <1>3, ProcessEnds DEF Close
<1> QED BY <1>2, <1>3

-----------------------------------------------------------------------------
(* The snapshot is put in place, and the journal emptied *)

LEMMA ReplayAheadNext ==
    JournalFits' /\ (SnapshotShows = truth)' /\ AheadOf(snapshot.seq, truth, maybe)' => ShowsUpTo(snapshot.seq)'
<1>1. (JournalFits /\ SnapshotShows = truth /\ AheadOf(snapshot.seq, truth, maybe) => ShowsUpTo(snapshot.seq))'
  BY ReplayAhead, PTL
<1> QED BY <1>1

Risen ==
    /\ ~Repeated(journal)
    /\ \A i \in DOMAIN journal : Parses(journal[i]) => journal[i].recs[1].seq <= Replayed.s.seq

LEMMA ReplayRisen == JournalFits => Replayed.end = "bad" \/ Risen
BY ReplayRises DEF Risen

LEMMA ReplayRisenNext == JournalFits' => (Replayed.end = "bad")' \/ Risen'
<1>1. (JournalFits => Replayed.end = "bad" \/ Risen)'
  BY ReplayRisen, PTL
<1> QED BY <1>1

LEMMA RenameSnapshotStep == ASSUME StoreInv, RenameSnapshot PROVE StoreInv'
<1>1. /\ store \in Processes /\ Sidecars /\ store.pc = "rename" /\ store.loaded /\ Live
      /\ snapshot' = SnapshotOf(store) /\ store' = [store EXCEPT !.pc = "truncate"]
      /\ UNCHANGED <<journal, sidecar, truth, maybe, ops>>
      /\ store.past # {} => sidecar[store.seq] = store.past
      /\ View(store) = truth /\ truth \in Contents /\ store.seq <= ops /\ snapshot.seq <= store.seq
  BY DEF RenameSnapshot, StoreInv, JournalTypes, SeqsTried, Sidecars, MemoryTrue, Live
<1>2. /\ store' \in Processes /\ store'.pc = "truncate" /\ store'.rows = store.rows /\ store'.past = store.past
      /\ store'.loaded = store.loaded /\ store'.hist = store.hist /\ store'.seq = store.seq
  BY <1>1 DEF Processes
<1>3. /\ snapshot'.exists = TRUE /\ snapshot'.seq = store.seq /\ snapshot'.rows = store.rows
      /\ snapshot'.hist = IF store.past = {} THEN 0 ELSE store.seq
      /\ snapshot' \in [exists : BOOLEAN, seq : 0 .. MaxOps, rows : SUBSET Items, hist : 0 .. MaxOps]
  <2>1. 0 \in 0 .. MaxOps
    BY StoreAssumption
  <2> QED BY <1>1, <2>1 DEF SnapshotOf, Processes
<1>4. JournalTypes' /\ SeqsTried' /\ LinesEnded' /\ RefusedBlemished'
  BY <1>1, <1>2, <1>3 DEF StoreInv, JournalTypes, SeqsTried, LinesEnded, RefusedBlemished
<1>5. truth = [rows |-> store.rows, past |-> store.past]
  BY <1>1, ViewLoaded
<1>6. SnapshotShows' = truth
  <2>1. CASE store.past = {}
    BY <1>3, <1>5, <2>1 DEF SnapshotShows
  <2>2. CASE store.past # {} /\ store.seq # 0
    BY <1>1, <1>3, <1>5, <2>2 DEF SnapshotShows
  <2>3. CASE store.past # {} /\ store.seq = 0
    <3>1. snapshot.seq = store.seq /\ snapshot.hist = 0
      BY <1>1, <2>3 DEF StoreInv, MemoryTrue, JournalTypes
    <3>2. truth.past = {}
      BY <1>1, <3>1 DEF StoreInv, MemoryTrue, SnapshotShows
    <3> QED BY <1>5, <2>3, <3>2
  <2> QED BY <2>1, <2>2, <2>3
<1>7. MemoryTrue'
  <2>1. View(store)' = [rows |-> store'.rows, past |-> store'.past]
    BY <1>1, <1>2 DEF View, loadHistory
  <2>2. store'.seq = snapshot'.seq /\ store'.seq \in Nat
    BY <1>1, <1>2, <1>3 DEF Processes
  <2> QED BY <1>1, <1>2, <1>3, <1>5, <1>6, <2>1, <2>2 DEF MemoryTrue
<1>8. OneAhead'
  <2>1. Live' /\ AheadOf(store.seq, truth, maybe)' = AheadOf(store.seq, truth, maybe)
    BY <1>1, <1>2 DEF AheadOf, Live
  <2> QED BY <1>1, <2>1 DEF StoreInv, OneAhead
<1>9. FirstFits'
  <2>1. journal # <<>> /\ Parses(journal[1]) => journal[1].recs[1].seq \in Nat
    <3>1. journal # <<>> => 1 \in 1 .. Len(journal)
      BY DEF StoreInv, JournalTypes
    <3> QED BY <3>1, LineTyped DEF StoreInv, JournalFits, StoreRecords
  <2>2. snapshot.seq \in Nat /\ store.seq \in Nat
    BY <1>1 DEF Processes, StoreInv, JournalTypes
  <2> QED BY <1>1, <1>2, <1>3, <2>1, <2>2 DEF StoreInv, FirstFits
<1>10. ReplayTrue'
  <2> SUFFICES ASSUME ~Glued(journal'), Replayed'.end # "bad" PROVE ShowsUpTo(store.seq)'
    BY <1>1, <1>2 DEF ReplayTrue, Live
  <2>1. ~Repeated(journal)
    BY <1>1, <1>4, ReplayRisenNext DEF JournalFits, Risen
  <2>2. AheadOf(store.seq, truth, maybe)
    BY <1>1, <2>1 DEF StoreInv, OneAhead
  <2>3. AheadOf(snapshot.seq, truth, maybe)'
    BY <1>1, <1>3, <2>2 DEF AheadOf
  <2>4. ShowsUpTo(snapshot.seq)'
    BY <1>1, <1>4, <1>6, <2>3, ReplayAheadNext DEF JournalFits
  <2> QED BY <1>2, <1>3, <2>4 DEF ShowsUpTo
<1> QED BY <1>4, <1>7, <1>8, <1>9, <1>10 DEF StoreInv

LEMMA TruncateJournalStep == ASSUME StoreInv, TruncateJournal PROVE StoreInv'
<1>1. /\ store \in Processes /\ Sidecars /\ store.pc = "truncate" /\ store.loaded /\ Live
      /\ journal' = <<>> /\ maybe' = truth /\ UNCHANGED <<snapshot, sidecar, truth, ops>>
      /\ snapshot.seq = store.seq /\ SnapshotShows = truth /\ View(store) = truth
      /\ truth \in Contents /\ store.seq <= ops
  BY DEF TruncateJournal, StoreInv, JournalTypes, SeqsTried, Sidecars, MemoryTrue, Live
<1>2. journal' \in Seq(Lines) /\ DOMAIN journal' = {} /\ Len(journal') = 0
  BY <1>1
<1>3. CASE store.closing
  <2>1. store' = Down
    BY <1>3 DEF TruncateJournal
  <2>2. JournalTypes' /\ SeqsTried' /\ LinesEnded' /\ RefusedBlemished' /\ ~Live' /\ OneAhead' /\ FirstFits'
    BY <1>1, <1>2, <2>1, DownTyped, StoreAssumption
    DEF StoreInv, JournalTypes, SeqsTried, LinesEnded, RefusedBlemished, Live, OneAhead, FirstFits
  <2>3. MemoryTrue'
    BY <1>1, <2>1, <2>2, DownTyped DEF StoreInv, MemoryTrue
  <2>4. ReplayTrue'
    <3>1. AheadOf(snapshot.seq, truth, maybe)'
      BY <1>2 DEF AheadOf
    <3>2. ShowsUpTo(snapshot.seq)'
      <4>1. (SnapshotShows = truth)'
        BY <1>1 DEF SnapshotShows
      <4> QED BY <2>2, <3>1, <4>1, ReplayAheadNext DEF JournalFits
    <3> QED BY <2>2, <3>2 DEF ReplayTrue, ShowsUpTo
  <2> QED BY <2>2, <2>3, <2>4 DEF StoreInv
<1>4. CASE ~store.closing
  <2>1. store' = [store EXCEPT !.pc = "open", !.entries = 0]
    BY <1>4 DEF TruncateJournal
  <2>2. /\ store' \in Processes /\ store'.pc = "open" /\ store'.rows = store.rows /\ store'.past = store.past
        /\ store'.loaded = store.loaded /\ store'.hist = store.hist /\ store'.seq = store.seq
    BY <1>1, <2>1 DEF Processes
  <2>3. JournalTypes' /\ SeqsTried' /\ LinesEnded' /\ RefusedBlemished' /\ Live' /\ OneAhead' /\ FirstFits'
    BY <1>1, <1>2, <2>2
    DEF StoreInv, JournalTypes, SeqsTried, LinesEnded, RefusedBlemished, Live, OneAhead, FirstFits,
        AheadOf
  <2>4. (SnapshotShows = truth)'
    BY <1>1 DEF SnapshotShows
  <2>5. MemoryTrue'
    <3>1. View(store)' = [rows |-> store'.rows, past |-> store'.past]
      BY <1>1, <2>2 DEF View, loadHistory
    <3>2. View(store) = [rows |-> store.rows, past |-> store.past]
      BY <1>1 DEF View, loadHistory
    <3>3. store'.seq = snapshot'.seq /\ store'.seq \in Nat
      BY <1>1, <2>2 DEF Processes
    <3> QED BY <1>1, <2>2, <2>4, <3>1, <3>2, <3>3 DEF StoreInv, MemoryTrue
  <2>6. ReplayTrue'
    <3>1. AheadOf(snapshot.seq, truth, maybe)'
      BY <1>2 DEF AheadOf
    <3>2. ShowsUpTo(snapshot.seq)'
      BY <2>3, <2>4, <3>1, ReplayAheadNext DEF JournalFits
    <3> QED BY <1>1, <2>2, <2>3, <3>2 DEF ReplayTrue, ShowsUpTo
  <2> QED BY <2>3, <2>5, <2>6 DEF StoreInv
<1> QED BY <1>3, <1>4

-----------------------------------------------------------------------------
(* A record is appended *)

LEMMA PieceTyped ==
    ASSUME NEW r \in StoreRecords, NEW torn \in BOOLEAN, NEW ended \in BOOLEAN, NEW n, r.seq <= n
    PROVE  /\ Piece(r, torn, ended) \in Lines /\ Below(Piece(r, torn, ended), n)
           /\ Piece(r, torn, ended).ended = ended
           /\ torn => Len(Piece(r, torn, ended).recs) = 0 /\ Piece(r, torn, ended).torn
           /\ ~torn => /\ Piece(r, torn, ended).recs = <<r>> /\ Len(Piece(r, torn, ended).recs) = 1
                       /\ Parses(Piece(r, torn, ended))
<1>1. CASE torn
  <2>1. Piece(r, torn, ended) = [recs |-> <<>>, torn |-> TRUE, ended |-> ended]
    BY <1>1 DEF Piece
  <2>2. <<>> \in Seq(StoreRecords) /\ Len(<<>>) = 0 /\ \A m \in DOMAIN <<>> : FALSE
    OBVIOUS
  <2>3. Piece(r, torn, ended).recs = <<>> /\ Piece(r, torn, ended).torn /\ Piece(r, torn, ended).ended = ended
    BY <2>1
  <2>4. Piece(r, torn, ended) \in Lines
    BY <2>1, <2>2 DEF Lines
  <2>5. <<>> \in Seq({q \in StoreRecords : q.seq <= n})
    OBVIOUS
  <2> QED BY <1>1, <2>2, <2>3, <2>4, <2>5 DEF Below
<1>2. CASE ~torn
  <2>1. Piece(r, torn, ended) = [recs |-> <<r>>, torn |-> torn, ended |-> ended]
    BY <1>2 DEF Piece
  <2>2. <<r>> \in Seq(StoreRecords) /\ Len(<<r>>) = 1 /\ DOMAIN <<r>> = {1} /\ <<r>>[1] = r
    OBVIOUS
  <2>3. Parses(Piece(r, torn, ended))
    BY <1>2, <2>1, <2>2 DEF Parses
  <2> QED BY <1>2, <2>1, <2>2, <2>3 DEF Lines, Below
<1> QED BY <1>1, <1>2

LEMMA GlueTyped ==
    ASSUME NEW line \in Lines, NEW piece \in Lines, NEW n, Below(line, n), Below(piece, n)
    PROVE  /\ Glue(line, piece) \in Lines /\ Below(Glue(line, piece), n)
           /\ Glue(line, piece).ended = piece.ended
           /\ Glue(line, piece).torn = (line.torn \/ piece.torn)
           /\ Len(Glue(line, piece).recs) = Len(line.recs) + Len(piece.recs)
<1> DEFINE g == line.recs \o piece.recs
<1>1. line.recs \in Seq(StoreRecords) /\ piece.recs \in Seq(StoreRecords)
  BY DEF Lines
<1>2. g \in Seq(StoreRecords) /\ Len(g) = Len(line.recs) + Len(piece.recs)
  <2> HIDE DEF Lines
  <2> QED BY <1>1, ConcatProperties
<1>3. g \in Seq({r \in StoreRecords : r.seq <= n})
  BY ConcatProperties DEF Below
<1>4. Glue(line, piece) = [recs |-> g, torn |-> line.torn \/ piece.torn, ended |-> piece.ended]
  BY DEF Glue
<1> HIDE DEF g
<1>5. (line.torn \/ piece.torn) \in BOOLEAN /\ piece.ended \in BOOLEAN
  BY DEF Lines
<1> QED BY <1>2, <1>3, <1>4, <1>5 DEF Lines, Below

\* What is written has a line of its own behind a journal whose lines are ended, adds nothing
\* to a torn line, or leaves two pieces in one line.
LEMMA WrittenIs ==
    ASSUME JournalTypes, SeqsTried, LinesEnded, NEW r \in StoreRecords, NEW torn \in BOOLEAN,
           NEW ended \in BOOLEAN, torn => ~ended, NEW n \in Nat, ops <= n, r.seq <= n,
           journal' = Written(journal, Piece(r, torn, ended))
    PROVE  /\ journal' \in Seq(Lines) /\ LinesEnded'
           /\ \A i \in DOMAIN journal' : Below(journal'[i], n)
           /\ \/ torn /\ journal' = journal
              \/ /\ Glued(journal') /\ journal # <<>> /\ journal' # <<>>
                 /\ Parses(journal'[1]) => journal'[1] = journal[1]
              \/ /\ journal' = Append(journal, Piece(r, torn, ended))
                 /\ \A i \in DOMAIN journal : journal[i].ended
<1> DEFINE p == Piece(r, torn, ended)
           L == Len(journal)
<1>1. /\ journal \in Seq(Lines) /\ L \in Nat /\ DOMAIN journal = 1 .. L
      /\ \A i \in DOMAIN journal : Below(journal[i], n)
  <2>1. journal \in Seq(Lines) /\ L \in Nat /\ DOMAIN journal = 1 .. L
    BY DEF JournalTypes
  <2>2. \A i \in DOMAIN journal : Below(journal[i], n)
    BY MoreTried
  <2> QED BY <2>1, <2>2
<1>2. /\ p \in Lines /\ Below(p, n) /\ p.ended = ended
      /\ torn => Len(p.recs) = 0 /\ p.torn
      /\ ~torn => Len(p.recs) = 1
  BY PieceTyped
<1>3. CASE journal = <<>> \/ Last(journal).ended
  <2>1. journal' = Append(journal, p)
    BY <1>3 DEF Written
  <2> HIDE DEF p, L
  <2>2. /\ journal' \in Seq(Lines) /\ Len(journal') = L + 1 /\ DOMAIN journal' = 1 .. (L + 1)
        /\ journal'[L + 1] = p /\ \A i \in 1 .. L : journal'[i] = journal[i]
    BY <1>1, <1>2, <2>1 DEF L
  <2>3. \A i \in DOMAIN journal : journal[i].ended
    BY <1>1, <1>3 DEF LinesEnded, Last, L
  <2>4. \A i \in DOMAIN journal' : i \in DOMAIN journal \/ i = L + 1
    BY <1>1, <2>2
  <2>5. \A i \in DOMAIN journal' : Below(journal'[i], n)
    BY <1>1, <1>2, <2>2, <2>4
  <2>6. LinesEnded'
    <3> SUFFICES ASSUME NEW i \in DOMAIN journal'
                 PROVE  /\ journal'[i].ended \/ i = Len(journal')
                        /\ Len(journal'[i].recs) = 0 => journal'[i].torn /\ ~journal'[i].ended
      BY DEF LinesEnded
    <3>1. CASE i \in DOMAIN journal
      BY <1>1, <2>2, <2>3, <3>1 DEF LinesEnded
    <3>2. CASE i = L + 1
      <4>1. Len(p.recs) = 0 => torn
        BY <1>2
      <4>2. Len(p.recs) = 0 => p.torn /\ ~p.ended
        BY <1>2, <4>1
      <4> QED BY <2>2, <3>2, <4>2
    <3> QED BY <2>4, <3>1, <3>2
  <2> QED BY <2>1, <2>2, <2>3, <2>5, <2>6 DEF p
<1>4. CASE journal # <<>> /\ ~Last(journal).ended
  <2> DEFINE g == Glue(journal[L], p)
  <2>1. journal' = Append(SubSeq(journal, 1, L - 1), g)
    BY <1>4 DEF Written, Front, Last
  <2>2. L \in DOMAIN journal /\ L - 1 \in Nat /\ journal[L] \in Lines /\ Below(journal[L], n) /\ ~journal[L].ended
    BY <1>1, <1>4 DEF Last
  <2>3. /\ g \in Lines /\ Below(g, n) /\ g.ended = p.ended /\ g.torn = (journal[L].torn \/ p.torn)
        /\ Len(g.recs) = Len(journal[L].recs) + Len(p.recs)
    BY <1>2, <2>2, GlueTyped
  <2> HIDE DEF p, L, g
  <2>4. /\ journal' \in Seq(Lines) /\ Len(journal') = L /\ DOMAIN journal' = 1 .. L
        /\ journal'[L] = g /\ \A i \in 1 .. (L - 1) : journal'[i] = journal[i]
    <3>1. PICK q : q = SubSeq(journal, 1, L - 1)
      OBVIOUS
    <3>2. q \in Seq(Lines) /\ Len(q) = L - 1 /\ \A i \in 1 .. (L - 1) : q[i] = journal[i]
      BY <1>1, <2>2, <3>1 DEF L
    <3>3. journal' = Append(q, g)
      BY <2>1, <3>1
    <3>4. Append(q, g) \in Seq(Lines) /\ Len(Append(q, g)) = L /\ Append(q, g)[L] = g
          /\ \A i \in 1 .. (L - 1) : Append(q, g)[i] = q[i]
      BY <1>1, <2>2, <2>3, <3>2
    <3> QED BY <1>1, <3>2, <3>3, <3>4
  <2>5. \A i \in DOMAIN journal' : i = L \/ (i \in 1 .. (L - 1) /\ i \in DOMAIN journal)
    BY <1>1, <2>2, <2>4
  <2>6. \A i \in DOMAIN journal' : Below(journal'[i], n)
    BY <1>1, <2>3, <2>4, <2>5
  <2>7. Len(journal[L].recs) \in Nat /\ (Len(journal[L].recs) = 0 => journal[L].torn)
    BY <2>2 DEF Lines, LinesEnded
  <2>11. PICK x, y, z : x = Len(g.recs) /\ y = Len(journal[L].recs) /\ z = Len(p.recs)
    OBVIOUS
  <2>12. x = y + z /\ y \in Nat /\ z \in {0, 1}
    BY <1>2, <2>3, <2>7, <2>11
  <2>13. (z = 0 => torn) /\ (torn => z = 0)
    <3>1. CASE torn
      BY <1>2, <2>11, <3>1
    <3>2. CASE ~torn
      <4>1. z = 1
        BY <1>2, <2>11, <3>2, Zenon
      <4> QED BY <3>2, <4>1
    <3> QED BY <3>1, <3>2
  <2>8. LinesEnded'
    <3> SUFFICES ASSUME NEW i \in DOMAIN journal'
                 PROVE  /\ journal'[i].ended \/ i = Len(journal')
                        /\ Len(journal'[i].recs) = 0 => journal'[i].torn /\ ~journal'[i].ended
      BY DEF LinesEnded
    <3>1. CASE i = L
      <4>1. Len(g.recs) = 0 => Len(p.recs) = 0 /\ torn
        <5>1. x = 0 => z = 0
          BY <2>12
        <5> QED BY <2>11, <2>13, <5>1, Zenon
      <4>2. Len(g.recs) = 0 => g.torn /\ ~g.ended
        BY <1>2, <2>3, <4>1
      <4> QED BY <2>4, <3>1, <4>2
    <3>2. CASE i \in 1 .. (L - 1) /\ i \in DOMAIN journal
      <4>1. journal'[i] = journal[i] /\ i # Len(journal)
        BY <1>1, <2>2, <2>4, <3>2 DEF L
      <4> QED BY <3>2, <4>1 DEF LinesEnded
    <3> QED BY <2>5, <3>1, <3>2
  <2>9. CASE torn /\ Len(journal[L].recs) = 0
    <3>1. journal[L].torn /\ p.torn /\ ~p.ended
      BY <1>2, <2>7, <2>9
    <3>2. g = journal[L]
      <4>1. journal[L].recs \in Seq(StoreRecords) /\ p.recs \in Seq(StoreRecords)
        BY <1>2, <2>2 DEF Lines
      <4>2. journal[L].recs \o p.recs = journal[L].recs
        <5>1. p.recs = <<>>
          BY <1>2, <2>9, <4>1
        <5> QED BY <4>1, <5>1, ConcatEmptySeq
      <4>3. g.recs = journal[L].recs
        BY <4>2 DEF g, Glue
      <4>4. g.torn = TRUE /\ g.ended = FALSE /\ journal[L].torn = TRUE /\ journal[L].ended = FALSE
        BY <1>2, <2>2, <2>3, <3>1 DEF Lines
      <4> QED BY <2>2, <2>3, <4>3, <4>4 DEF Lines
    <3>3. journal' = journal
      BY <1>1, <2>2, <2>4, <3>2 DEF L
    <3> QED BY <2>4, <2>6, <2>8, <2>9, <3>3
  <2>10. CASE ~ (torn /\ Len(journal[L].recs) = 0)
    <3>0. y # 0 \/ z = 1
      BY <2>10, <2>11, <2>12, <2>13
    <3>1. x > 1 \/ (x = 1 /\ g.torn)
      <4>1. CASE x > 1
        BY <4>1
      <4>2. CASE ~ (x > 1)
        <5>1. x = 1 /\ (y = 0 \/ z = 0)
          BY <2>12, <3>0, <4>2
        <5>2. y = 0 => journal[L].torn
          BY <2>7, <2>11
        <5>3. z = 0 => p.torn
          BY <1>2, <2>13
        <5>4. g.torn
          BY <2>3, <5>1, <5>2, <5>3, Zenon
        <5> QED BY <5>1, <5>4
      <4> QED BY <4>1, <4>2
    <3>2. Glued(journal')
      <4>1. Len(g.recs) + (IF g.torn THEN 1 ELSE 0) > 1
        <5>1. CASE g.torn
          <6>1. x \in Nat /\ x >= 1
            BY <2>12, <3>1
          <6> QED BY <2>11, <5>1, <6>1
        <5>2. CASE ~g.torn
          <6>1. x \in Nat /\ x > 1
            BY <2>12, <3>1, <5>2
          <6> QED BY <2>11, <5>2, <6>1
        <5> QED BY <5>1, <5>2
      <4>2. L \in DOMAIN journal'
        BY <1>1, <2>2, <2>4
      <4> QED BY <2>4, <4>1, <4>2 DEF Glued
    <3>3. ~Parses(g)
      <4>1. CASE g.torn
        BY <4>1, Zenon DEF Parses
      <4>2. CASE ~g.torn
        <5>1. Len(g.recs) # 1
          <6>1. x > 1
            BY <3>1, <4>2, Zenon
          <6>2. x # 1
            BY <2>12, <6>1
          <6> QED BY <2>11, <6>2, Zenon
        <5> QED BY <5>1, Zenon DEF Parses
      <4> QED BY <4>1, <4>2
    <3>4. Parses(journal'[1]) => journal'[1] = journal[1]
      <4>1. CASE L = 1
        BY <2>4, <3>3, <4>1
      <4>2. CASE L # 1
        BY <2>2, <2>4, <4>2
      <4> QED BY <4>1, <4>2
    <3>5. journal' # <<>>
      BY <1>1, <2>2, <2>4
    <3> QED BY <1>4, <2>4, <2>6, <2>8, <3>2, <3>4, <3>5
  <2> QED BY <2>9, <2>10
<1> QED BY <1>3, <1>4

LEMMA RepeatedStays ==
    ASSUME NEW j \in Seq(Lines), NEW line
    PROVE  /\ Repeated(j) => Repeated(Append(j, line))
           /\ Glued(j) => Glued(Append(j, line))
           /\ Parses(line) /\ ~Repeated(Append(j, line)) =>
                 \A i \in DOMAIN j : Parses(j[i]) => ~ (line.recs[1].seq <= j[i].recs[1].seq)
<1> DEFINE k == Append(j, line)
<1>1. Len(j) \in Nat /\ DOMAIN j = 1 .. Len(j) /\ DOMAIN k = 1 .. (Len(j) + 1) /\ k[Len(j) + 1] = line
      /\ \A i \in DOMAIN j : k[i] = j[i] /\ i \in DOMAIN k /\ Len(j) + 1 \in DOMAIN k /\ i < Len(j) + 1
  OBVIOUS
<1> HIDE DEF k
<1>2. Repeated(j) => Repeated(k)
  BY <1>1 DEF Repeated
<1>3. Glued(j) => Glued(k)
  BY <1>1 DEF Glued
<1>4. ASSUME Parses(line), ~Repeated(k), NEW i \in DOMAIN j, Parses(j[i])
      PROVE  ~ (line.recs[1].seq <= j[i].recs[1].seq)
  <2>1. PICK n : n = Len(j) + 1
    OBVIOUS
  <2>2. i \in DOMAIN k /\ n \in DOMAIN k /\ i < n /\ k[i] = j[i] /\ k[n] = line
    BY <1>1, <2>1
  <2> QED BY <1>4, <2>2 DEF Repeated
<1> QED BY <1>2, <1>3, <1>4 DEF k

\* A record, or a part of one, behind a journal in which nothing shares a line.
LEMMA AppendReplayed ==
    ASSUME StoreInv, Live, NEW r \in StoreRecords, r.seq = store.seq + 1, NEW torn \in BOOLEAN,
           NEW ended \in BOOLEAN, journal' = Append(journal, Piece(r, torn, ended)), UNCHANGED <<snapshot, sidecar>>,
           (journal \in Seq(Lines))', \A i \in DOMAIN journal : journal[i].ended,
           ~Glued(journal), Replayed'.end # "bad"
    PROVE  /\ Replayed.end # "bad"
           /\ torn => Replayed'.s = Replayed.s /\ View(Replayed.s)' = View(Replayed.s)
           /\ ~torn => Replayed'.s.seq = store.seq + 1 /\ View(Replayed.s)' = applyOperation(truth, r.op)
<1>1. PICK line : line = Piece(r, torn, ended)
  OBVIOUS
<1>2. (torn => ~Parses(line)) /\ (~torn => Parses(line) /\ line.recs[1] = r)
  <2>1. torn => Len(line.recs) = 0
    BY <1>1 DEF Piece
  <2>2. ~torn => line.recs = <<r>> /\ Parses(line)
    <3> SUFFICES ASSUME ~torn PROVE line.recs = <<r>> /\ Parses(line)
      OBVIOUS
    <3>1. line = [recs |-> <<r>>, torn |-> FALSE, ended |-> ended]
      BY <1>1 DEF Piece
    <3>2. line.recs = <<r>> /\ ~line.torn /\ Len(line.recs) = 1
      BY <3>1
    <3> QED BY <3>2 DEF Parses
  <2>3. Len(line.recs) = 0 => ~Parses(line)
    BY DEF Parses
  <2> QED BY <2>1, <2>2, <2>3
<1>3. /\ JournalFits /\ SameBase /\ Sidecars /\ journal \in Seq(Lines) /\ Len(journal) \in Nat
      /\ DOMAIN journal = 1 .. Len(journal) /\ LinesEnded
      /\ store.seq \in Nat /\ snapshot.seq \in Nat /\ r.seq \in Nat /\ r.seq > 0
      /\ snapshot.seq <= store.seq
  BY DEF StoreInv, JournalFits, JournalTypes, SameBase, Sidecars, Processes, StoreRecords,
     MemoryTrue
<1>4. \A i \in DOMAIN journal : Parses(journal[i])
  BY <1>3, EndedParses
<1>5. PICK a : a = Replayed /\ Replayed' = ReplayLine(a, line)'
  BY <1>1, <1>3, <1>4, ReplayOneMore
<1>6. Sound(a, Len(journal))
  BY <1>3, <1>5, ReplayedSound
<1>7. /\ a \in Accs /\ a.s \in Processes /\ a.s.seq \in Nat /\ a.last \in Nat /\ a.valid \in Nat
      /\ a.s.entries \in Nat /\ a.s.hist = snapshot.hist /\ a.end \in {"whole", "cut", "bad"}
  BY <1>6 DEF Sound, SoundCount, Accs, Processes
<1>8. a.end = "whole"
  <2>1. a.end # "bad"
    <3>1. a.end = "bad" => ReplayLine(a, line)' = a
      BY DEF ReplayLine
    <3> QED BY <1>5, <3>1
  <2>2. a.end # "cut"
    <3> SUFFICES ASSUME a.end = "cut" PROVE FALSE
      OBVIOUS
    <3>1. a.valid = Len(journal) - 1 /\ ~Parses(journal[Len(journal)])
      BY <1>6 DEF Sound, SoundCount
    <3>2. Len(journal) \in DOMAIN journal
      BY <1>3, <1>7, <3>1
    <3> QED BY <1>4, <3>1, <3>2
  <2> QED BY <1>7, <2>1, <2>2
<1>9. a.valid = Len(journal)
  BY <1>6, <1>8 DEF Sound, SoundCount
<1>10. CASE torn
  <2>1. PICK e : ReplayLine(a, line)' = [a EXCEPT !.end = e]
    BY <1>2, <1>8, <1>10 DEF ReplayLine
  <2>2. Replayed'.s = a.s
    BY <1>5, <1>7, <2>1 DEF Accs
  <2>3. PICK s : s = a.s
    OBVIOUS
  <2>4. View(s)' = View(s)
    BY <1>3, <1>7, <2>3, ViewAgain DEF SameBase
  <2> QED BY <1>5, <1>8, <1>10, <2>2, <2>3, <2>4
<1>11. CASE ~torn
  <2>1. Parses(line) /\ line.recs[1] = r
    BY <1>2, <1>11
  <2>2. Replayed' = ReplayLine(a, line)
    BY <1>3, <1>5, <1>7, <2>1, LineAgain DEF SameBase
  <2>3. Contiguous(a, r)
    <3> SUFFICES ASSUME ~Contiguous(a, r) PROVE FALSE
      OBVIOUS
    <3>1. ReplayLine(a, line) = [a EXCEPT !.end = "bad"]
      BY <1>8, <2>1 DEF ReplayLine
    <3> QED BY <1>7, <2>2, <3>1 DEF Accs
  <2>4. Replayed' = ReplayRecord(a, r)
    BY <1>8, <2>1, <2>2, <2>3 DEF ReplayLine
  <2>5. ShowsUpTo(store.seq)
    BY <1>5, <1>8 DEF StoreInv, ReplayTrue
  <2>6. a.s.seq = store.seq /\ View(a.s) = truth
    <3> SUFFICES ASSUME a.s.seq = store.seq + 1 PROVE FALSE
      BY <1>5, <2>5 DEF ShowsUpTo
    <3>1. a.s.entries > 0 /\ a.last = a.s.seq
      BY <1>3, <1>6, <1>7 DEF Sound, SoundCount
    <3>2. r.seq = a.last + 1 \/ a.last = 0
      BY <1>3, <1>7, <2>3 DEF Contiguous
    <3> QED BY <1>3, <1>7, <3>1, <3>2
  <2>7. r.seq > a.s.seq
    BY <1>3, <2>6
  <2>8. \E s \in Processes :
             /\ ReplayRecord(a, r) = [a EXCEPT !.last = r.seq, !.valid = @ + 1, !.s = s]
             /\ s.seq = r.seq /\ s.hist = a.s.hist /\ s.entries = a.s.entries + 1
             /\ View(s) = applyOperation(View(a.s), r.op)
    BY <1>3, <1>7, <2>7, RecordApplied
  <2>9. PICK s \in Processes :
             /\ Replayed' = [a EXCEPT !.last = r.seq, !.valid = @ + 1, !.s = s]
             /\ s.seq = r.seq /\ s.hist = a.s.hist /\ View(s) = applyOperation(truth, r.op)
    BY <2>4, <2>6, <2>8
  <2>10. Replayed'.s = s
    BY <1>7, <2>9 DEF Accs
  <2>11. View(s)' = View(s)
    BY <1>3, <1>7, <2>9, ViewAgain DEF SameBase
  <2> QED BY <1>5, <1>8, <1>11, <2>9, <2>10, <2>11
<1> QED BY <1>10, <1>11

\* What a commit reads before it writes.
LEMMA BeforeIs ==
    ASSUME StoreInv, NEW op \in Operations, Committing(op)
    PROVE  /\ store.pc = "open" /\ Live /\ Sidecars /\ store \in Processes
           /\ ops \in Nat /\ ops < MaxOps /\ ops' = ops + 1 /\ ops' \in 0 .. MaxOps
           /\ Before(op) \in Processes /\ Before(op).pc = "open" /\ Before(op).seq = store.seq
           /\ Before(op).hist = store.hist /\ Before(op).entries = store.entries
           /\ op.kind = "drop" => Before(op).loaded
           /\ ~Before(op).loaded => ~store.loaded
           /\ View(Before(op)) = truth
           /\ store.seq \in Nat /\ store.seq <= ops
           /\ [seq |-> store.seq + 1, op |-> op] \in StoreRecords
<1>1. /\ store \in Processes /\ Sidecars /\ store.pc = "open" /\ Live /\ View(store) = truth
      /\ ops \in 0 .. MaxOps /\ ops < MaxOps /\ ops' = ops + 1 /\ store.seq <= ops /\ MaxOps \in Nat
  BY StoreAssumption DEF Committing, StoreInv, JournalTypes, SeqsTried, Sidecars, MemoryTrue, Live
<1>2. store.seq \in Nat
  BY <1>1 DEF Processes
<1>3. [seq |-> store.seq + 1, op |-> op] \in StoreRecords
  BY <1>1, <1>2 DEF StoreRecords
<1>4. CASE op.kind = "drop"
  BY <1>1, <1>2, <1>3, <1>4, ViewLoaded DEF Before
<1>5. CASE op.kind # "drop"
  BY <1>1, <1>2, <1>3, <1>5 DEF Before
<1> QED BY <1>4, <1>5

LEMMA CommitStep ==
    ASSUME StoreInv, NEW op \in Operations, CommitOperation(op) PROVE StoreInv'
<1>1. PICK s, r, line : /\ s = Before(op) /\ r = [seq |-> store.seq + 1, op |-> op]
                        /\ line = Piece(r, FALSE, TRUE)
  OBVIOUS
<1>2. /\ store.pc = "open" /\ Live /\ Sidecars /\ ops \in Nat /\ ops < MaxOps /\ ops' = ops + 1 /\ ops' \in 0 .. MaxOps
      /\ s \in Processes /\ s.seq = store.seq /\ s.hist = store.hist
      /\ op.kind = "drop" => s.loaded
      /\ ~s.loaded => ~store.loaded
      /\ View(s) = truth
      /\ store.seq \in Nat /\ store.seq <= ops /\ r \in StoreRecords
  BY <1>1, BeforeIs DEF CommitOperation
<1>3. r.seq = store.seq + 1 /\ r.op = op /\ line.recs = <<r>> /\ line.recs[1] = r
  BY <1>1 DEF Piece
<1> DEFINE w == Show(s, applyOperation(Raw(s), op))
<1>4. /\ journal' = Written(journal, Piece(r, FALSE, TRUE))
      /\ store' = [w EXCEPT !.seq = @ + 1, !.entries = @ + 1,
                            !.pc = IF s.entries + 1 >= CompactAfter THEN "sidecars" ELSE "open"]
      /\ truth' = applyOperation(truth, op) /\ maybe' = truth'
      /\ UNCHANGED <<snapshot, sidecar>>
  BY <1>1, <1>2 DEF CommitOperation
<1>5. /\ w \in Processes /\ w.hist = s.hist /\ w.loaded = s.loaded /\ w.seq = s.seq /\ w.entries = s.entries
      /\ View(w) = applyOperation(truth, op)
  BY <1>2, Shown
<1> HIDE DEF w
<1>6. /\ store' \in Processes /\ store'.seq = store.seq + 1 /\ store'.hist = store.hist
      /\ store'.loaded = s.loaded /\ store'.rows = w.rows /\ store'.past = w.past
      /\ store'.pc \in {"sidecars", "open"}
  <2>1. w.seq + 1 \in 0 .. MaxOps /\ w.entries + 1 \in Nat
    BY <1>2, <1>5, StoreAssumption DEF Processes
  <2> QED BY <1>2, <1>4, <1>5, <2>1 DEF Processes
<1>7. Live' /\ store'.pc # "rename" /\ store'.pc # "truncate" /\ store'.pc # "refused"
  BY <1>6 DEF Live
<1>8. truth' \in Contents
  BY <1>4, ApplyTyped DEF StoreInv, JournalTypes
<1>9. View(store)' = truth'
  <2>1. PICK t : t = store'
    OBVIOUS
  <2>2. View(t) = View(w)
    BY <1>2, <1>5, <1>6, <2>1, SameView
  <2>3. View(t)' = View(t)
    BY <1>4, ViewAgain
  <2> QED BY <1>4, <1>5, <2>1, <2>2, <2>3
<1>10. /\ journal' \in Seq(Lines) /\ LinesEnded' /\ \A i \in DOMAIN journal' : Below(journal'[i], ops')
       /\ \/ /\ Glued(journal') /\ journal # <<>> /\ journal' # <<>>
             /\ Parses(journal'[1]) => journal'[1] = journal[1]
          \/ /\ journal' = Append(journal, line)
             /\ \A i \in DOMAIN journal : journal[i].ended
  <2>1. ops' \in Nat /\ ops <= ops' /\ r.seq <= ops'
    BY <1>2, <1>3
  <2> QED BY <1>1, <1>2, <1>4, <2>1, WrittenIs DEF StoreInv
<1>11. JournalTypes'
  BY <1>2, <1>4, <1>6, <1>8, <1>10 DEF StoreInv, JournalTypes
<1>12. snapshot.seq \in Nat /\ snapshot.seq <= store.seq /\ snapshot.seq <= ops
  BY <1>2 DEF StoreInv, JournalTypes, MemoryTrue, SeqsTried
<1>13. SeqsTried'
  <2>1. store'.seq <= ops' /\ snapshot'.seq <= ops'
    BY <1>2, <1>4, <1>6, <1>12
  <2> QED BY <1>10, <2>1 DEF SeqsTried
<1>14. MemoryTrue'
  BY <1>2, <1>4, <1>6, <1>7, <1>9, <1>12 DEF StoreInv, MemoryTrue
<1>15. OneAhead'
  <2> SUFFICES ASSUME ~Glued(journal'), ~Repeated(journal') PROVE AheadOf(store.seq, truth, maybe)'
    BY DEF OneAhead
  <2>1. journal' = Append(journal, line) /\ journal \in Seq(Lines)
    BY <1>10 DEF StoreInv, JournalTypes
  <2>2. ~Glued(journal) /\ ~Repeated(journal)
    BY <2>1, RepeatedStays
  <2>3. AheadOf(store.seq, truth, maybe)
    BY <1>2, <2>2 DEF StoreInv, OneAhead
  <2>4. ASSUME NEW i \in DOMAIN journal', Parses(journal'[i])
        PROVE  journal'[i].recs[1].seq \in Nat /\ journal'[i].recs[1].seq <= store.seq + 1
    <3>1. CASE i \in DOMAIN journal
      <4>1. journal'[i] = journal[i] /\ i \in 1 .. Len(journal)
        BY <2>1, <3>1
      <4>2. journal[i].recs[1].seq \in Nat
        BY <2>4, <4>1, LineTyped DEF StoreInv, JournalFits, StoreRecords
      <4> QED BY <2>3, <2>4, <3>1, <4>1, <4>2 DEF AheadOf
    <3>2. CASE i \notin DOMAIN journal
      <4>1. journal'[i] = line
        BY <2>1, <3>2
      <4>2. journal'[i].recs[1].seq = store.seq + 1
        BY <1>3, <4>1
      <4> QED BY <1>2, <4>2
    <3> QED BY <3>1, <3>2
  <2>5. ASSUME NEW i \in DOMAIN journal', Parses(journal'[i])
        PROVE  journal'[i].recs[1].seq <= store'.seq + 1 /\ journal'[i].recs[1].seq # store'.seq + 1
    BY <1>2, <1>6, <2>4, <2>5
  <2> QED BY <2>5 DEF AheadOf
<1>16. ReplayTrue'
  <2> SUFFICES ASSUME ~Glued(journal'), Replayed'.end # "bad" PROVE ShowsUpTo(store.seq)'
    BY <1>7 DEF ReplayTrue
  <2>1. journal' = Append(journal, line) /\ journal \in Seq(Lines)
    BY <1>10 DEF StoreInv, JournalTypes
  <2>2. ~Glued(journal)
    BY <2>1, RepeatedStays
  <2>3. Replayed'.s.seq = store.seq + 1 /\ View(Replayed.s)' = applyOperation(truth, r.op)
    BY <1>1, <1>2, <1>3, <1>4, <1>10, <2>1, <2>2, AppendReplayed
  <2> QED BY <1>3, <1>4, <1>6, <2>3 DEF ShowsUpTo
<1>17. FirstFits'
  <2>1. CASE journal' = Append(journal, line)
    <3>1. journal \in Seq(Lines)
      BY DEF StoreInv, JournalTypes
    <3>2. CASE journal = <<>>
      <4>1. journal' # <<>> /\ journal'[1] = line
        BY <2>1, <3>2
      <4>2. store.seq = snapshot.seq
        BY <1>2, <3>2 DEF StoreInv, FirstFits
      <4>3. journal'[1].recs[1].seq <= snapshot'.seq + 1
        <5>1. snapshot' = snapshot
          BY <1>4
        <5>2. journal'[1].recs[1].seq = store.seq + 1
          BY <1>3, <4>1
        <5> QED BY <1>2, <4>2, <5>1, <5>2
      <4> QED BY <4>1, <4>3 DEF FirstFits
    <3>3. CASE journal # <<>>
      <4>1. journal' # <<>> /\ journal'[1] = journal[1]
        BY <2>1, <3>1, <3>3
      <4> QED BY <1>4, <3>3, <4>1 DEF StoreInv, FirstFits
    <3> QED BY <3>2, <3>3
  <2>2. CASE journal # <<>> /\ journal' # <<>> /\ (Parses(journal'[1]) => journal'[1] = journal[1])
    BY <1>4, <2>2 DEF StoreInv, FirstFits
  <2> QED BY <1>10, <2>1, <2>2
<1>18. RefusedBlemished'
  BY <1>7 DEF RefusedBlemished
<1> QED BY <1>10, <1>11, <1>13, <1>14, <1>15, <1>16, <1>17, <1>18 DEF StoreInv

LEMMA AppendFailsStep ==
    ASSUME StoreInv, NEW op \in Operations, AppendFails(op) PROVE StoreInv'
<1>1. PICK s, r : s = Before(op) /\ r = [seq |-> store.seq + 1, op |-> op]
  OBVIOUS
<1>2. /\ store.pc = "open" /\ Live /\ Sidecars /\ ops \in Nat /\ ops < MaxOps /\ ops' = ops + 1 /\ ops' \in 0 .. MaxOps
      /\ s \in Processes /\ s.pc = "open" /\ s.seq = store.seq /\ s.hist = store.hist
      /\ ~s.loaded => ~store.loaded
      /\ View(s) = truth
      /\ store.seq \in Nat /\ store.seq <= ops /\ r \in StoreRecords
  BY <1>1, BeforeIs DEF AppendFails
<1>3. r.seq = store.seq + 1 /\ r.op = op /\ r.seq <= ops' /\ ops' \in Nat /\ ops <= ops'
  BY <1>1, <1>2
<1>4. /\ store' \in {s, Down} /\ UNCHANGED <<snapshot, sidecar, truth>>
      /\ \/ UNCHANGED <<journal, maybe>>
         \/ \E piece \in Remains(r) :
              /\ journal' = Written(journal, piece)
              /\ maybe' = IF piece.torn THEN maybe ELSE applyOperation(truth, op)
  BY <1>1, <1>2 DEF AppendFails
<1>5. /\ store' \in Processes /\ store'.pc \in {"open", "down"} /\ (Live' => store'.seq = store.seq)
      /\ store'.seq <= ops' /\ SameBase
  BY <1>2, <1>3, <1>4, DownTyped DEF Live, SameBase, JournalTypes, StoreInv
<1>6. MemoryTrue'
  <2>1. Live' => View(store)' = truth'
    <3>1. View(s)' = View(s)
      BY <1>4, ViewAgain
    <3>2. Live' => store' = s
      BY <1>4, DownTyped DEF Live
    <3> QED BY <1>2, <1>4, <3>1, <3>2
  <2>2. Live' => store'.seq = store.seq /\ (~store'.loaded => ~store.loaded /\ store'.hist = store.hist)
    BY <1>2, <1>4, DownTyped DEF Live
  <2>3. SnapshotShows' = SnapshotShows
    BY <1>4 DEF SnapshotShows
  <2>4. snapshot.hist \in {0, snapshot.seq} /\ snapshot.seq <= store.seq
        /\ (snapshot.seq = store.seq => SnapshotShows = truth) /\ (~store.loaded => store.hist = snapshot.hist)
    BY <1>2 DEF StoreInv, MemoryTrue
  <2>5. store'.pc # "rename" /\ store'.pc # "truncate"
    BY <1>5
  <2> QED BY <1>4, <2>1, <2>2, <2>3, <2>4, <2>5 DEF MemoryTrue
<1>7. CASE journal' = journal /\ maybe' = maybe
  <2>1. JournalTypes'
    BY <1>2, <1>4, <1>5, <1>7 DEF StoreInv, JournalTypes
  <2>2. store'.pc # "refused"
    BY <1>5
  <2> QED BY <1>2, <1>3, <1>4, <1>5, <1>6, <1>7, <2>1, <2>2, ProcessTries
<1>8. ASSUME NEW torn \in BOOLEAN, NEW ended \in BOOLEAN, torn => ~ended,
             journal' = Written(journal, Piece(r, torn, ended)),
             maybe' = IF torn THEN maybe ELSE applyOperation(truth, op)
      PROVE  StoreInv'
  <2>1. PICK line : line = Piece(r, torn, ended)
    OBVIOUS
  <2>2. /\ journal' \in Seq(Lines) /\ LinesEnded' /\ \A i \in DOMAIN journal' : Below(journal'[i], ops')
        /\ \/ torn /\ journal' = journal
           \/ /\ Glued(journal') /\ journal # <<>> /\ journal' # <<>>
              /\ Parses(journal'[1]) => journal'[1] = journal[1]
           \/ /\ journal' = Append(journal, line)
              /\ \A i \in DOMAIN journal : journal[i].ended
    BY <1>2, <1>3, <1>8, <2>1, WrittenIs DEF StoreInv
  <2>3. /\ torn => ~Parses(line)
        /\ ~torn => line.recs[1] = r /\ Parses(line)
    <3>1. torn => Len(line.recs) = 0
      BY <2>1 DEF Piece
    <3>2. ~torn => line.recs = <<r>> /\ ~line.torn
      BY <2>1 DEF Piece
    <3>3. ASSUME torn PROVE ~Parses(line)
      <4>1. Len(line.recs) # 1
        BY <3>1, <3>3
      <4> QED BY <4>1 DEF Parses
    <3>4. ASSUME ~torn PROVE Parses(line) /\ line.recs[1] = r
      <4>1. Len(line.recs) = 1 /\ ~line.torn /\ line.recs[1] = r
        BY <3>2, <3>4
      <4> QED BY <4>1 DEF Parses
    <3> QED BY <3>3, <3>4
  <2>4. maybe' \in Contents
    BY <1>8, ApplyTyped DEF StoreInv, JournalTypes
  <2>5. JournalTypes'
    BY <1>2, <1>4, <1>5, <2>2, <2>4 DEF StoreInv, JournalTypes
  <2>6. snapshot.seq \in Nat /\ snapshot.seq <= ops /\ snapshot.seq <= store.seq
    BY <1>2 DEF StoreInv, JournalTypes, SeqsTried, MemoryTrue
  <2>7. SeqsTried'
    <3>1. snapshot'.seq <= ops'
      BY <1>2, <1>4, <2>6
    <3> QED BY <1>5, <2>2, <3>1 DEF SeqsTried
  <2>8. RefusedBlemished'
    BY <1>5 DEF RefusedBlemished
  <2>9. CASE torn /\ journal' = journal
    BY <1>7, <1>8, <2>9
  <2>10. CASE Glued(journal') /\ journal # <<>> /\ journal' # <<>> /\ (Parses(journal'[1]) => journal'[1] = journal[1])
    <3>1. OneAhead' /\ ReplayTrue'
      BY <2>10 DEF OneAhead, ReplayTrue
    <3>2. FirstFits'
      BY <1>4, <2>10 DEF StoreInv, FirstFits
    <3> QED BY <1>6, <2>2, <2>5, <2>7, <2>8, <3>1, <3>2 DEF StoreInv
  <2>11. CASE journal' = Append(journal, line) /\ \A i \in DOMAIN journal : journal[i].ended
    <3>1. journal \in Seq(Lines) /\ Len(journal) \in Nat
      BY DEF StoreInv, JournalTypes
    <3>2. FirstFits'
      <4>1. CASE journal = <<>>
        <5>1. journal' # <<>> /\ journal'[1] = line
          BY <2>11, <4>1
        <5>2. store.seq = snapshot.seq
          BY <1>2, <4>1 DEF StoreInv, FirstFits
        <5>3. Parses(journal'[1]) => journal'[1].recs[1].seq <= snapshot'.seq + 1
          <6>1. Parses(line) => line.recs[1] = r
            BY <2>3
          <6>2. r.seq <= snapshot'.seq + 1
            BY <1>2, <1>3, <1>4, <5>2
          <6> QED BY <5>1, <6>1, <6>2
        <5> QED BY <5>1, <5>3 DEF FirstFits
      <4>2. CASE journal # <<>>
        <5>1. journal' # <<>> /\ journal'[1] = journal[1]
          BY <2>11, <3>1, <4>2
        <5> QED BY <1>4, <4>2, <5>1 DEF StoreInv, FirstFits
      <4> QED BY <4>1, <4>2
    <3>3. OneAhead'
      <4> SUFFICES ASSUME Live', ~Glued(journal'), ~Repeated(journal') PROVE AheadOf(store.seq, truth, maybe)'
        BY DEF OneAhead
      <4>1. ~Glued(journal) /\ ~Repeated(journal)
        BY <2>11, <3>1, RepeatedStays
      <4>2. AheadOf(store.seq, truth, maybe)
        BY <1>2, <4>1 DEF StoreInv, OneAhead
      <4>3. ASSUME NEW i \in DOMAIN journal', Parses(journal'[i])
            PROVE  /\ journal'[i].recs[1].seq <= store.seq + 1
                   /\ journal'[i].recs[1].seq = store.seq + 1
                        => applyOperation(truth, journal'[i].recs[1].op) = maybe'
        <5>1. CASE i \in DOMAIN journal
          <6>1. journal'[i] = journal[i] /\ i \in 1 .. Len(journal)
            BY <2>11, <3>1, <5>1
          <6>2. /\ journal[i].recs[1].seq <= store.seq + 1
                /\ journal[i].recs[1].seq = store.seq + 1 => applyOperation(truth, journal[i].recs[1].op) = maybe
            BY <4>2, <4>3, <5>1, <6>1 DEF AheadOf
          <6>3. CASE torn
            BY <1>8, <6>1, <6>2, <6>3
          <6>4. CASE ~torn
            <7>1. ~ (line.recs[1].seq <= journal[i].recs[1].seq)
              BY <2>3, <2>11, <3>1, <4>3, <5>1, <6>1, <6>4, RepeatedStays
            <7>2. journal[i].recs[1].seq # store.seq + 1
              BY <1>2, <1>3, <2>3, <6>4, <7>1
            <7> QED BY <6>1, <6>2, <7>2
          <6> QED BY <6>3, <6>4
        <5>2. CASE i \notin DOMAIN journal
          <6>1. journal'[i] = line
            BY <2>11, <3>1, <5>2
          <6>2. ~torn
            BY <2>3, <4>3, <6>1
          <6>3. journal'[i].recs[1] = r /\ maybe' = applyOperation(truth, op)
            BY <1>8, <2>3, <6>1, <6>2
          <6> QED BY <1>2, <1>3, <6>3
        <5> QED BY <5>1, <5>2
      <4>4. store'.seq = store.seq /\ truth' = truth
        BY <1>4, <1>5
      <4> QED BY <4>3, <4>4 DEF AheadOf
    <3>4. ReplayTrue'
      <4> SUFFICES ASSUME ~Glued(journal'), Replayed'.end # "bad"
                   PROVE  /\ Live' => ShowsUpTo(store.seq)'
                          /\ ~Live' => View(Replayed.s)' \in {truth', maybe'}
        BY DEF ReplayTrue
      <4>1. ~Glued(journal)
        BY <2>11, <3>1, RepeatedStays
      <4>2. /\ Replayed.end # "bad"
            /\ torn => Replayed'.s = Replayed.s /\ View(Replayed.s)' = View(Replayed.s)
            /\ ~torn => Replayed'.s.seq = store.seq + 1 /\ View(Replayed.s)' = applyOperation(truth, r.op)
        BY <1>2, <1>3, <1>4, <2>1, <2>2, <2>11, <4>1, AppendReplayed
      <4>3. CASE torn
        <5>1. ShowsUpTo(store.seq)
          BY <1>2, <4>1, <4>2 DEF StoreInv, ReplayTrue
        <5> QED BY <1>4, <1>5, <1>8, <4>2, <4>3, <5>1 DEF ShowsUpTo
      <4>4. CASE ~torn
        BY <1>3, <1>4, <1>5, <1>8, <4>2, <4>4 DEF ShowsUpTo
      <4> QED BY <4>3, <4>4
    <3> QED BY <1>6, <2>2, <2>5, <2>7, <2>8, <3>2, <3>3, <3>4 DEF StoreInv
  <2> QED BY <2>2, <2>9, <2>10, <2>11
<1>9. CASE \E piece \in Remains(r) :
              /\ journal' = Written(journal, piece)
              /\ maybe' = IF piece.torn THEN maybe ELSE applyOperation(truth, op)
  <2>1. PICK piece \in Remains(r) :
              /\ journal' = Written(journal, piece)
              /\ maybe' = IF piece.torn THEN maybe ELSE applyOperation(truth, op)
    BY <1>9
  <2>2. CASE piece = Piece(r, TRUE, FALSE)
    <3>1. piece.torn
      BY <2>2 DEF Piece
    <3> QED BY <1>8, <2>1, <2>2, <3>1
  <2>3. CASE piece = Piece(r, FALSE, FALSE)
    <3>1. ~piece.torn
      BY <2>3 DEF Piece
    <3> QED BY <1>8, <2>1, <2>3, <3>1
  <2>4. CASE piece = Piece(r, FALSE, TRUE)
    <3>1. ~piece.torn
      BY <2>4 DEF Piece
    <3> QED BY <1>8, <2>1, <2>4, <3>1
  <2> QED BY <2>2, <2>3, <2>4 DEF Remains
<1> QED BY <1>4, <1>7, <1>9

-----------------------------------------------------------------------------
(* The process starts *)

LEMMA OpenRefused ==
    ASSUME StoreInv, Open, Replayed.end = "bad" PROVE StoreInv'
<1>1. /\ store' = [store EXCEPT !.pc = "refused"] /\ UNCHANGED <<files, truth, maybe, ops>>
      /\ store.pc = "down" /\ store \in Processes
  BY DEF Open, files, StoreInv, JournalTypes
<1>2. store' \in Processes /\ store'.pc = "refused" /\ store'.seq = store.seq /\ ~Live'
  BY <1>1 DEF Processes, Live
<1>3. /\ JournalFits /\ SameBase /\ journal' = journal
  BY <1>1 DEF StoreInv, JournalFits, SameBase, files
<1>4. Replayed'.end = "bad"
  BY <1>3, ReplaySame
<1>5. JournalTypes' /\ SeqsTried' /\ LinesEnded' /\ OneAhead' /\ FirstFits' /\ ReplayTrue'
  BY <1>1, <1>2, <1>4
  DEF StoreInv, JournalTypes, SeqsTried, LinesEnded, OneAhead, FirstFits, ReplayTrue, files
<1>6. MemoryTrue'
  BY <1>1, <1>2 DEF StoreInv, MemoryTrue, files
<1>7. RefusedBlemished'
  <2>1. Blemished(journal)
    BY <1>3, CleanReplays DEF StoreInv
  <2> QED BY <1>3, <2>1 DEF RefusedBlemished
<1> QED BY <1>5, <1>6, <1>7 DEF StoreInv

LEMMA OpenReplayed ==
    ASSUME StoreInv, Open, Replayed.end # "bad"
    PROVE  StoreInv' /\ (~Glued(journal) => truth' \in {truth, maybe})
<1>1. PICK R, p : R = Replayed /\ p = IF snapshot.exists THEN "open" ELSE "sidecars"
  OBVIOUS
<1>2. /\ journal' = Reclaimed(R) /\ store' = [R.s EXCEPT !.pc = p]
      /\ truth' = View(R.s) /\ maybe' = View(R.s) /\ UNCHANGED <<snapshot, sidecar, ops>>
      /\ store.pc = "down" /\ ~Live
  BY <1>1 DEF Open, Live
<1>3. /\ JournalFits /\ SameBase /\ Sidecars /\ journal \in Seq(Lines) /\ Len(journal) \in Nat
      /\ DOMAIN journal = 1 .. Len(journal) /\ snapshot.seq \in Nat /\ LinesEnded
  BY <1>2 DEF StoreInv, JournalFits, JournalTypes, SameBase, Sidecars
<1>4. Sound(R, Len(journal))
  BY <1>1, <1>3, ReplayedSound
<1>5. /\ R \in Accs /\ R.s \in Processes /\ R.s.seq \in Nat /\ R.valid \in Nat /\ R.s.entries \in Nat
      /\ R.end \in {"whole", "cut"} /\ R.s.hist = snapshot.hist /\ R.s.seq <= ops
      /\ snapshot.seq <= R.s.seq /\ R.valid <= Len(journal)
      /\ R.s.entries = 0 => R.s = FromSnapshot /\ R.s.seq = snapshot.seq
      /\ R.s.entries > 0 => R.s.seq > snapshot.seq
  BY <1>1, <1>4 DEF Sound, SoundCount, Accs, Processes
<1>6. PICK s : s = R.s
  OBVIOUS
<1>7. /\ Replayed'.end = "whole" /\ Replayed'.s = s
      /\ journal' \in Seq(Lines) /\ Len(journal') <= Len(journal)
      /\ \A i \in DOMAIN journal' : i \in DOMAIN journal /\ journal'[i] = journal[i]
      /\ journal' = <<>> => R.s.entries = 0
  <2>1. CASE R.end = "cut"
    <3>1. journal' = SubSeq(journal, 1, R.valid)
      BY <1>2, <2>1 DEF Reclaimed
    <3>2. Replayed'.end = "whole" /\ Replayed'.s = s
      BY <1>1, <1>3, <1>6, <2>1, <3>1, ReplayCut
    <3>3. journal' \in Seq(Lines) /\ Len(journal') = R.valid
          /\ \A i \in DOMAIN journal' : i \in DOMAIN journal /\ journal'[i] = journal[i]
      BY <1>3, <1>5, <3>1
    <3>4. journal' = <<>> => R.s.entries = 0
      <4>1. journal' = <<>> => R.valid = 0
        BY <3>3
      <4>2. R.valid = 0 => R.last = 0
        BY <1>4 DEF Sound, Rising
      <4>3. R.s.entries > 0 => R.last > snapshot.seq
        BY <1>4 DEF Sound, SoundCount
      <4> QED BY <1>3, <1>5, <4>1, <4>2, <4>3
    <3> QED BY <1>5, <3>2, <3>3, <3>4
  <2>2. CASE R.end = "whole" /\ R.s.entries = 0
    <3>1. journal' = <<>>
      BY <1>2, <2>2 DEF Reclaimed
    <3>2. Replayed' = ReplayBase'
      BY <3>1, ReplayOfNothing
    <3>3. ReplayBase' = ReplayBase
      BY <1>3 DEF ReplayBase, FromSnapshot, SameBase
    <3>4. Replayed'.end = "whole" /\ Replayed'.s = s
      BY <1>5, <1>6, <2>2, <3>2, <3>3 DEF ReplayBase
    <3> QED BY <1>3, <2>2, <3>1, <3>4
  <2>3. CASE R.end = "whole" /\ R.s.entries # 0
    <3>1. journal' = journal
      BY <1>2, <2>3 DEF Reclaimed
    <3>2. Replayed' = R
      BY <1>1, <1>3, <3>1, ReplaySame
    <3>3. journal # <<>>
      <4>1. journal = <<>> => R.valid = 0
        BY <1>3, <1>5
      <4>2. R.valid = 0 => R.last = 0
        BY <1>4 DEF Sound, Rising
      <4>3. R.s.entries > 0 => R.last > snapshot.seq
        BY <1>4 DEF Sound, SoundCount
      <4> QED BY <1>3, <1>5, <2>3, <4>1, <4>2, <4>3
    <3> QED BY <1>3, <1>6, <2>3, <3>1, <3>2, <3>3
  <2> QED BY <1>5, <2>1, <2>2, <2>3
<1>8. /\ store' \in Processes /\ store'.pc \in {"open", "sidecars"} /\ store'.rows = s.rows
      /\ store'.past = s.past /\ store'.loaded = s.loaded /\ store'.hist = s.hist /\ store'.seq = s.seq
      /\ Live' /\ s \in Processes /\ View(s) \in Contents
  BY <1>1, <1>2, <1>3, <1>5, <1>6, ViewLoaded DEF Processes, Live
<1>9. View(store)' = truth' /\ View(s)' = View(s)
  <2>1. PICK t : t = store'
    OBVIOUS
  <2>2. View(t) = View(s)
    BY <1>3, <1>8, <2>1, SameView
  <2>3. View(t)' = View(t) /\ View(s)' = View(s)
    BY <1>2, ViewAgain
  <2> QED BY <1>2, <1>6, <2>1, <2>2, <2>3
<1>10. JournalTypes'
  BY <1>2, <1>6, <1>7, <1>8 DEF StoreInv, JournalTypes
<1>11. SeqsTried' /\ LinesEnded'
  <2>1. \A i \in DOMAIN journal' : Below(journal'[i], ops')
    BY <1>2, <1>7 DEF StoreInv, SeqsTried
  <2>2. store'.seq <= ops' /\ snapshot'.seq <= ops'
    BY <1>2, <1>5, <1>6, <1>8 DEF StoreInv, SeqsTried
  <2>3. \A i \in DOMAIN journal' : i \in 1 .. Len(journal')
    BY <1>7
  <2>4. Len(journal') \in Nat
    BY <1>7
  <2>5. LinesEnded'
    <3> SUFFICES ASSUME NEW i \in DOMAIN journal'
                 PROVE  /\ journal'[i].ended \/ i = Len(journal')
                        /\ Len(journal'[i].recs) = 0 => journal'[i].torn /\ ~journal'[i].ended
      BY DEF LinesEnded
    <3>1. i \in DOMAIN journal /\ journal'[i] = journal[i] /\ i \in 1 .. Len(journal')
      BY <1>7, <2>3
    <3>2. CASE journal[i].ended
      BY <1>3, <3>1, <3>2 DEF LinesEnded
    <3>3. CASE ~journal[i].ended
      <4>1. i = Len(journal)
        BY <1>3, <3>1, <3>3 DEF LinesEnded
      <4>2. i = Len(journal')
        BY <1>3, <1>7, <2>4, <3>1, <4>1
      <4> QED BY <1>3, <3>1, <4>2 DEF LinesEnded
    <3> QED BY <3>2, <3>3
  <2> QED BY <2>1, <2>2, <2>5 DEF SeqsTried
<1>12. MemoryTrue'
  <2>1. SnapshotShows' = SnapshotShows /\ snapshot' = snapshot
    BY <1>2 DEF SnapshotShows
  <2>2. snapshot.seq = store'.seq => SnapshotShows = truth'
    <3> SUFFICES ASSUME snapshot.seq = store'.seq PROVE SnapshotShows = truth'
      OBVIOUS
    <3>1. R.s = FromSnapshot
      BY <1>3, <1>5, <1>6, <1>8
    <3>2. FromSnapshot \in Processes
      BY <1>5, <3>1
    <3>3. View(FromSnapshot) = SnapshotShows
      BY <1>3, <3>2, ViewOfSnapshot
    <3> QED BY <1>2, <3>1, <3>3
  <2>3. snapshot.hist \in {0, snapshot.seq}
    BY DEF StoreInv, MemoryTrue
  <2>4. store'.pc # "rename" /\ store'.pc # "truncate"
    BY <1>8
  <2>5. snapshot.seq <= store'.seq /\ store'.hist = snapshot.hist
    BY <1>5, <1>6, <1>8
  <2> QED BY <1>9, <2>1, <2>2, <2>3, <2>4, <2>5 DEF MemoryTrue
<1>13. OneAhead'
  <2>1. ASSUME NEW i \in DOMAIN journal', Parses(journal'[i])
        PROVE  journal'[i].recs[1].seq <= store'.seq + 1 /\ journal'[i].recs[1].seq # store'.seq + 1
    <3>1. i \in DOMAIN journal /\ i \in 1 .. Len(journal) /\ journal'[i] = journal[i]
      BY <1>3, <1>7
    <3>2. journal[i].recs[1].seq <= R.s.seq
      BY <1>1, <1>3, <2>1, <3>1, ReplayRises
    <3>3. journal[i].recs[1].seq \in Nat
      BY <1>3, <2>1, <3>1, LineTyped DEF StoreRecords
    <3> QED BY <1>5, <1>6, <1>8, <3>1, <3>2, <3>3
  <2> QED BY <2>1 DEF OneAhead, AheadOf
<1>14. ReplayTrue'
  <2>1. Replayed'.s.seq = store'.seq /\ View(Replayed.s)' = truth'
    BY <1>2, <1>6, <1>7, <1>8, <1>9
  <2> QED BY <1>8, <2>1 DEF ReplayTrue, ShowsUpTo
<1>15. FirstFits'
  <2>1. journal' = <<>> => store'.seq = snapshot'.seq
    BY <1>2, <1>5, <1>6, <1>7, <1>8
  <2>2. journal' # <<>> => journal # <<>> /\ journal'[1] = journal[1]
    <3> SUFFICES ASSUME journal' # <<>> PROVE journal # <<>> /\ journal'[1] = journal[1]
      OBVIOUS
    <3>1. 1 \in DOMAIN journal'
      BY <1>7
    <3> QED BY <1>3, <1>7, <3>1
  <2> QED BY <1>2, <2>1, <2>2 DEF StoreInv, FirstFits
<1>16. RefusedBlemished'
  BY <1>8 DEF RefusedBlemished
<1>17. ~Glued(journal) => truth' \in {truth, maybe}
  BY <1>1, <1>2 DEF StoreInv, ReplayTrue
<1> QED BY <1>10, <1>11, <1>12, <1>13, <1>14, <1>15, <1>16, <1>17 DEF StoreInv

-----------------------------------------------------------------------------
(* The store *)

LEMMA StoreStarts == StoreInit => StoreInv
<1> SUFFICES ASSUME StoreInit PROVE StoreInv
  OBVIOUS
<1>1. 0 \in 0 .. MaxOps
  BY StoreAssumption
<1>2. Nothing \in Contents
  BY DEF Nothing, Contents
<1>3. JournalTypes
  BY <1>1, <1>2, DownTyped DEF StoreInit, JournalTypes
<1>4. store.pc = "down" /\ store.seq = 0 /\ ~Live /\ snapshot.hist = 0 /\ snapshot.seq = 0
      /\ snapshot.rows = {} /\ journal = <<>> /\ ops = 0 /\ truth = Nothing
  BY DownTyped DEF StoreInit, Live
<1>5. SeqsTried /\ LinesEnded /\ OneAhead /\ FirstFits /\ RefusedBlemished /\ MemoryTrue
  BY <1>4 DEF SeqsTried, LinesEnded, OneAhead, FirstFits, RefusedBlemished, MemoryTrue, Parses
<1>6. ReplayTrue
  <2>1. JournalFits /\ Sidecars
    BY <1>3, <1>5 DEF JournalFits, Sidecars, JournalTypes
  <2>2. PICK st : Course(st)
    BY <1>3, ReplayCourse DEF HasCourse, JournalTypes
  <2>3. Replayed = ReplayBase
    BY <1>4, <2>2 DEF Course
  <2>4. Replayed.s = FromSnapshot
    BY <2>3 DEF ReplayBase
  <2>5. FromSnapshot \in Processes
    BY <2>1, <2>3, <2>4, BaseSound DEF Sound, SoundCount, Accs
  <2>6. View(FromSnapshot) = SnapshotShows
    BY <2>1, <2>5, ViewOfSnapshot
  <2>7. SnapshotShows = Nothing
    BY <1>4 DEF SnapshotShows, Nothing
  <2> QED BY <1>4, <2>4, <2>6, <2>7 DEF ReplayTrue
<1> QED BY <1>3, <1>5, <1>6 DEF StoreInv

LEMMA OpenStep == ASSUME StoreInv, Open PROVE StoreInv'
BY OpenRefused, OpenReplayed

LEMMA StoreStutters == StoreInv /\ UNCHANGED storeVars => StoreInv'
<1> SUFFICES ASSUME StoreInv, UNCHANGED storeVars PROVE StoreInv'
  OBVIOUS
<1>1. JournalFits /\ SameBase /\ journal' = journal /\ UNCHANGED <<snapshot, sidecar, store, truth, maybe, ops>>
  BY DEF storeVars, SameBase, StoreInv, JournalFits
<1>2. Replayed' = Replayed /\ View(Replayed.s)' = View(Replayed.s)
  BY <1>1, ReplaySame
<1>3. JournalTypes' /\ SeqsTried' /\ LinesEnded' /\ FirstFits' /\ RefusedBlemished'
  BY <1>1 DEF StoreInv, JournalTypes, SeqsTried, LinesEnded, FirstFits, RefusedBlemished, Live
<1>4. Live' = Live /\ View(store)' = View(store) /\ SnapshotShows' = SnapshotShows
  BY <1>1 DEF Live, View, loadHistory, Archived, SnapshotShows
<1>5. MemoryTrue'
  BY <1>1, <1>4 DEF StoreInv, MemoryTrue
<1>6. OneAhead'
  BY <1>1, <1>4 DEF StoreInv, OneAhead, AheadOf
<1>7. ReplayTrue'
  <2>1. ShowsUpTo(store.seq)' = ShowsUpTo(store.seq)
    BY <1>1, <1>2 DEF ShowsUpTo
  <2> QED BY <1>1, <1>2, <1>4, <2>1 DEF StoreInv, ReplayTrue
<1> QED BY <1>3, <1>5, <1>6, <1>7 DEF StoreInv

LEMMA StoreInvHolds == StoreSpec => []StoreInv
<1>1. StoreInv /\ [StoreNext]_storeVars => StoreInv'
  <2> SUFFICES ASSUME StoreInv, [StoreNext]_storeVars PROVE StoreInv'
    OBVIOUS
  <2>1. ASSUME Open \/ LoadHistory PROVE StoreInv'
    BY <2>1, OpenStep, LoadHistoryStep
  <2>2. ASSUME WriteSidecars \/ RenameSnapshot \/ TruncateJournal PROVE StoreInv'
    BY <2>2, WriteSidecarsStep, RenameSnapshotStep, TruncateJournalStep
  <2>3. ASSUME CompactionFails \/ Close \/ StoreCrash PROVE StoreInv'
    BY <2>3, CompactionFailsStep, CloseStep, StoreCrashStep
  <2>4. ASSUME NEW op \in Operations, CommitOperation(op) PROVE StoreInv'
    BY <2>4, CommitStep
  <2>5. ASSUME NEW op \in Operations, AppendFails(op) PROVE StoreInv'
    BY <2>5, AppendFailsStep
  <2>6. CASE UNCHANGED storeVars
    BY <2>6, StoreStutters
  <2> QED BY <2>1, <2>2, <2>3, <2>4, <2>5, <2>6 DEF StoreNext
<1> QED BY <1>1, StoreStarts, PTL DEF StoreSpec

\* The store opens its files again wherever the process died and whichever write failed: it
\* refuses only a journal with two records in one line, a number used twice or a number that is
\* missing (JsonStore.init over what appendJournal and compactSnapshot leave).
THEOREM RefusesOnlyTheBlemished == StoreSpec => []RefusesOnlyBlemished
<1>1. StoreInv => RefusesOnlyBlemished
  BY DEF StoreInv, RefusedBlemished, Blemished, RefusesOnlyBlemished
<1> QED BY <1>1, StoreInvHolds, PTL

\* A start shows what the commits shown before it amount to, or that with the one record whose
\* append had failed, unless two records share a line of the journal (JsonStore.init: the
\* snapshot, its history files and the replay of the journal).
THEOREM RestartsKeepCommits == StoreSpec => RestartKeepsCommits
<1> DEFINE Keeps == store.pc = "down" /\ store'.pc \in {"open", "sidecars"} /\ ~Glued(journal)
                      => truth' \in {truth, maybe}
<1>1. StoreInv /\ [StoreNext]_storeVars => [Keeps]_storeVars
  <2> SUFFICES ASSUME StoreInv, StoreNext, store.pc = "down", store'.pc \in {"open", "sidecars"},
                      ~Glued(journal)
               PROVE  truth' \in {truth, maybe}
    BY DEF Keeps
  <2>1. Open
    BY DEF StoreNext, LoadHistory, WriteSidecars, RenameSnapshot, TruncateJournal, CompactionFails,
           Close, StoreCrash, CommitOperation, AppendFails, Committing
  <2>2. CASE Replayed.end = "bad"
    <3>1. store' = [store EXCEPT !.pc = "refused"] /\ store \in Processes
      BY <2>1, <2>2 DEF Open, StoreInv, JournalTypes
    <3> QED BY <3>1 DEF Processes
  <2>3. CASE Replayed.end # "bad"
    BY <2>1, <2>3, OpenReplayed
  <2> QED BY <2>2, <2>3
<1> QED BY <1>1, StoreInvHolds, PTL DEF StoreSpec, RestartKeepsCommits
=============================================================================
