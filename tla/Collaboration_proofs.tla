-------------------------- MODULE Collaboration_proofs --------------------------
(* Proofs about Competition and Debate for every number of participants, turns,    *)
(* workers, runners and faults.                                                    *)
EXTENDS Competition, Debate, FiniteSetTheorems, WellFoundedInduction, TLAPS

\* A set whose members are all the same has at most one.
LEMMA AtMostOne ==
    ASSUME NEW S, \A x, y \in S : x = y
    PROVE  Cardinality(S) <= 1
<1>1. CASE S = {}
  BY <1>1, FS_EmptySet
<1>2. CASE S # {}
  <2>1. PICK x \in S : TRUE
    BY <1>2
  <2>2. S = {x}
    BY <2>1
  <2> QED BY <2>2, FS_Singleton
<1> QED BY <1>1, <1>2

\* A call admitted under a budget of calls leaves those admitted within it.
LEMMA OneCallMore ==
    ASSUME NEW calls, NEW before, NEW after, NEW s,
           IsFiniteSet(calls), before \subseteq calls, after \subseteq before \cup {s},
           Cardinality(calls) + 1 <= CallBudget
    PROVE  Cardinality(after) <= CallBudget
<1>1. IsFiniteSet(calls \cup {s}) /\ Cardinality(calls \cup {s}) <= Cardinality(calls) + 1
  <2>1. Cardinality(calls) \in Nat
    BY FS_CardinalityType
  <2> QED BY <2>1, FS_AddElement
<1>2. after \in SUBSET (calls \cup {s})
  OBVIOUS
<1>3. Cardinality(after) <= Cardinality(calls \cup {s}) /\ IsFiniteSet(after)
  BY <1>1, <1>2, FS_Subset
<1>4. Cardinality(after) \in Nat /\ Cardinality(calls) \in Nat /\ Cardinality(calls \cup {s}) \in Nat
  BY <1>1, <1>3, FS_CardinalityType
<1> QED BY <1>1, <1>3, <1>4, CallBudgetAssumption

-----------------------------------------------------------------------------
(* The competition *)

\* What a worker remembers between two of its steps.
WorkerSteps ==
    {"idle", "open", "look", "reserve", "recover", "admit", "asking", "settle", "keep", "drop",
     "mark", "finish", "fail"}
CallOutcomes == {"none", "fits", "misfits", "unknown", "error"}
Turns == [at : WorkerSteps, slot : Slots, shown : SUBSET Participants, answer : CallOutcomes]

\* The record of a competition, as the type invariant describes it.
CompetitionRecords ==
    [status : {"collecting", "running", "evaluating"} \cup ClosedCompetition,
     candidates : SUBSET Participants, scores : SUBSET Participants, raw : SUBSET Participants,
     attempt : [Slots -> AttemptStates],
     usage : [Slots -> UsageUnder("tokens")]]

CompetitionTypes ==
    /\ CompetitionTypeOK
    /\ contender \in [Contenders -> Turns]

\* The steps of a worker that is about one slot, and those after its call was admitted.
Admitted == {"asking", "settle", "keep", "drop", "mark"}
OnTurn == {"look", "reserve", "recover", "admit"} \cup Admitted

\* A worker begins with the first slot, knows an entry only where an account is kept, has
\* admitted the call whose answer it waits for or holds, and holds none the account was not
\* charged for.
TurnBegun(c) ==
    /\ c.at \in {"idle", "open"} => c.slot = 1
    /\ c.at \in {"reserve", "recover"} => brief.accounted
    /\ c.at \in Admitted => competition.attempt[c.slot] # "none"
    /\ c.at = "keep" /\ brief.accounted => booked[c.slot] = "settled"

TurnsBegun == \A w \in Contenders : TurnBegun(contender[w])

\* Under a budget every candidate was asked for, so whoever has come to a slot has left an
\* attempt behind for every slot before.
PassedInOrder ==
    brief.limit # "none" =>
        /\ \A p \in competition.candidates : competition.attempt[p] # "none"
        /\ \A w \in Contenders : \A p \in Participants :
              contender[w].at \in OnTurn /\ p < contender[w].slot => competition.attempt[p] # "none"

\* While the evaluator is asked nobody else can be.
EvaluatorAlone ==
    competition.attempt[Evaluator] = "started" /\ (brief.limit # "none" \/ ~brief.accounted) =>
        /\ ~Runnable(competition)
        /\ ~AnyOpen(competition)
        /\ brief.limit # "none" => \A p \in Participants : competition.attempt[p] # "none"

AskedOnce ==
    /\ \A s \in Slots : asked[s] <= 1 /\ (competition.attempt[s] = "none" => asked[s] = 0)
    /\ \A p, q \in Participants :
          competition.attempt[p] = "started" /\ competition.attempt[q] = "started" => p = q

WithinCalls == brief.limit = "calls" => Cardinality({s \in Slots : asked[s] > 0}) <= CallBudget

CompetitionInv ==
    CompetitionTypes /\ TurnsBegun /\ PassedInOrder /\ EvaluatorAlone /\ AskedOnce /\ WithinCalls
        /\ KeptResultsArePaid

LEMMA CompetitionStart == CompetitionInit => CompetitionInv
<1> SUFFICES ASSUME CompetitionInit PROVE CompetitionInv
  OBVIOUS
<1>1. /\ 1 \in Slots /\ Evaluator \in Slots /\ Participants \subseteq Slots
      /\ UsageUnder("tokens") = {"missing", "within", "full", "over"}
  BY CompetitionAssumption DEF Slots, Evaluator, Participants, UsageUnder
<1>2. CompetitionTypes
  BY <1>1 DEF CompetitionInit, CompetitionTypes, CompetitionTypeOK, AttemptStates, EntryStates,
              NoTurn, Turns, WorkerSteps, CallOutcomes
<1>3. TurnsBegun /\ PassedInOrder /\ EvaluatorAlone /\ AskedOnce /\ KeptResultsArePaid
  BY <1>1, CompetitionAssumption
     DEF CompetitionInit, TurnsBegun, TurnBegun, PassedInOrder, EvaluatorAlone, AskedOnce,
         KeptResultsArePaid,
         NoTurn, Admitted, OnTurn, Participants, Slots, Evaluator
<1>4. WithinCalls
  <2>1. {s \in Slots : asked[s] > 0} = {}
    BY DEF CompetitionInit
  <2> QED BY <2>1, FS_EmptySet, CallBudgetAssumption DEF WithinCalls
<1> QED BY <1>2, <1>3, <1>4 DEF CompetitionInv

\* What the definitions of slots and usages come to.
LEMMA SlotFacts ==
    /\ ParticipantCount \in Nat \ {0} /\ Evaluator = ParticipantCount + 1
    /\ Evaluator \in Slots /\ Evaluator \notin Participants
    /\ 1 \in Slots /\ Participants \subseteq Slots /\ Slots = Participants \cup {Evaluator}
    /\ \A p \in Participants : p \in Nat /\ p < Evaluator /\ p + 1 \in Slots
    /\ Slots \subseteq Nat
    /\ \A limit : UsageUnder(limit) \subseteq UsageUnder("tokens")
BY CompetitionAssumption DEF Slots, Evaluator, Participants, UsageUnder

\* A worker that goes on, ends or turns to the next slot: what it remembers, and that the
\* others are not disturbed.
LEMMA WorkerMoves ==
    ASSUME contender \in [Contenders -> Turns], NEW w \in Contenders
    PROVE  /\ \A step \in WorkerSteps : WorkerGoes(w, step) =>
                 /\ contender' \in [Contenders -> Turns]
                 /\ contender'[w].at = step /\ contender'[w].slot = contender[w].slot
           /\ WorkerEnds(w) =>
                 /\ contender' \in [Contenders -> Turns]
                 /\ contender'[w].at = "idle" /\ contender'[w].slot = 1
           /\ contender[w].slot \in Participants /\ WorkerNext(w) =>
                 /\ contender' \in [Contenders -> Turns]
                 /\ contender'[w].at = "look" /\ contender'[w].slot = contender[w].slot + 1
           /\ WorkerEnds(w) \/ WorkerNext(w) \/ (\E step \in WorkerSteps : WorkerGoes(w, step)) =>
                 \A x \in Contenders \ {w} : contender'[x] = contender[x]
<1>1. NoTurn \in Turns /\ NoTurn.at = "idle" /\ NoTurn.slot = 1
  BY SlotFacts DEF NoTurn, Turns, WorkerSteps, CallOutcomes
<1>2. \A step \in WorkerSteps : [contender[w] EXCEPT !.at = step] \in Turns
  BY DEF Turns
<1>3. \A n \in Slots : [NoTurn EXCEPT !.at = "look", !.slot = n] \in Turns
  BY SlotFacts DEF NoTurn, Turns, WorkerSteps, CallOutcomes
<1>4. contender[w].slot \in Participants => contender[w].slot + 1 \in Slots
  BY SlotFacts
<1>5. \A n : /\ [NoTurn EXCEPT !.at = "look", !.slot = n].at = "look"
             /\ [NoTurn EXCEPT !.at = "look", !.slot = n].slot = n
  BY DEF NoTurn
<1>6. \A step : /\ [contender[w] EXCEPT !.at = step].at = step
                /\ [contender[w] EXCEPT !.at = step].slot = contender[w].slot
  BY DEF Turns
<1>7. \A step \in WorkerSteps : WorkerGoes(w, step) =>
          contender' = [contender EXCEPT ![w] = [contender[w] EXCEPT !.at = step]]
  BY DEF WorkerGoes
<1> HIDE DEF NoTurn
<1>8. WorkerEnds(w) => /\ contender' \in [Contenders -> Turns]
                       /\ contender'[w].at = "idle" /\ contender'[w].slot = 1
  BY <1>1 DEF WorkerEnds
<1>9. contender[w].slot \in Participants /\ WorkerNext(w) =>
          /\ contender' \in [Contenders -> Turns]
          /\ contender'[w].at = "look" /\ contender'[w].slot = contender[w].slot + 1
  BY <1>3, <1>4, <1>5 DEF WorkerNext
<1>10. \A step \in WorkerSteps : WorkerGoes(w, step) =>
          /\ contender' \in [Contenders -> Turns]
          /\ contender'[w].at = step /\ contender'[w].slot = contender[w].slot
  BY <1>2, <1>6, <1>7, ZenonT(60)
<1>11. WorkerEnds(w) \/ WorkerNext(w) \/ (\E step \in WorkerSteps : WorkerGoes(w, step)) =>
          \A x \in Contenders \ {w} : contender'[x] = contender[x]
  BY DEF WorkerEnds, WorkerNext, WorkerGoes
<1> QED BY <1>8, <1>9, <1>10, <1>11

\* The parts of the invariant that are about the record alone.
RecordInv == EvaluatorAlone /\ AskedOnce /\ WithinCalls

LEMMA RecordUnchanged ==
    ASSUME RecordInv, UNCHANGED <<brief, competition, asked>>
    PROVE  RecordInv'
<1>1. EvaluatorAlone'
  BY DEF RecordInv, EvaluatorAlone, Runnable, AnyOpen
<1>2. AskedOnce'
  BY DEF RecordInv, AskedOnce
<1>3. WithinCalls'
  BY DEF RecordInv, WithinCalls
<1> QED BY <1>1, <1>2, <1>3 DEF RecordInv

\* A change of the record that opens no attempt and lets nobody go on beside the evaluator
\* keeps them too.
LEMMA RecordSettles ==
    ASSUME RecordInv, CompetitionTypes, CompetitionTypeOK',
           UNCHANGED <<brief, asked>>,
           \A s \in Slots : /\ competition'.attempt[s] = "none" => competition.attempt[s] = "none"
                            /\ competition'.attempt[s] = "started" => competition.attempt[s] = "started"
                            /\ competition'.attempt[s] = "unknown" => OpenAttempt(competition.attempt[s]),
           ~AnyOpen(competition) /\ Runnable(competition') => Runnable(competition)
    PROVE  RecordInv'
<1>1. EvaluatorAlone'
  <2> SUFFICES ASSUME competition'.attempt[Evaluator] = "started",
                      brief.limit # "none" \/ ~brief.accounted
               PROVE  /\ ~Runnable(competition')
                      /\ ~AnyOpen(competition')
                      /\ brief.limit # "none" => \A p \in Participants : competition'.attempt[p] # "none"
    BY DEF EvaluatorAlone, Runnable, AnyOpen
  <2>1. /\ ~Runnable(competition) /\ ~AnyOpen(competition)
        /\ brief.limit # "none" => \A p \in Participants : competition.attempt[p] # "none"
    BY SlotFacts DEF RecordInv, EvaluatorAlone
  <2>2. ~Runnable(competition')
    BY <2>1
  <2>3. ~AnyOpen(competition')
    BY <2>1, SlotFacts DEF AnyOpen, OpenAttempt
  <2> QED BY <2>1, <2>2, <2>3, SlotFacts
<1>2. AskedOnce'
  <2>1. \A s \in Slots : asked'[s] <= 1 /\ (competition'.attempt[s] = "none" => asked'[s] = 0)
    BY DEF RecordInv, AskedOnce
  <2>2. ASSUME NEW p \in Participants, NEW q \in Participants,
               competition'.attempt[p] = "started", competition'.attempt[q] = "started"
        PROVE  p = q
    <3>1. competition.attempt[p] = "started" /\ competition.attempt[q] = "started"
      BY <2>2, SlotFacts
    <3> QED BY <3>1 DEF RecordInv, AskedOnce
  <2> QED BY <2>1, <2>2 DEF AskedOnce
<1>3. WithinCalls'
  BY DEF RecordInv, WithinCalls
<1> QED BY <1>1, <1>2, <1>3 DEF RecordInv

\* What a worker remembers after a step of its own: it stays with its slot, begins with the
\* first or turns to the next, having left an attempt behind.
Proceeds(w) ==
    /\ TurnBegun(contender[w])'
    /\ contender'[w].at \in OnTurn =>
           \/ contender[w].at \in OnTurn /\ contender'[w].slot = contender[w].slot
           \/ contender'[w].slot = 1
           \/ /\ contender[w].at \in OnTurn /\ contender[w].slot \in Participants
              /\ contender'[w].slot = contender[w].slot + 1
              /\ brief.limit # "none" => competition'.attempt[contender[w].slot] # "none"

\* No attempt is forgotten, no entry in the account is settled twice, nobody becomes a candidate
\* of a budgeted competition without an attempt, and no result is kept without its entry.
RecordGrows ==
    /\ brief' = brief
    /\ \A s \in Slots : competition.attempt[s] # "none" => competition'.attempt[s] # "none"
    /\ \A s \in Slots : booked[s] = "settled" => booked'[s] = "settled"
    /\ \A p \in competition'.candidates \ competition.candidates :
          brief.limit # "none" => competition'.attempt[p] # "none"
    /\ brief.accounted =>
         \A s \in Slots : competition'.attempt[s] \in {"completed", "reconciled"} =>
             \/ competition.attempt[s] = competition'.attempt[s]
             \/ booked'[s] = "settled"

\* Such a step leaves what the workers rely on as it was.
LEMMA TurnsKept ==
    ASSUME CompetitionInv, CompetitionTypes', RecordGrows, RecordInv',
           \A x \in Contenders : contender'[x] = contender[x] \/ Proceeds(x)
    PROVE  CompetitionInv'
<1>0. /\ \A x \in Contenders : contender[x].slot \in Slots
      /\ CompetitionTypes /\ TurnsBegun /\ PassedInOrder /\ KeptResultsArePaid
  BY DEF CompetitionInv, CompetitionTypes, Turns
<1>1. TurnsBegun'
  <2>1. ASSUME NEW x \in Contenders, contender'[x] = contender[x] PROVE TurnBegun(contender[x])'
    <3>1. TurnBegun(contender[x])
      BY <1>0 DEF TurnsBegun
    <3> QED BY <1>0, <2>1, <3>1 DEF TurnBegun, RecordGrows
  <2> QED BY <2>1 DEF TurnsBegun, Proceeds
<1>2. KeptResultsArePaid'
  BY <1>0 DEF KeptResultsArePaid, RecordGrows
<1>3. ASSUME brief.limit # "none", NEW p \in competition'.candidates
      PROVE  competition'.attempt[p] # "none"
  <2>1. competition.candidates \subseteq Participants
    BY <1>0 DEF CompetitionTypes, CompetitionTypeOK
  <2> QED BY <1>0, <1>3, <2>1, SlotFacts DEF PassedInOrder, RecordGrows
<1>4. ASSUME brief.limit # "none", NEW x \in Contenders, NEW p \in Participants,
             contender'[x].at \in OnTurn, p < contender'[x].slot
      PROVE  competition'.attempt[p] # "none"
  <2>1. CASE \/ contender'[x] = contender[x]
             \/ contender[x].at \in OnTurn /\ contender'[x].slot = contender[x].slot
    BY <1>0, <1>4, <2>1, SlotFacts DEF PassedInOrder, RecordGrows
  <2>2. CASE contender'[x].slot = 1
    BY <1>4, <2>2, CompetitionAssumption DEF Participants
  <2>3. CASE /\ contender[x].at \in OnTurn /\ contender[x].slot \in Participants
             /\ contender'[x].slot = contender[x].slot + 1
             /\ brief.limit # "none" => competition'.attempt[contender[x].slot] # "none"
    <3>1. p < contender[x].slot \/ p = contender[x].slot
      BY <1>4, <2>3, CompetitionAssumption DEF Participants
    <3> QED BY <1>0, <1>4, <2>3, <3>1, SlotFacts DEF PassedInOrder, RecordGrows
  <2> QED BY <1>4, <2>1, <2>2, <2>3 DEF Proceeds
<1>5. PassedInOrder'
  BY <1>3, <1>4 DEF PassedInOrder, RecordGrows
<1> QED BY <1>1, <1>2, <1>5 DEF CompetitionInv, RecordInv

\* What the helpers make of a record: only the attempt and the candidate they are about change.
LEMMA AcceptedRecord ==
    ASSUME NEW c \in CompetitionRecords, NEW p \in Participants, NEW state \in AttemptStates
    PROVE  /\ Accepted(c, p, state) \in CompetitionRecords
           /\ Accepted(c, p, state).attempt = [c.attempt EXCEPT ![p] = state]
           /\ Accepted(c, p, state).candidates \subseteq c.candidates \cup {p}
           /\ Accepted(c, p, state).status \in {c.status, "failed"}
<1> DEFINE settled == [c EXCEPT !.attempt[p] = state]
<1>1. /\ settled \in CompetitionRecords /\ settled.attempt = [c.attempt EXCEPT ![p] = state]
      /\ settled.candidates = c.candidates /\ settled.status = c.status
  BY SlotFacts DEF CompetitionRecords
<1>2. \/ Accepted(c, p, state) = [settled EXCEPT !.status = "failed"]
      \/ Accepted(c, p, state) = [settled EXCEPT !.candidates = @ \cup {p}]
  BY DEF Accepted
<1> HIDE DEF settled
<1> QED BY <1>1, <1>2 DEF CompetitionRecords, ClosedCompetition

LEMMA JudgedRecord ==
    ASSUME NEW c \in CompetitionRecords, NEW scores \in SUBSET Participants, NEW overCost
    PROVE  /\ Judged(c, scores, overCost) \in CompetitionRecords
           /\ Judged(c, scores, overCost).attempt = c.attempt
           /\ Judged(c, scores, overCost).candidates = c.candidates
           /\ Judged(c, scores, overCost).status \in ClosedCompetition
<1> DEFINE verdict == IF ~overCost /\ c.candidates = Participants /\ scores = c.candidates
                      THEN "completed" ELSE "partial"
<1>1. verdict \in ClosedCompetition /\ Judged(c, scores, overCost) = [c EXCEPT !.scores = scores, !.status = verdict]
  BY DEF Judged, ClosedCompetition
<1> HIDE DEF verdict
<1> QED BY <1>1 DEF CompetitionRecords

LEMMA FinishedRecord ==
    ASSUME NEW c \in CompetitionRecords, NEW next, FinishEvaluation(c, next)
    PROVE  /\ next \in CompetitionRecords
           /\ next.attempt = c.attempt /\ next.candidates = c.candidates
           /\ next = c \/ next.status \in ClosedCompetition
<1>1. c.raw \in SUBSET Participants
  BY DEF CompetitionRecords
<1>2. CASE next = c
  BY <1>2
<1>3. CASE next = [c EXCEPT !.status = "failed"]
  BY <1>3 DEF CompetitionRecords, ClosedCompetition
<1>4. CASE \E overCost \in BOOLEAN : next = Judged(c, c.raw, overCost)
  BY <1>1, <1>4, JudgedRecord
<1> QED BY <1>2, <1>3, <1>4 DEF FinishEvaluation

\* The steps of a worker that leave the record as it is.
LEMMA WorkerLooks ==
    ASSUME CompetitionInv, NEW w \in Contenders,
           RunCompetition(w) \/ LookParticipant(w) \/ LookEvaluator(w) \/ ReserveCall(w)
             \/ SettleCall(w) \/ MarkCall(w) \/ WorkerStops(w)
    PROVE  CompetitionInv'
<1> USE DEF CompetitionTypes, CompetitionTypeOK, Turns
<1>0. /\ CompetitionTypes /\ TurnsBegun /\ PassedInOrder /\ KeptResultsArePaid
      /\ contender[w] \in Turns /\ TurnBegun(contender[w])
  BY DEF CompetitionInv, TurnsBegun
<1>1. /\ brief' = brief /\ competition' = competition /\ RecordInv'
      /\ \A x \in Contenders \ {w} : contender'[x] = contender[x]
  <2>1. UNCHANGED <<brief, competition, asked>>
    BY DEF RunCompetition, LookParticipant, LookEvaluator, ReserveCall, SettleCall, MarkCall,
           WorkerStops, competitionBounds
  <2>2. \A x \in Contenders \ {w} : contender'[x] = contender[x]
    BY DEF CompetitionInv, RunCompetition, LookParticipant, LookEvaluator, ReserveCall, SettleCall,
           MarkCall, WorkerStops, WorkerGoes, WorkerEnds, WorkerNext
  <2> QED BY <2>1, <2>2, RecordUnchanged DEF RecordInv, CompetitionInv
<1>2. CASE RunCompetition(w)
  <2>1. CompetitionTypes'
    BY <1>0, <1>2, WorkerMoves, SlotFacts DEF RunCompetition, WorkerSteps
  <2>2. TurnBegun(contender[w])'
    BY <1>0, <1>2, WorkerMoves, SlotFacts DEF RunCompetition, WorkerSteps, TurnBegun, Admitted
  <2>3. Proceeds(w)
    BY <2>2, <1>0, <1>2, WorkerMoves, SlotFacts
    DEF Proceeds, RunCompetition, WorkerSteps, OnTurn, Admitted
  <2>4. RecordGrows
    BY <1>0, <1>1, <1>2 DEF RecordGrows, RunCompetition
  <2> QED BY <1>1, <2>1, <2>3, <2>4, TurnsKept
<1>3. CASE LookParticipant(w)
  <2>1. CompetitionTypes'
    BY <1>0, <1>3, WorkerMoves, SlotFacts DEF LookParticipant, WorkerSteps, competitionBounds
  <2>2. TurnBegun(contender[w])'
    BY <1>0, <1>3, WorkerMoves, SlotFacts DEF LookParticipant, WorkerSteps, TurnBegun, Admitted
  <2>3. Proceeds(w)
    BY <2>2, <1>0, <1>3, WorkerMoves, SlotFacts
    DEF Proceeds, LookParticipant, WorkerSteps, OnTurn, Admitted, PassedInOrder
  <2>4. RecordGrows
    BY <1>0, <1>1, <1>3 DEF RecordGrows, LookParticipant
  <2> QED BY <1>1, <2>1, <2>3, <2>4, TurnsKept
<1>4. CASE LookEvaluator(w)
  <2>0. /\ contender' \in [Contenders -> Turns] /\ UNCHANGED booked
        /\ \/ contender'[w].at \in {"idle", "fail"} /\ contender'[w].slot \in {1, contender[w].slot}
              /\ (contender'[w].at = "idle" => contender'[w].slot = 1)
           \/ contender'[w].at = "reserve" /\ brief.accounted
              /\ contender[w].at = "look" /\ contender'[w].slot = contender[w].slot
           \/ contender'[w].at = "admit" /\ contender[w].at = "look"
              /\ contender'[w].slot = contender[w].slot
    <3> DEFINE next == IF competition.candidates = {} \/ Exceeds(competition, TRUE) THEN "fail"
                       ELSE IF brief.accounted THEN "reserve" ELSE "admit"
               c == [contender[w] EXCEPT !.shown = competition.candidates, !.at = next]
    <3>1. next \in {"fail", "reserve", "admit"} /\ (next = "reserve" => brief.accounted)
      OBVIOUS
    <3>2. WorkerEnds(w) \/ contender' = [contender EXCEPT ![w] = c]
      BY <1>4 DEF LookEvaluator
    <3>3. c.at = next /\ c.slot = contender[w].slot /\ c \in Turns
      <4> HIDE DEF next
      <4> QED BY <1>0, <3>1 DEF WorkerSteps
    <3>4. contender[w].at = "look" /\ UNCHANGED booked
      BY <1>4 DEF LookEvaluator
    <3> HIDE DEF c, next
    <3> QED BY <1>0, <3>1, <3>2, <3>3, <3>4, WorkerMoves
  <2>1. CompetitionTypes'
    BY <1>0, <1>1, <1>4, <2>0 DEF LookEvaluator
  <2>2. TurnBegun(contender[w])'
    BY <1>1, <2>0 DEF TurnBegun, Admitted
  <2>3. Proceeds(w)
    BY <2>2, <2>0 DEF Proceeds, OnTurn, Admitted
  <2>4. RecordGrows
    BY <1>0, <1>1, <1>4 DEF RecordGrows, LookEvaluator
  <2> QED BY <1>1, <2>1, <2>3, <2>4, TurnsKept
<1>5. CASE ReserveCall(w)
  <2>1. CompetitionTypes'
    BY <1>0, <1>5, WorkerMoves, SlotFacts DEF ReserveCall, WorkerSteps, EntryStates
  <2>2. TurnBegun(contender[w])'
    BY <1>0, <1>5, WorkerMoves, SlotFacts DEF ReserveCall, WorkerSteps, TurnBegun, Admitted
  <2>3. Proceeds(w)
    BY <2>2, <1>0, <1>5, WorkerMoves, SlotFacts
    DEF Proceeds, ReserveCall, WorkerSteps, OnTurn, Admitted
  <2>4. RecordGrows
    BY <1>0, <1>1, <1>5 DEF RecordGrows, ReserveCall
  <2> QED BY <1>1, <2>1, <2>3, <2>4, TurnsKept
<1>6. CASE SettleCall(w)
  <2>1. CompetitionTypes'
    BY <1>0, <1>6, WorkerMoves, SlotFacts
    DEF SettleCall, WorkerSteps, EntrySettles, EntrySettled, EntryStates
  <2>2. TurnBegun(contender[w])'
    BY <1>0, <1>6, WorkerMoves, SlotFacts
    DEF SettleCall, WorkerSteps, TurnBegun, Admitted, EntrySettles, EntrySettled
  <2>3. Proceeds(w)
    BY <2>2, <1>0, <1>6, WorkerMoves, SlotFacts
    DEF Proceeds, SettleCall, WorkerSteps, OnTurn, Admitted, EntrySettles, EntrySettled
  <2>4. RecordGrows
    BY <1>0, <1>1, <1>6 DEF RecordGrows, SettleCall, EntrySettles, EntrySettled
  <2> QED BY <1>1, <2>1, <2>3, <2>4, TurnsKept
<1>7. CASE MarkCall(w)
  <2>1. CompetitionTypes'
    BY <1>0, <1>7, WorkerMoves, SlotFacts
    DEF MarkCall, WorkerSteps, EntryMarked, EntryStates, competitionBounds
  <2>2. TurnBegun(contender[w])'
    BY <1>0, <1>7, WorkerMoves, SlotFacts
    DEF MarkCall, WorkerSteps, TurnBegun, Admitted, EntryMarked
  <2>3. Proceeds(w)
    BY <2>2, <1>0, <1>7, WorkerMoves, SlotFacts
    DEF Proceeds, MarkCall, WorkerSteps, OnTurn, Admitted, EntryMarked, TurnBegun
  <2>4. RecordGrows
    BY <1>0, <1>1, <1>7 DEF RecordGrows, MarkCall, EntryMarked
  <2> QED BY <1>1, <2>1, <2>3, <2>4, TurnsKept
<1>8. CASE WorkerStops(w)
  <2>1. CompetitionTypes'
    BY <1>0, <1>8, WorkerMoves, SlotFacts DEF WorkerStops, WorkerSteps
  <2>2. TurnBegun(contender[w])'
    BY <1>0, <1>8, WorkerMoves, SlotFacts DEF WorkerStops, WorkerSteps, TurnBegun, Admitted
  <2>3. Proceeds(w)
    BY <2>2, <1>0, <1>8, WorkerMoves, SlotFacts
    DEF Proceeds, WorkerStops, WorkerSteps, OnTurn, Admitted
  <2>4. RecordGrows
    BY <1>0, <1>1, <1>8 DEF RecordGrows, WorkerStops
  <2> QED BY <1>1, <2>1, <2>3, <2>4, TurnsKept
<1> QED BY <1>2, <1>3, <1>4, <1>5, <1>6, <1>7, <1>8

\* A worker's steps that change the record without opening an attempt.
LEMMA WorkerWrites ==
    ASSUME CompetitionInv, NEW w \in Contenders,
           OpenCompetition(w) \/ CallAnswers(w) \/ KeepScores(w) \/ KeepCandidate(w) \/ DropCall(w)
             \/ FinishEvaluating(w) \/ FailCompetition(w)
    PROVE  CompetitionInv'
<1> USE DEF CompetitionTypes, CompetitionTypeOK, Turns
<1>0. /\ CompetitionTypes /\ TurnsBegun /\ PassedInOrder /\ KeptResultsArePaid /\ RecordInv
      /\ contender[w] \in Turns /\ TurnBegun(contender[w])
  BY DEF CompetitionInv, TurnsBegun, RecordInv
<1>1. UNCHANGED <<brief, asked>> /\ \A x \in Contenders \ {w} : contender'[x] = contender[x]
  BY <1>0 DEF OpenCompetition, CallAnswers, KeepScores, KeepCandidate, DropCall, FinishEvaluating,
     FailCompetition, competitionBounds, WorkerGoes, WorkerEnds, WorkerNext
<1>2. CASE OpenCompetition(w)
  <2>1. CompetitionTypes'
    BY <1>0, <1>2, WorkerMoves DEF OpenCompetition, WorkerSteps
  <2>2. Proceeds(w)
    BY <1>0, <1>2, WorkerMoves DEF OpenCompetition, WorkerSteps, Proceeds, TurnBegun, Admitted
  <2>3. RecordGrows
    BY <1>0, <1>1, <1>2 DEF OpenCompetition, RecordGrows
  <2>4. RecordInv'
    BY <1>0, <1>1, <1>2, <2>1, RecordSettles DEF OpenCompetition, OpenAttempt, Runnable
  <2> QED BY <1>1, <2>1, <2>2, <2>3, <2>4, TurnsKept
<1>3. CASE FailCompetition(w)
  <2>1. CompetitionTypes'
    BY <1>0, <1>3, WorkerMoves DEF FailCompetition, WorkerSteps, ClosedCompetition
  <2>2. Proceeds(w)
    BY <1>0, <1>3, WorkerMoves DEF FailCompetition, Proceeds, TurnBegun, Admitted
  <2>3. RecordGrows
    BY <1>0, <1>1, <1>3 DEF FailCompetition, RecordGrows
  <2>4. RecordInv'
    BY <1>0, <1>1, <1>3, <2>1, RecordSettles DEF FailCompetition, OpenAttempt, Runnable
  <2> QED BY <1>1, <2>1, <2>2, <2>3, <2>4, TurnsKept
<1>4. CASE CallAnswers(w)
  <2>1. contender' \in [Contenders -> Turns] /\ contender'[w].slot = contender[w].slot
        /\ contender'[w].at \in {"settle", "keep", "drop"}
        /\ (contender'[w].at = "keep" => ~brief.accounted)
    <3>1. PICK answer \in CallOutcomes, step \in {"settle", "keep", "drop"} :
             /\ contender' = [contender EXCEPT ![w].answer = answer, ![w].at = step]
             /\ step = "keep" => ~brief.accounted
      <4>1. CASE \E answer \in {"fits", "misfits"} : contender' =
                   [contender EXCEPT ![w].answer = answer, ![w].at =
                       IF brief.accounted THEN "settle" ELSE IF answer = "fits" THEN "keep" ELSE "drop"]
        <5>1. PICK answer \in {"fits", "misfits"} : contender' =
                   [contender EXCEPT ![w].answer = answer, ![w].at =
                       IF brief.accounted THEN "settle" ELSE IF answer = "fits" THEN "keep" ELSE "drop"]
          BY <4>1
        <5> DEFINE step == IF brief.accounted THEN "settle" ELSE IF answer = "fits" THEN "keep" ELSE "drop"
        <5>2. /\ answer \in CallOutcomes /\ step \in {"settle", "keep", "drop"}
              /\ step = "keep" => ~brief.accounted
          BY DEF CallOutcomes
        <5>3. contender' = [contender EXCEPT ![w].answer = answer, ![w].at = step]
          BY <5>1
        <5> HIDE DEF step
        <5> QED BY <5>2, <5>3
      <4>2. CASE \E answer \in {"unknown", "error"} :
                   contender' = [contender EXCEPT ![w].answer = answer, ![w].at = "drop"]
        BY <4>2 DEF CallOutcomes
      <4> QED BY <1>4, <4>1, <4>2 DEF CallAnswers
    <3> DEFINE c == [contender[w] EXCEPT !.answer = answer, !.at = step]
    <3>2. c \in Turns /\ c.slot = contender[w].slot /\ c.at = step
      BY <1>0 DEF WorkerSteps
    <3>3. contender' = [contender EXCEPT ![w] = c]
      BY <3>1
    <3> HIDE DEF c
    <3> QED BY <1>0, <3>1, <3>2, <3>3
  <2>2. \/ competition' = competition
        \/ \E u \in UsageUnder(brief.limit) :
              competition' = [competition EXCEPT !.usage[contender[w].slot] = u]
    BY <1>4 DEF CallAnswers
  <2>3. contender[w].at = "asking" /\ UNCHANGED <<booked, asked>>
    BY <1>4 DEF CallAnswers
  <2>4. CompetitionTypes' /\ competition'.attempt = competition.attempt
        /\ competition'.status = competition.status /\ competition'.candidates = competition.candidates
    BY <1>0, <1>1, <2>1, <2>2, <2>3, SlotFacts
  <2>5. Proceeds(w)
    BY <1>0, <1>1, <2>1, <2>3, <2>4 DEF Proceeds, TurnBegun, OnTurn, Admitted
  <2>6. RecordGrows
    BY <1>1, <2>3, <2>4 DEF RecordGrows
  <2>7. RecordInv'
    BY <1>0, <1>1, <2>4, RecordSettles DEF OpenAttempt, Runnable
  <2> QED BY <1>1, <2>4, <2>5, <2>6, <2>7, TurnsKept
<1>5. CASE KeepScores(w)
  <2>1. PICK raw \in SUBSET Participants :
           competition' = IF competition.attempt[Evaluator] # "started" THEN competition
                          ELSE [competition EXCEPT !.attempt[Evaluator] = "completed", !.raw = raw]
    BY <1>0, <1>5 DEF KeepScores
  <2>2. competition' \in CompetitionRecords
    BY <1>0, <2>1, SlotFacts DEF CompetitionRecords, AttemptStates
  <2>3. /\ competition'.status = competition.status
        /\ competition'.candidates = competition.candidates
        /\ \A s \in Slots :
              \/ competition'.attempt[s] = competition.attempt[s]
              \/ s = Evaluator /\ competition'.attempt[s] = "completed"
    BY <1>0, <2>1, SlotFacts
  <2>4. /\ contender[w].at = "keep" /\ contender[w].slot = Evaluator /\ WorkerGoes(w, "finish")
        /\ UNCHANGED booked
    BY <1>5 DEF KeepScores
  <2>5. CompetitionTypes'
    BY <1>0, <1>1, <2>2, <2>4, WorkerMoves DEF CompetitionRecords, WorkerSteps
  <2>6. Proceeds(w)
    BY <1>0, <2>4, WorkerMoves DEF WorkerSteps, Proceeds, TurnBegun, OnTurn, Admitted
  <2>7. RecordGrows
    BY <1>0, <1>1, <2>3, <2>4 DEF RecordGrows, TurnBegun
  <2>8. RecordInv'
    BY <1>0, <1>1, <2>3, <2>5, RecordSettles DEF OpenAttempt, Runnable
  <2> QED BY <1>1, <2>5, <2>6, <2>7, <2>8, TurnsKept
<1>6. CASE KeepCandidate(w)
  <2> DEFINE p == contender[w].slot
  <2>1. /\ contender[w].at = "keep" /\ p \in Participants /\ WorkerNext(w) /\ UNCHANGED booked
        /\ \/ competition' = competition
           \/ /\ competition.attempt[p] = "started"
              /\ competition' = Accepted(competition, p, "completed")
    BY <1>6 DEF KeepCandidate
  <2>2. competition \in CompetitionRecords /\ "completed" \in AttemptStates
    BY <1>0 DEF CompetitionRecords, AttemptStates
  <2>3. /\ competition' \in CompetitionRecords
        /\ competition'.candidates \subseteq competition.candidates \cup {p}
        /\ competition'.status \in {competition.status, "failed"}
        /\ \/ competition' = competition
           \/ competition'.attempt = [competition.attempt EXCEPT ![p] = "completed"]
    BY <2>1, <2>2, AcceptedRecord
  <2>4. /\ competition'.attempt[p] # "none"
        /\ \A s \in Slots : \/ competition'.attempt[s] = competition.attempt[s]
                            \/ s = p /\ competition'.attempt[s] = "completed"
    BY <1>0, <2>1, <2>3 DEF TurnBegun, Admitted
  <2>5. CompetitionTypes'
    BY <1>0, <1>1, <2>1, <2>3, WorkerMoves DEF CompetitionRecords
  <2>6. Proceeds(w)
    BY <1>0, <2>1, <2>4, WorkerMoves DEF Proceeds, TurnBegun, OnTurn, Admitted
  <2>7. RecordGrows
    <3>1. \A s \in Slots : competition.attempt[s] # "none" => competition'.attempt[s] # "none"
      BY <2>4
    <3>2. brief.accounted => booked[p] = "settled"
      BY <1>0, <2>1 DEF TurnBegun
    <3> QED BY <1>1, <2>1, <2>3, <2>4, <3>1, <3>2 DEF RecordGrows
  <2>8. RecordInv'
    BY <1>0, <1>1, <2>3, <2>4, <2>5, RecordSettles DEF OpenAttempt, Runnable
  <2> QED BY <1>1, <2>5, <2>6, <2>7, <2>8, TurnsKept
<1>7. CASE DropCall(w)
  <2> DEFINE s == contender[w].slot
             state == IF contender[w].answer = "unknown" THEN "unknown" ELSE "failed"
  <2>1. /\ contender[w].at = "drop" /\ s \in Slots /\ UNCHANGED booked
        /\ \/ WorkerGoes(w, "mark")
           \/ WorkerEnds(w)
           \/ s \in Participants /\ WorkerNext(w)
    BY <1>0, <1>7, SlotFacts DEF DropCall
  <2>2. /\ state \in {"unknown", "failed"}
        /\ \/ competition' = competition
           \/ \E status \in {competition.status, "failed"} :
                /\ competition.attempt[s] = "started"
                /\ competition' = [competition EXCEPT !.attempt[s] = state, !.status = status]
    BY <1>7 DEF DropCall
  <2> HIDE DEF state
  <2>3. /\ competition' \in CompetitionRecords
        /\ competition'.candidates = competition.candidates
        /\ competition'.status \in {competition.status, "failed"}
        /\ \A t \in Slots : \/ competition'.attempt[t] = competition.attempt[t]
                            \/ t = s /\ competition.attempt[t] = "started" /\ competition'.attempt[t] = state
    <3>1. CASE competition' = competition
      BY <1>0, <3>1 DEF CompetitionRecords
    <3>2. ASSUME NEW status \in {competition.status, "failed"}, competition.attempt[s] = "started",
                 competition' = [competition EXCEPT !.attempt[s] = state, !.status = status]
          PROVE  /\ competition' \in CompetitionRecords
                 /\ competition'.candidates = competition.candidates
                 /\ competition'.status = status
                 /\ competition'.attempt = [competition.attempt EXCEPT ![s] = state]
      <4>1. state \in AttemptStates /\ status \in {"collecting", "running", "evaluating"} \cup ClosedCompetition
        BY <1>0, <2>2 DEF AttemptStates, ClosedCompetition
      <4> QED BY <1>0, <3>2, <4>1 DEF CompetitionRecords
    <3> QED BY <1>0, <2>1, <2>2, <3>1, <3>2
  <2>4. competition'.attempt[s] # "none"
    BY <1>0, <2>1, <2>2, <2>3 DEF TurnBegun, Admitted
  <2>5. CompetitionTypes'
    BY <1>0, <1>1, <2>1, <2>3, WorkerMoves DEF CompetitionRecords, WorkerSteps
  <2>6. Proceeds(w)
    BY <1>0, <2>1, <2>4, WorkerMoves DEF Proceeds, TurnBegun, OnTurn, Admitted, WorkerSteps
  <2>7. RecordGrows
    BY <1>1, <2>1, <2>2, <2>3 DEF RecordGrows
  <2>8. RecordInv'
    BY <1>0, <1>1, <2>2, <2>3, <2>5, RecordSettles DEF OpenAttempt, Runnable
  <2> QED BY <1>1, <2>5, <2>6, <2>7, <2>8, TurnsKept
<1>8. CASE FinishEvaluating(w)
  <2>1. competition \in CompetitionRecords /\ FinishEvaluation(competition, competition')
        /\ WorkerEnds(w) /\ UNCHANGED booked
    BY <1>0, <1>8 DEF FinishEvaluating, CompetitionRecords
  <2>2. /\ competition' \in CompetitionRecords
        /\ competition'.attempt = competition.attempt /\ competition'.candidates = competition.candidates
        /\ competition' = competition \/ competition'.status \in ClosedCompetition
    BY <2>1, FinishedRecord
  <2>3. CompetitionTypes'
    BY <1>0, <1>1, <2>1, <2>2, WorkerMoves DEF CompetitionRecords
  <2>4. Proceeds(w)
    BY <1>0, <2>1, WorkerMoves DEF Proceeds, TurnBegun, OnTurn, Admitted
  <2>5. RecordGrows
    BY <1>1, <2>1, <2>2 DEF RecordGrows
  <2>6. RecordInv'
    BY <1>0, <1>1, <2>2, <2>3, RecordSettles DEF OpenAttempt, Runnable, ClosedCompetition
  <2> QED BY <1>1, <2>3, <2>4, <2>5, <2>6, TurnsKept
<1> QED BY <1>2, <1>3, <1>4, <1>5, <1>6, <1>7, <1>8

\* A reservation without an attempt is recorded as one whose outcome is unknown.
LEMMA WorkerRecovers ==
    ASSUME CompetitionInv, NEW w \in Contenders, RecoverCall(w)
    PROVE  CompetitionInv'
<1> USE DEF CompetitionTypes, CompetitionTypeOK, Turns
<1> DEFINE s == contender[w].slot
<1>0. /\ CompetitionTypes /\ TurnsBegun /\ PassedInOrder /\ KeptResultsArePaid /\ RecordInv
      /\ contender[w] \in Turns /\ TurnBegun(contender[w])
  BY DEF CompetitionInv, TurnsBegun, RecordInv
<1>1. /\ UNCHANGED <<brief, booked, asked>> /\ \A x \in Contenders \ {w} : contender'[x] = contender[x]
      /\ WorkerEnds(w) /\ contender[w].at = "recover" /\ brief.accounted
  BY <1>0 DEF RecoverCall, competitionBounds, WorkerEnds, TurnBegun
<1>2. \/ competition' = competition
      \/ \E status \in {competition.status, "evaluating"} :
           /\ competition.attempt[s] = "none"
           /\ competition' = [competition EXCEPT !.attempt[s] = "unknown", !.status = status]
           /\ status = competition.status \/ s = Evaluator
  BY DEF RecoverCall
<1>3. /\ competition' \in CompetitionRecords
      /\ competition'.candidates = competition.candidates
      /\ \A t \in Slots : \/ competition'.attempt[t] = competition.attempt[t]
                          \/ /\ t = s /\ competition.attempt[t] = "none"
                             /\ competition'.attempt[t] = "unknown"
      /\ competition'.status = competition.status \/ competition'.status = "evaluating"
  <2>1. CASE competition' = competition
    BY <1>0, <2>1 DEF CompetitionRecords
  <2>2. ASSUME NEW status \in {competition.status, "evaluating"}, competition.attempt[s] = "none",
               competition' = [competition EXCEPT !.attempt[s] = "unknown", !.status = status]
        PROVE  /\ competition' \in CompetitionRecords
               /\ competition'.candidates = competition.candidates
               /\ competition'.status = status
               /\ competition'.attempt = [competition.attempt EXCEPT ![s] = "unknown"]
    <3>1. /\ "unknown" \in AttemptStates
          /\ status \in {"collecting", "running", "evaluating"} \cup ClosedCompetition
      BY <1>0 DEF AttemptStates
    <3> QED BY <1>0, <2>2, <3>1 DEF CompetitionRecords
  <2> QED BY <1>0, <1>2, <2>1, <2>2
<1> HIDE DEF s
<1>4. CompetitionTypes'
  BY <1>0, <1>1, <1>3, WorkerMoves DEF CompetitionRecords
<1>5. Proceeds(w)
  BY <1>0, <1>1, WorkerMoves DEF Proceeds, TurnBegun, OnTurn, Admitted
<1>6. RecordGrows
  BY <1>1, <1>3 DEF RecordGrows
\* Only where an account is kept, and under a budget every participant has an attempt by then.
<1>7. EvaluatorAlone'
  <2> SUFFICES ASSUME competition'.attempt[Evaluator] = "started", brief.limit # "none"
               PROVE  /\ ~Runnable(competition')
                      /\ ~AnyOpen(competition')
                      /\ \A p \in Participants : competition'.attempt[p] # "none"
    BY <1>1 DEF EvaluatorAlone, Runnable, AnyOpen
  <2>1. competition.attempt[Evaluator] = "started"
    BY <1>3, SlotFacts
  <2>2. /\ ~Runnable(competition) /\ ~AnyOpen(competition)
        /\ \A p \in Participants : competition.attempt[p] # "none"
    BY <1>0, <2>1 DEF RecordInv, EvaluatorAlone
  <2>3. \A p \in Participants : competition'.attempt[p] = competition.attempt[p]
    BY <1>3, <2>2, SlotFacts
  <2> QED BY <1>3, <2>2, <2>3 DEF Runnable, AnyOpen
<1>8. AskedOnce' /\ WithinCalls'
  <2>1. \A t \in Slots : asked'[t] <= 1 /\ (competition'.attempt[t] = "none" => asked'[t] = 0)
    BY <1>0, <1>1, <1>3 DEF RecordInv, AskedOnce
  <2>2. ASSUME NEW p \in Participants, NEW q \in Participants,
               competition'.attempt[p] = "started", competition'.attempt[q] = "started"
        PROVE  p = q
    BY <1>0, <1>3, <2>2, SlotFacts DEF RecordInv, AskedOnce
  <2>3. WithinCalls'
    BY <1>0, <1>1 DEF RecordInv, WithinCalls
  <2> QED BY <2>1, <2>2, <2>3 DEF AskedOnce
<1> QED BY <1>1, <1>4, <1>5, <1>6, <1>7, <1>8, TurnsKept DEF RecordInv

\* A call is admitted: nobody else's is open, and the budget has room for it.
LEMMA WorkerAdmits ==
    ASSUME CompetitionInv, NEW w \in Contenders, AdmitCall(w)
    PROVE  CompetitionInv'
<1> USE DEF CompetitionTypes, CompetitionTypeOK, Turns
<1> DEFINE s == contender[w].slot
<1>0. /\ CompetitionTypes /\ TurnsBegun /\ PassedInOrder /\ KeptResultsArePaid /\ RecordInv
      /\ contender[w] \in Turns /\ TurnBegun(contender[w])
  BY DEF CompetitionInv, TurnsBegun, RecordInv
<1>1. /\ UNCHANGED <<brief, booked>> /\ \A x \in Contenders \ {w} : contender'[x] = contender[x]
      /\ contender[w].at = "admit"
  BY <1>0 DEF AdmitCall, competitionBounds, WorkerEnds, WorkerGoes
<1>2. CASE UNCHANGED <<competition, asked>> /\ (WorkerEnds(w) \/ WorkerGoes(w, "fail"))
  <2>1. CompetitionTypes'
    BY <1>0, <1>1, <1>2, WorkerMoves DEF WorkerSteps
  <2>2. Proceeds(w)
    BY <1>0, <1>1, <1>2, WorkerMoves DEF Proceeds, TurnBegun, OnTurn, Admitted, WorkerSteps
  <2>3. RecordGrows
    BY <1>1, <1>2 DEF RecordGrows
  <2>4. RecordInv'
    BY <1>0, <1>1, <1>2, RecordUnchanged
  <2> QED BY <1>1, <2>1, <2>2, <2>3, <2>4, TurnsKept
<1>3. CASE /\ Admissible(s) /\ ~Exceeds(competition, TRUE) /\ WorkerGoes(w, "asking")
           /\ competition' = [competition EXCEPT
                 !.attempt[s] = "started", !.status = IF s = Evaluator THEN "evaluating" ELSE "running"]
           /\ asked' = [asked EXCEPT ![s] = @ + 1]
  <2>1. /\ competition' \in CompetitionRecords
        /\ competition'.candidates = competition.candidates
        /\ competition'.attempt = [competition.attempt EXCEPT ![s] = "started"]
        /\ competition'.status = IF s = Evaluator THEN "evaluating" ELSE "running"
        /\ asked' \in [Slots -> Nat]
    <3> DEFINE status == IF s = Evaluator THEN "evaluating" ELSE "running"
    <3>1. "started" \in AttemptStates /\ status \in {"collecting", "running", "evaluating"} \cup ClosedCompetition
      BY DEF AttemptStates
    <3>2. competition' = [competition EXCEPT !.attempt[s] = "started", !.status = status]
      BY <1>3
    <3>3. asked' \in [Slots -> Nat]
      BY <1>0, <1>3
    <3> HIDE DEF status
    <3>4. /\ competition' \in CompetitionRecords
          /\ competition'.candidates = competition.candidates
          /\ competition'.attempt = [competition.attempt EXCEPT ![s] = "started"]
          /\ competition'.status = status
      BY <1>0, <3>1, <3>2 DEF CompetitionRecords
    <3> QED BY <3>3, <3>4 DEF status
  <2>2. s \in Slots /\ competition.attempt[s] = "none" /\ ~AnyOpen(competition)
        /\ asked[s] = 0 /\ (s = Evaluator \/ Runnable(competition))
    BY <1>0, <1>3 DEF Admissible, RecordInv, AskedOnce
  <2>3. CompetitionTypes'
    BY <1>0, <1>1, <1>3, <2>1, WorkerMoves DEF CompetitionRecords, WorkerSteps
  <2>4. Proceeds(w)
    BY <1>0, <1>1, <1>3, <2>1, WorkerMoves DEF Proceeds, TurnBegun, OnTurn, Admitted, WorkerSteps
  <2>5. RecordGrows
    BY <1>0, <1>1, <2>1, <2>2 DEF RecordGrows
  <2>6. EvaluatorAlone'
    <3> SUFFICES ASSUME competition'.attempt[Evaluator] = "started", brief.limit # "none" \/ ~brief.accounted
                 PROVE  /\ ~Runnable(competition')
                        /\ ~AnyOpen(competition')
                        /\ brief.limit # "none" => \A p \in Participants : competition'.attempt[p] # "none"
      BY <1>1 DEF EvaluatorAlone, Runnable, AnyOpen
    <3>1. s = Evaluator
      BY <1>0, <2>1, <2>2, SlotFacts DEF RecordInv, EvaluatorAlone
    <3>2. \A p \in Participants : competition'.attempt[p] = competition.attempt[p]
      BY <1>0, <2>1, <3>1, SlotFacts
    <3>3. brief.limit # "none" => \A p \in Participants : competition.attempt[p] # "none"
      BY <1>0, <1>1, <3>1, SlotFacts DEF PassedInOrder, OnTurn
    <3> QED BY <2>1, <2>2, <3>1, <3>2, <3>3 DEF Runnable, AnyOpen
  <2>7. AskedOnce'
    <3>1. \A t \in Slots : asked'[t] <= 1 /\ (competition'.attempt[t] = "none" => asked'[t] = 0)
      BY <1>0, <1>3, <2>1, <2>2 DEF RecordInv, AskedOnce
    <3>2. ASSUME NEW p \in Participants, NEW q \in Participants,
                 competition'.attempt[p] = "started", competition'.attempt[q] = "started"
          PROVE  p = q
      BY <1>0, <2>1, <2>2, <3>2, SlotFacts DEF AnyOpen, OpenAttempt
    <3> QED BY <3>1, <3>2 DEF AskedOnce
  <2>8. WithinCalls'
    <3> SUFFICES ASSUME brief.limit = "calls" PROVE Cardinality({t \in Slots : asked'[t] > 0}) <= CallBudget
      BY <1>1 DEF WithinCalls
    <3>1. IsFiniteSet(Slots)
      BY SlotFacts, FS_Interval DEF Slots
    <3>2. IsFiniteSet(CompetitionCalls(competition))
      BY <3>1, FS_Subset DEF CompetitionCalls
    <3>3. Cardinality(CompetitionCalls(competition)) \in Nat
      BY <3>2, FS_CardinalityType
    <3>4. Cardinality(CompetitionCalls(competition)) + 1 <= CallBudget
      BY <1>3, <3>3, CallBudgetAssumption DEF Exceeds, OverBudget
    <3>5. {t \in Slots : asked[t] > 0} \subseteq CompetitionCalls(competition)
      BY <1>0 DEF CompetitionCalls, RecordInv, AskedOnce
    <3>6. {t \in Slots : asked'[t] > 0} \subseteq {t \in Slots : asked[t] > 0} \cup {s}
      BY <1>0, <1>3
    <3> QED BY <3>2, <3>4, <3>5, <3>6, OneCallMore
  <2> QED BY <1>1, <2>3, <2>4, <2>5, <2>6, <2>7, <2>8, TurnsKept DEF RecordInv
<1> QED BY <1>2, <1>3 DEF AdmitCall

\* What the owner does by hand opens no attempt; a result it reconciles has been settled in
\* the account before.
LEMMA OwnerActs ==
    ASSUME CompetitionInv,
           SubmitCandidate \/ BeginEvaluation \/ SubmitScore \/ ReconcileAttempt
             \/ ReconcileEvaluator \/ ReconcileStops
    PROVE  CompetitionInv'
<1> USE DEF CompetitionTypes, CompetitionTypeOK
<1>0. /\ CompetitionTypes /\ RecordInv /\ competition \in CompetitionRecords
      /\ UNCHANGED <<brief, contender, asked>>
      /\ \A x \in Contenders : contender'[x] = contender[x]
  BY DEF CompetitionInv, RecordInv, CompetitionRecords, SubmitCandidate, BeginEvaluation,
     SubmitScore, ReconcileAttempt, ReconcileEvaluator, ReconcileStops
<1>1. CASE SubmitCandidate
  <2>1. PICK p \in Participants :
           competition' = [competition EXCEPT !.candidates = @ \cup {p}]
    BY <1>1 DEF SubmitCandidate
  <2>2. UNCHANGED booked /\ brief.limit = "none"
    BY <1>1 DEF SubmitCandidate
  <2>3. CompetitionTypes' /\ competition'.attempt = competition.attempt
        /\ competition'.status = competition.status
    BY <1>0, <2>1, <2>2
  <2>4. RecordGrows
    BY <1>0, <2>2, <2>3 DEF RecordGrows
  <2>5. RecordInv'
    BY <1>0, <2>3, RecordSettles DEF OpenAttempt, Runnable
  <2> QED BY <1>0, <2>3, <2>4, <2>5, TurnsKept
<1>2. CASE BeginEvaluation
  <2>1. CompetitionTypes' /\ competition'.attempt = competition.attempt
        /\ competition'.status = "evaluating" /\ competition'.candidates = competition.candidates
        /\ UNCHANGED booked
    BY <1>0, <1>2 DEF BeginEvaluation
  <2>2. RecordGrows
    BY <1>0, <2>1 DEF RecordGrows
  <2>3. RecordInv'
    BY <1>0, <2>1, RecordSettles DEF OpenAttempt, Runnable
  <2> QED BY <1>0, <2>1, <2>2, <2>3, TurnsKept
<1>3. CASE SubmitScore
  <2>1. PICK scores \in SUBSET Participants :
           \/ competition' = [competition EXCEPT !.scores = scores]
           \/ \E overCost \in BOOLEAN : competition' = Judged(competition, scores, overCost)
    <3>1. PICK p \in competition.candidates \ competition.scores :
             LET scores == competition.scores \cup {p} IN
             \/ competition' = [competition EXCEPT !.scores = scores]
             \/ \E overCost \in BOOLEAN : competition' = Judged(competition, scores, overCost)
      BY <1>3 DEF SubmitScore
    <3>2. competition.scores \cup {p} \in SUBSET Participants
      BY <1>0 DEF CompetitionRecords
    <3> QED BY <3>1, <3>2
  <2>2. competition.status = "evaluating" /\ UNCHANGED booked
    BY <1>3 DEF SubmitScore
  <2>3. /\ competition' \in CompetitionRecords /\ competition'.attempt = competition.attempt
        /\ competition'.candidates = competition.candidates
        /\ competition'.status = "evaluating" \/ competition'.status \in ClosedCompetition
    <3>1. CASE competition' = [competition EXCEPT !.scores = scores]
      BY <1>0, <2>2, <3>1 DEF CompetitionRecords
    <3>2. CASE \E overCost \in BOOLEAN : competition' = Judged(competition, scores, overCost)
      BY <1>0, <3>2, JudgedRecord
    <3> QED BY <2>1, <3>1, <3>2
  <2>4. CompetitionTypes'
    BY <1>0, <2>2, <2>3 DEF CompetitionRecords
  <2>5. RecordGrows
    BY <1>0, <2>2, <2>3 DEF RecordGrows
  <2>6. RecordInv'
    BY <1>0, <2>3, <2>4, RecordSettles DEF OpenAttempt, Runnable, ClosedCompetition
  <2> QED BY <1>0, <2>4, <2>5, <2>6, TurnsKept
<1>4. CASE ReconcileAttempt
  <2>1. PICK p \in Participants, outcome \in {"reconciled", "failed"}, u \in UsageUnder(brief.limit) :
           /\ Requested /\ OpenAttempt(competition.attempt[p])
           /\ Accounted(p)
           /\ LET given == [competition EXCEPT !.usage[p] = IF u = "missing" THEN @ ELSE u]
                  next == IF outcome = "failed" THEN [given EXCEPT !.attempt[p] = "failed"]
                          ELSE Accepted(given, p, "reconciled")
                  overrun == outcome = "reconciled"
                               /\ Exceeds([given EXCEPT !.attempt[p] = outcome], FALSE) IN
              competition' = [next EXCEPT !.status =
                  IF overrun THEN "failed" ELSE IF AnyOpen(next) THEN "running" ELSE "collecting"]
           /\ UNCHANGED <<brief, contender, asked, competitionFaults>>
    BY <1>4 DEF ReconcileAttempt
  <2> DEFINE given == [competition EXCEPT !.usage[p] = IF u = "missing" THEN @ ELSE u]
             next == IF outcome = "failed" THEN [given EXCEPT !.attempt[p] = "failed"]
                     ELSE Accepted(given, p, "reconciled")
  <2>2. PICK status \in {"failed", "running", "collecting"} : competition' = [next EXCEPT !.status = status]
    BY <2>1
  <2>3. /\ given \in CompetitionRecords /\ given.attempt = competition.attempt
        /\ given.candidates = competition.candidates
    BY <1>0, SlotFacts DEF CompetitionRecords
  <2>4. /\ next \in CompetitionRecords
        /\ next.attempt = [competition.attempt EXCEPT ![p] = outcome]
        /\ next.candidates \subseteq competition.candidates \cup {p}
    <3> HIDE DEF given
    <3>1. CASE outcome = "failed"
      BY <2>3, <3>1, SlotFacts DEF CompetitionRecords, AttemptStates
    <3>2. CASE outcome = "reconciled"
      <4>1. next = Accepted(given, p, "reconciled") /\ "reconciled" \in AttemptStates
        BY <3>2 DEF AttemptStates
      <4> HIDE DEF next
      <4> QED BY <2>3, <3>2, <4>1, AcceptedRecord
    <3> QED BY <3>1, <3>2
  <2> HIDE DEF next
  <2>5. /\ competition' \in CompetitionRecords
        /\ competition'.attempt = [competition.attempt EXCEPT ![p] = outcome]
        /\ competition'.candidates \subseteq competition.candidates \cup {p}
    BY <2>2, <2>4 DEF CompetitionRecords, ClosedCompetition
  <2>6. /\ booked' \in [Slots -> EntryStates]
        /\ brief.accounted => booked'[p] = "settled"
        /\ \A s \in Slots : booked[s] = "settled" => booked'[s] = "settled"
    BY <1>0, <2>1, SlotFacts DEF Accounted, EntrySettles, EntryStates
  <2>7. CompetitionTypes'
    BY <1>0, <2>5, <2>6 DEF CompetitionRecords
  <2>8. competition.attempt \in [Slots -> AttemptStates] /\ p \in Slots
    BY <1>0, SlotFacts DEF CompetitionRecords
  <2>9. RecordGrows
    BY <1>0, <2>1, <2>5, <2>6, <2>8 DEF RecordGrows
  <2>10. RecordInv'
    BY <1>0, <2>1, <2>5, <2>7, <2>8, RecordSettles DEF OpenAttempt, Runnable, AnyOpen
  <2> QED BY <1>0, <2>7, <2>9, <2>10, TurnsKept
<1>5. CASE ReconcileEvaluator
  <2>1. /\ competition.status = "evaluating" /\ OpenAttempt(competition.attempt[Evaluator])
        /\ Accounted(Evaluator)
    BY <1>5 DEF ReconcileEvaluator
  <2>2. PICK u \in UsageUnder(brief.limit) :
         LET given == [competition EXCEPT !.usage[Evaluator] = IF u = "missing" THEN @ ELSE u] IN
         \/ competition' = [given EXCEPT !.attempt[Evaluator] = "failed", !.status = "failed"]
         \/ \E raw \in SUBSET Participants \ {{}} :
               LET told == [given EXCEPT !.attempt[Evaluator] = "completed", !.raw = raw] IN
               competition' = told \/ FinishEvaluation(told, competition')
    BY <1>5 DEF ReconcileEvaluator
  <2> DEFINE given == [competition EXCEPT !.usage[Evaluator] = IF u = "missing" THEN @ ELSE u]
  <2>3. /\ given \in CompetitionRecords /\ given.attempt = competition.attempt
        /\ given.candidates = competition.candidates /\ given.status = "evaluating"
    BY <1>0, <2>1, SlotFacts DEF CompetitionRecords
  <2>4. \E outcome \in {"failed", "completed"} :
           /\ competition' \in CompetitionRecords
           /\ competition'.attempt = [competition.attempt EXCEPT ![Evaluator] = outcome]
           /\ competition'.candidates = competition.candidates
           /\ competition'.status = "evaluating" \/ competition'.status \in ClosedCompetition
    <3> HIDE DEF given
    <3>1. CASE competition' = [given EXCEPT !.attempt[Evaluator] = "failed", !.status = "failed"]
      <4>1. /\ competition' \in CompetitionRecords
            /\ competition'.attempt = [competition.attempt EXCEPT ![Evaluator] = "failed"]
            /\ competition'.candidates = competition.candidates
            /\ competition'.status = "failed"
        BY <2>3, <3>1, SlotFacts DEF CompetitionRecords, AttemptStates, ClosedCompetition
      <4> QED BY <4>1 DEF ClosedCompetition
    <3>2. ASSUME NEW raw \in SUBSET Participants \ {{}},
                 LET told == [given EXCEPT !.attempt[Evaluator] = "completed", !.raw = raw] IN
                 competition' = told \/ FinishEvaluation(told, competition')
          PROVE  /\ competition' \in CompetitionRecords
                 /\ competition'.attempt = [competition.attempt EXCEPT ![Evaluator] = "completed"]
                 /\ competition'.candidates = competition.candidates
                 /\ competition'.status = "evaluating" \/ competition'.status \in ClosedCompetition
      <4> DEFINE told == [given EXCEPT !.attempt[Evaluator] = "completed", !.raw = raw]
      <4>1. /\ told \in CompetitionRecords
            /\ told.attempt = [competition.attempt EXCEPT ![Evaluator] = "completed"]
            /\ told.candidates = competition.candidates /\ told.status = "evaluating"
        BY <2>3, SlotFacts DEF CompetitionRecords, AttemptStates
      <4>2. competition' = told \/ FinishEvaluation(told, competition')
        BY <3>2
      <4> HIDE DEF told
      <4> QED BY <4>1, <4>2, FinishedRecord
    <3> QED BY <2>2, <3>1, <3>2 DEF given
  <2>5. /\ booked' \in [Slots -> EntryStates]
        /\ brief.accounted => booked'[Evaluator] = "settled"
        /\ \A s \in Slots : booked[s] = "settled" => booked'[s] = "settled"
    BY <1>0, <2>1, SlotFacts DEF Accounted, EntrySettles, EntryStates
  <2>6. CompetitionTypes'
    BY <1>0, <2>4, <2>5 DEF CompetitionRecords
  <2>7. competition.attempt \in [Slots -> AttemptStates] /\ Evaluator \in Slots
    BY <1>0, SlotFacts DEF CompetitionRecords
  <2>8. RecordGrows
    BY <1>0, <2>4, <2>5, <2>7 DEF RecordGrows
  <2>9. RecordInv'
    BY <1>0, <2>1, <2>4, <2>6, <2>7, RecordSettles DEF OpenAttempt, Runnable, ClosedCompetition
  <2> QED BY <1>0, <2>6, <2>8, <2>9, TurnsKept
<1>6. CASE ReconcileStops
  <2>1. UNCHANGED competition /\ \E s \in Slots, state \in {"settled", "rejected"} : EntrySettles(s, state)
    BY <1>6 DEF ReconcileStops, CompetitionCalls
  <2>2. /\ booked' \in [Slots -> EntryStates]
        /\ \A s \in Slots : booked[s] = "settled" => booked'[s] = "settled"
    BY <1>0, <2>1 DEF EntrySettles, EntrySettled, EntryStates
  <2>3. CompetitionTypes'
    BY <1>0, <2>1, <2>2
  <2>4. RecordGrows
    BY <1>0, <2>1, <2>2 DEF RecordGrows
  <2>5. RecordInv'
    BY <1>0, <2>1, RecordUnchanged
  <2> QED BY <1>0, <2>3, <2>4, <2>5, TurnsKept
<1> QED BY <1>1, <1>2, <1>3, <1>4, <1>5, <1>6

LEMMA CompetitionStep ==
    ASSUME CompetitionInv, [CompetitionNext]_competitionVars
    PROVE  CompetitionInv'
<1>1. CASE UNCHANGED competitionVars
  BY <1>1 DEF competitionVars, CompetitionInv, CompetitionTypes, CompetitionTypeOK, TurnsBegun,
     TurnBegun, PassedInOrder, EvaluatorAlone, AskedOnce, WithinCalls, KeptResultsArePaid,
     Runnable, AnyOpen
<1>2. ASSUME NEW w \in Contenders, WorkerTurn(w) PROVE CompetitionInv'
  BY <1>2, WorkerLooks, WorkerWrites, WorkerRecovers, WorkerAdmits DEF WorkerTurn
<1> QED BY <1>1, <1>2, OwnerActs DEF CompetitionNext

LEMMA CompetitionInvariant == CompetitionSpec => []CompetitionInv
<1> QED BY CompetitionStart, CompetitionStep, PTL DEF CompetitionSpec

\* Every reachable record of a competition, its account and its workers are well typed.
THEOREM CompetitionTypeCorrect == CompetitionSpec => []CompetitionTypeOK
<1>1. CompetitionInv => CompetitionTypeOK
  BY DEF CompetitionInv, CompetitionTypes
<1> QED BY <1>1, CompetitionInvariant, PTL

\* runCompetition() asks every participant and the evaluator once, in turn and within the
\* budget of calls, for any number of participants and workers and whatever stops half-way.
THEOREM EverybodyAskedInTurn == CompetitionSpec => []AskedInTurn
<1>1. CompetitionInv => AskedInTurn
  <2> SUFFICES ASSUME CompetitionInv PROVE AskedInTurn
    OBVIOUS
  <2>1. Cardinality({p \in Participants : competition.attempt[p] = "started"}) <= 1
    BY AtMostOne DEF CompetitionInv, AskedOnce
  <2> QED BY <2>1 DEF CompetitionInv, AskedOnce, EvaluatorAlone, WithinCalls, AskedInTurn
<1> QED BY <1>1, CompetitionInvariant, PTL

\* No result stays in a record whose call the global account was not charged for.
THEOREM ResultsArePaid == CompetitionSpec => []KeptResultsArePaid
<1>1. CompetitionInv => KeptResultsArePaid
  BY DEF CompetitionInv
<1> QED BY <1>1, CompetitionInvariant, PTL

-----------------------------------------------------------------------------
(* The debate *)

\* A set of numbers that is not empty has a least one, and Min is it.
LEMMA MinIsLeast ==
    ASSUME NEW S, S \subseteq Nat, S # {}
    PROVE  Min(S) \in S /\ \A u \in S : Min(S) <= u
<1> DEFINE R == OpToRel(<, Nat)
<1>1. PICK t \in S : \A u \in S : ~ (<<u, t>> \in R)
  <2>1. IsWellFoundedOn(R, Nat)
    BY NatLessThanWellFounded
  <2> HIDE DEF R
  <2> QED BY <2>1, WFMin
<1>2. ASSUME NEW u \in S PROVE t <= u
  <2>1. ~ (u < t)
    BY <1>1 DEF OpToRel
  <2> QED BY <2>1
<1> QED BY <1>2 DEF Min

\* What a runner remembers between two of its steps.
RunnerSteps ==
    {"idle", "turn", "conclude", "look", "reserve", "recover", "admit", "asking", "settle", "keep",
     "mark", "value", "use", "hold"}
AllOutputs == {"bad", "argument", "decision", "unbacked", "accepted", "flagged", "decided", "held"}
RunnerAnswers == AllOutputs \cup {"none", "unknown", "error"}
RunnerStates ==
    [at : RunnerSteps, slot : DebateSlots, todo : SUBSET Messages, then : {"turn", "conclude"},
     answer : RunnerAnswers]

\* The record of a debate; no attempt of it is ever "reconciled".
DebateRecords ==
    [status : {"active", "closed"}, outcome : {"none", "decided", "held"},
     messages : SUBSET Messages, reviews : SUBSET Messages,
     attempt : [DebateSlots -> AttemptStates \ {"reconciled"}],
     usage : [DebateSlots -> UsageUnder("tokens")],
     output : [DebateSlots -> AllOutputs \cup {"none"}]]

DebateTypes ==
    /\ room \in Rooms
    /\ debate \in DebateRecords
    /\ \A s \in DebateSlots : debate.output[s] \in Outputs(s) \cup {"none"}
    /\ debateBooked \in [DebateSlots -> EntryStates]
    /\ runner \in [Runners -> RunnerStates]
    /\ heard \in [DebateSlots -> Nat]
    /\ debateFaults \in Nat

\* What a runner has come to: the turns before its own are in the room, and what it reviews is.
Placed(c) ==
    /\ c.slot[1] = "participant" => \A n \in Messages : n < c.slot[2] => n \in debate.messages
    /\ c.slot[1] = "moderator" => c.slot[2] \in debate.messages
    /\ c.todo \subseteq debate.messages

\* Its call was admitted by somebody, and it uses only what a settled call said.
Called(c) ==
    /\ c.at \in {"asking", "settle", "keep", "mark", "value", "use"} => debate.attempt[c.slot] # "none"
    /\ c.at \in {"settle", "keep"} => c.answer \in Outputs(c.slot) \cup {"unknown", "error"}
    /\ c.at = "use" => debate.attempt[c.slot] = "completed" /\ debate.output[c.slot] # "bad"

TurnHeld(c) == Placed(c) /\ Called(c)

TurnsHeld == \A w \in Runners : TurnHeld(runner[w])

\* The room holds what settled calls said, in the order of the turns.
RoomInOrder ==
    /\ \A s \in DebateSlots : debate.attempt[s] = "completed" => debate.output[s] # "none"
    /\ \A n \in debate.messages :
         /\ debate.attempt[Speak(n)] = "completed"
         /\ \A m \in Messages : m < n => m \in debate.messages
    /\ \A n \in debate.reviews : debate.attempt[Review(n)] = "completed" /\ n \in debate.messages

SlotsHeardOnce ==
    /\ \A s \in DebateSlots : heard[s] <= 1 /\ (debate.attempt[s] = "none" => heard[s] = 0)
    /\ \A s, t \in DebateSlots :
          debate.attempt[s] = "started" /\ debate.attempt[t] = "started" => s = t

HeardWithinCalls ==
    room.limit = "calls" => Cardinality({s \in DebateSlots : heard[s] > 0}) <= CallBudget

DebateInv == DebateTypes /\ TurnsHeld /\ RoomInOrder /\ SlotsHeardOnce /\ HeardWithinCalls

\* What the definitions of slots, usages and outputs come to.
LEMMA DebateSlotFacts ==
    /\ MessageCount \in Nat \ {0} /\ Messages \subseteq Nat /\ 1 \in Messages
    /\ Final \in DebateSlots /\ IsFiniteSet(DebateSlots)
    /\ \A n \in Messages : Speak(n) \in DebateSlots /\ Review(n) \in DebateSlots
    /\ \A n : /\ Speak(n)[1] = "participant" /\ Speak(n)[2] = n
              /\ Review(n)[1] = "moderator" /\ Review(n)[2] = n
    /\ Final[1] = "adjudicator"
    /\ \A s \in DebateSlots :
         /\ s[1] = "participant" => s[2] \in Messages /\ s = Speak(s[2])
         /\ s[1] = "moderator" => s[2] \in Messages /\ s = Review(s[2])
         /\ Outputs(s) \subseteq AllOutputs
    /\ Outputs(Final) = {"bad", "decided", "held"}
    /\ \A limit : UsageUnder(limit) \subseteq UsageUnder("tokens")
<1>1. MessageCount \in Nat \ {0} /\ Messages \subseteq Nat /\ 1 \in Messages
  BY DebateAssumption DEF Messages
<1>2. IsFiniteSet(DebateSlots)
  <2>1. IsFiniteSet({"participant", "moderator"})
    <3>1. IsFiniteSet({}) /\ IsFiniteSet({"participant"})
      BY FS_EmptySet, FS_Singleton
    <3>2. {"participant", "moderator"} = {"participant"} \cup {"moderator"}
      OBVIOUS
    <3> QED BY <3>1, <3>2, FS_AddElement
  <2>2. IsFiniteSet(Messages)
    BY <1>1, FS_Interval DEF Messages
  <2>3. IsFiniteSet({"participant", "moderator"} \X Messages)
    BY <2>1, <2>2, FS_Product
  <2> QED BY <2>3, FS_AddElement DEF DebateSlots
<1>3. /\ Final \in DebateSlots
      /\ \A n \in Messages : Speak(n) \in DebateSlots /\ Review(n) \in DebateSlots
  BY DEF DebateSlots, Speak, Review
<1>4. /\ \A n : /\ Speak(n)[1] = "participant" /\ Speak(n)[2] = n
                /\ Review(n)[1] = "moderator" /\ Review(n)[2] = n
      /\ Final[1] = "adjudicator"
  BY DEF Speak, Review, Final
<1>5. ASSUME NEW s \in DebateSlots
      PROVE  /\ s[1] = "participant" => s[2] \in Messages /\ s = Speak(s[2])
             /\ s[1] = "moderator" => s[2] \in Messages /\ s = Review(s[2])
             /\ s[1] \in {"participant", "moderator", "adjudicator"}
  BY DEF DebateSlots, Speak, Review, Final
<1>6. ASSUME NEW s \in DebateSlots PROVE Outputs(s) \subseteq AllOutputs
  BY <1>5 DEF Outputs, AllOutputs
<1>7. Outputs(Final) = {"bad", "decided", "held"}
  BY <1>4 DEF Outputs
<1>8. \A limit : UsageUnder(limit) \subseteq UsageUnder("tokens")
  BY DEF UsageUnder
<1> QED BY <1>1, <1>2, <1>3, <1>4, <1>5, <1>6, <1>7, <1>8

\* A runner that goes on, leaves, or comes to another slot: what it remembers, and that the
\* others are not disturbed.
LEMMA RunnerMoves ==
    ASSUME runner \in [Runners -> RunnerStates], NEW w \in Runners
    PROVE  /\ \A step \in RunnerSteps : RunnerGoes(w, step) =>
                 /\ runner' \in [Runners -> RunnerStates]
                 /\ runner'[w].at = step /\ runner'[w].slot = runner[w].slot
                 /\ runner'[w].todo = runner[w].todo /\ runner'[w].answer = runner[w].answer
           /\ RunnerLeaves(w) =>
                 /\ runner' \in [Runners -> RunnerStates]
                 /\ runner'[w].at = "idle" /\ runner'[w].slot = Final /\ runner'[w].todo = {}
           /\ \A slot \in DebateSlots : RunnerCalls(w, slot) =>
                 /\ runner' \in [Runners -> RunnerStates]
                 /\ runner'[w].at = "look" /\ runner'[w].slot = slot
                 /\ runner'[w].todo = runner[w].todo
           /\ \A todo \in SUBSET Messages, then \in {"turn", "conclude"} : Reviews(w, todo, then) =>
                 /\ runner' \in [Runners -> RunnerStates]
                 /\ \/ runner'[w].at = then /\ runner'[w].slot = Final /\ runner'[w].todo = {}
                    \/ /\ runner'[w].at = "look" /\ runner'[w].todo = todo
                       /\ \E n \in todo : runner'[w].slot = Review(n)
           /\ (\/ RunnerLeaves(w) \/ \E step : RunnerGoes(w, step)
               \/ \E slot : RunnerCalls(w, slot) \/ \E todo, then : Reviews(w, todo, then)) =>
                 \A x \in Runners \ {w} : runner'[x] = runner[x]
<1>1. /\ NotRunning \in RunnerStates /\ NotRunning.at = "idle" /\ NotRunning.slot = Final
      /\ NotRunning.todo = {}
  BY DebateSlotFacts DEF NotRunning, RunnerStates, RunnerSteps, RunnerAnswers
<1>2. ASSUME NEW step \in RunnerSteps, RunnerGoes(w, step)
      PROVE  /\ runner' \in [Runners -> RunnerStates]
             /\ runner'[w].at = step /\ runner'[w].slot = runner[w].slot
             /\ runner'[w].todo = runner[w].todo /\ runner'[w].answer = runner[w].answer
  <2> DEFINE gone == [runner[w] EXCEPT !.at = step]
  <2>1. /\ gone \in RunnerStates /\ gone.at = step /\ gone.slot = runner[w].slot
        /\ gone.todo = runner[w].todo /\ gone.answer = runner[w].answer
    BY DEF RunnerStates
  <2>2. runner' = [runner EXCEPT ![w] = gone]
    BY <1>2 DEF RunnerGoes
  <2> HIDE DEF gone
  <2> QED BY <2>1, <2>2
<1>3. RunnerLeaves(w) => /\ runner' \in [Runners -> RunnerStates]
                         /\ runner'[w].at = "idle" /\ runner'[w].slot = Final /\ runner'[w].todo = {}
  <2> HIDE DEF NotRunning
  <2> QED BY <1>1 DEF RunnerLeaves
<1>4. ASSUME NEW slot \in DebateSlots, RunnerCalls(w, slot)
      PROVE  /\ runner' \in [Runners -> RunnerStates]
             /\ runner'[w].at = "look" /\ runner'[w].slot = slot
             /\ runner'[w].todo = runner[w].todo
  <2> DEFINE called == [runner[w] EXCEPT !.at = "look", !.slot = slot]
  <2>1. /\ called \in RunnerStates /\ called.at = "look" /\ called.slot = slot
        /\ called.todo = runner[w].todo
    BY DEF RunnerStates, RunnerSteps
  <2>2. runner' = [runner EXCEPT ![w] = called]
    BY <1>4 DEF RunnerCalls
  <2> HIDE DEF called
  <2> QED BY <2>1, <2>2
<1>5. ASSUME NEW todo \in SUBSET Messages, NEW then \in {"turn", "conclude"}, Reviews(w, todo, then)
      PROVE  /\ runner' \in [Runners -> RunnerStates]
             /\ \/ runner'[w].at = then /\ runner'[w].slot = Final /\ runner'[w].todo = {}
                \/ /\ runner'[w].at = "look" /\ runner'[w].todo = todo
                   /\ \E n \in todo : runner'[w].slot = Review(n)
  <2> DEFINE over == [NotRunning EXCEPT !.at = then]
             next == [at |-> "look", slot |-> Review(Min(todo)), todo |-> todo, then |-> then, answer |-> "none"]
  <2>1. /\ over \in RunnerStates /\ over.at = then /\ over.slot = Final /\ over.todo = {}
    BY DebateSlotFacts DEF NotRunning, RunnerStates, RunnerSteps, RunnerAnswers
  <2>2. todo # {} => Min(todo) \in todo
    BY DebateSlotFacts, MinIsLeast
  <2>3. todo # {} => next \in RunnerStates
    BY <2>2, DebateSlotFacts DEF RunnerStates, RunnerSteps, RunnerAnswers
  <2>4. next.at = "look" /\ next.todo = todo /\ next.slot = Review(Min(todo))
    OBVIOUS
  <2>5. \/ todo = {} /\ runner' = [runner EXCEPT ![w] = over]
        \/ todo # {} /\ runner' = [runner EXCEPT ![w] = next]
    BY <1>5 DEF Reviews
  <2> HIDE DEF over, next
  <2> QED BY <2>1, <2>2, <2>3, <2>4, <2>5
<1>6. (\/ RunnerLeaves(w) \/ \E step : RunnerGoes(w, step)
       \/ \E slot : RunnerCalls(w, slot) \/ \E todo, then : Reviews(w, todo, then)) =>
          \A x \in Runners \ {w} : runner'[x] = runner[x]
  BY DEF RunnerLeaves, RunnerGoes, RunnerCalls, Reviews
<1> QED BY <1>2, <1>3, <1>4, <1>5, <1>6

LEMMA DebateStart == DebateInit => DebateInv
<1> SUFFICES ASSUME DebateInit PROVE DebateInv
  OBVIOUS
<1>1. NotRunning \in RunnerStates
  BY DebateSlotFacts DEF NotRunning, RunnerStates, RunnerSteps, RunnerAnswers
<1>2. DebateTypes
  <2>1. "missing" \in UsageUnder("tokens")
    BY DEF UsageUnder
  <2> HIDE DEF NotRunning
  <2> QED BY <1>1, <2>1
          DEF DebateInit, DebateTypes, DebateRecords, AttemptStates, EntryStates, AllOutputs
<1>3. TurnsHeld
  BY DebateSlotFacts DEF DebateInit, TurnsHeld, TurnHeld, Placed, Called, NotRunning
<1>4. RoomInOrder /\ SlotsHeardOnce
  BY DEF DebateInit, RoomInOrder, SlotsHeardOnce
<1>5. HeardWithinCalls
  <2>1. {s \in DebateSlots : heard[s] > 0} = {}
    BY DEF DebateInit
  <2> QED BY <2>1, FS_EmptySet, CallBudgetAssumption DEF HeardWithinCalls
<1> QED BY <1>2, <1>3, <1>4, <1>5 DEF DebateInv

\* No message, attempt or settled answer is ever taken back.
DebateGrows ==
    /\ room' = room
    /\ debate.messages \subseteq debate'.messages
    /\ \A s \in DebateSlots :
         /\ debate.attempt[s] # "none" => debate'.attempt[s] # "none"
         /\ debate.attempt[s] = "completed" =>
                debate'.attempt[s] = "completed" /\ debate'.output[s] = debate.output[s]

\* The parts of the invariant that are about the record alone.
RecordHeld == RoomInOrder /\ SlotsHeardOnce /\ HeardWithinCalls

\* Such a step leaves what the runners rely on as it was.
LEMMA TurnsStayHeld ==
    ASSUME DebateInv, DebateTypes', DebateGrows, RecordHeld',
           \A x \in Runners : runner'[x] = runner[x] \/ TurnHeld(runner[x])'
    PROVE  DebateInv'
<1>1. ASSUME NEW x \in Runners, runner'[x] = runner[x] PROVE TurnHeld(runner[x])'
  <2>1. TurnHeld(runner[x]) /\ runner[x].slot \in DebateSlots
    BY DEF DebateInv, TurnsHeld, DebateTypes, RunnerStates
  <2> QED BY <1>1, <2>1 DEF TurnHeld, Placed, Called, DebateGrows
<1> QED BY <1>1 DEF DebateInv, TurnsHeld, RecordHeld

\* A change of the record that opens no attempt and adds nothing to the room keeps them too.
LEMMA DebateSettles ==
    ASSUME DebateInv, DebateTypes', DebateGrows, heard' = heard,
           debate'.messages = debate.messages, debate'.reviews = debate.reviews,
           \A s \in DebateSlots :
              /\ debate'.attempt[s] = "none" => debate.attempt[s] = "none"
              /\ debate'.attempt[s] = "started" => debate.attempt[s] = "started"
              /\ debate'.attempt[s] = "completed" => debate'.output[s] # "none"
    PROVE  RecordHeld'
<1>1. RoomInOrder'
  <2>1. /\ debate.messages \subseteq Messages /\ debate.reviews \subseteq Messages
        /\ RoomInOrder
    BY DEF DebateInv, DebateTypes, DebateRecords
  <2> DEFINE slotOf(n) == Speak(n) \in DebateSlots /\ Review(n) \in DebateSlots
  <2>5. \A n \in Messages : slotOf(n)
    BY DebateSlotFacts
  <2>2. \A s \in DebateSlots : debate'.attempt[s] = "completed" => debate'.output[s] # "none"
    OBVIOUS
  <2>3. \A n \in debate'.messages : /\ debate'.attempt[Speak(n)] = "completed"
                                    /\ \A m \in Messages : m < n => m \in debate'.messages
    BY <2>1, <2>5 DEF RoomInOrder, DebateGrows
  <2>4. \A n \in debate'.reviews : debate'.attempt[Review(n)] = "completed" /\ n \in debate'.messages
    BY <2>1, <2>5 DEF RoomInOrder, DebateGrows
  <2> HIDE DEF DebateGrows
  <2> QED BY <2>2, <2>3, <2>4 DEF RoomInOrder
<1>2. SlotsHeardOnce'
  BY DEF DebateInv, SlotsHeardOnce
<1>3. HeardWithinCalls'
  BY DEF DebateInv, HeardWithinCalls, DebateGrows
<1> QED BY <1>1, <1>2, <1>3 DEF RecordHeld

\* A runner that goes on stays where it is in the debate; one that leaves or begins to review
\* holds nothing but messages of the room.
LEMMA RunnerHolds ==
    ASSUME DebateInv, DebateGrows, debate' \in DebateRecords, NEW w \in Runners
    PROVE  /\ \A step \in RunnerSteps : RunnerGoes(w, step) =>
                 /\ runner' \in [Runners -> RunnerStates] /\ Placed(runner[w])'
                 /\ runner'[w].at = step /\ runner'[w].slot = runner[w].slot
                 /\ runner'[w].answer = runner[w].answer
                 /\ \A x \in Runners \ {w} : runner'[x] = runner[x]
           /\ RunnerLeaves(w) =>
                 /\ runner' \in [Runners -> RunnerStates] /\ TurnHeld(runner[w])'
                 /\ \A x \in Runners \ {w} : runner'[x] = runner[x]
           /\ \A todo \in SUBSET debate'.messages, then \in {"turn", "conclude"} : Reviews(w, todo, then) =>
                 /\ runner' \in [Runners -> RunnerStates] /\ TurnHeld(runner[w])'
                 /\ \A x \in Runners \ {w} : runner'[x] = runner[x]
<1>0. /\ runner \in [Runners -> RunnerStates] /\ TurnHeld(runner[w])
      /\ runner[w].slot \in DebateSlots
      /\ debate'.messages \subseteq Messages
  BY DEF DebateInv, DebateTypes, TurnsHeld, RunnerStates, DebateRecords
<1>1. ASSUME NEW step \in RunnerSteps, RunnerGoes(w, step)
      PROVE  /\ runner' \in [Runners -> RunnerStates] /\ Placed(runner[w])'
             /\ runner'[w].at = step /\ runner'[w].slot = runner[w].slot
             /\ runner'[w].answer = runner[w].answer
             /\ \A x \in Runners \ {w} : runner'[x] = runner[x]
  <2>1. /\ runner' \in [Runners -> RunnerStates]
        /\ runner'[w].at = step /\ runner'[w].slot = runner[w].slot
        /\ runner'[w].todo = runner[w].todo /\ runner'[w].answer = runner[w].answer
        /\ \A x \in Runners \ {w} : runner'[x] = runner[x]
    BY <1>0, <1>1, RunnerMoves
  <2>2. Placed(runner[w])'
    BY <1>0, <2>1 DEF TurnHeld, Placed, DebateGrows
  <2> QED BY <2>1, <2>2
<1>2. ASSUME RunnerLeaves(w)
      PROVE  /\ runner' \in [Runners -> RunnerStates] /\ TurnHeld(runner[w])'
             /\ \A x \in Runners \ {w} : runner'[x] = runner[x]
  <2>1. /\ runner' \in [Runners -> RunnerStates]
        /\ runner'[w].at = "idle" /\ runner'[w].slot = Final /\ runner'[w].todo = {}
        /\ \A x \in Runners \ {w} : runner'[x] = runner[x]
    BY <1>0, <1>2, RunnerMoves
  <2> QED BY <2>1, DebateSlotFacts DEF TurnHeld, Placed, Called
<1>3. ASSUME NEW todo \in SUBSET debate'.messages, NEW then \in {"turn", "conclude"}, Reviews(w, todo, then)
      PROVE  /\ runner' \in [Runners -> RunnerStates] /\ TurnHeld(runner[w])'
             /\ \A x \in Runners \ {w} : runner'[x] = runner[x]
  <2>1. /\ runner' \in [Runners -> RunnerStates]
        /\ \/ runner'[w].at = then /\ runner'[w].slot = Final /\ runner'[w].todo = {}
           \/ /\ runner'[w].at = "look" /\ runner'[w].todo = todo
              /\ \E n \in todo : runner'[w].slot = Review(n)
        /\ \A x \in Runners \ {w} : runner'[x] = runner[x]
    BY <1>0, <1>3, RunnerMoves
  <2>2. CASE runner'[w].at = then /\ runner'[w].slot = Final /\ runner'[w].todo = {}
    BY <2>1, <2>2, DebateSlotFacts DEF TurnHeld, Placed, Called
  <2>3. CASE /\ runner'[w].at = "look" /\ runner'[w].todo = todo
             /\ \E n \in todo : runner'[w].slot = Review(n)
    BY <2>1, <2>3, DebateSlotFacts DEF TurnHeld, Placed, Called
  <2> QED BY <2>1, <2>2, <2>3
<1> QED BY <1>1, <1>2, <1>3

\* A step that leaves the record as it was, or only closes the debate.
LEMMA RecordStands ==
    ASSUME DebateInv, debateBooked' \in [DebateSlots -> EntryStates], debateFaults' \in Nat,
           runner' \in [Runners -> RunnerStates], UNCHANGED <<room, heard>>,
           \/ debate' = debate
           \/ \E outcome \in {"decided", "held"} : debate' = Closed(outcome)
    PROVE  DebateTypes' /\ DebateGrows /\ RecordHeld' /\ debate' \in DebateRecords
<1>1. debate \in DebateRecords
  BY DEF DebateInv, DebateTypes
<1>2. /\ debate' \in DebateRecords /\ debate'.attempt = debate.attempt /\ debate'.output = debate.output
      /\ debate'.messages = debate.messages /\ debate'.reviews = debate.reviews
  <2>1. CASE debate' = debate
    BY <1>1, <2>1
  <2>2. ASSUME NEW outcome \in {"decided", "held"}, debate' = Closed(outcome)
        PROVE  /\ debate' \in DebateRecords
               /\ debate'.attempt = debate.attempt /\ debate'.output = debate.output
               /\ debate'.messages = debate.messages /\ debate'.reviews = debate.reviews
    BY <1>1, <2>2 DEF Closed, DebateRecords
  <2> QED BY <2>1, <2>2
<1>3. DebateTypes'
  BY <1>2 DEF DebateInv, DebateTypes
<1>4. DebateGrows
  BY <1>2 DEF DebateGrows
<1>5. \A s \in DebateSlots : debate'.attempt[s] = "completed" => debate'.output[s] # "none"
  BY <1>2 DEF DebateInv, RoomInOrder
<1>6. RecordHeld'
  BY <1>2, <1>3, <1>4, <1>5, DebateSettles
<1> QED BY <1>2, <1>3, <1>4, <1>6

\* The steps of a runner that read the record, whatever they find there.
LEMMA RunnerReads ==
    ASSUME DebateInv, NEW w \in Runners,
           RunDebate(w) \/ NextSpeaker(w) \/ LookUpCall(w) \/ ReadValue(w) \/ RunnerStops(w)
    PROVE  DebateInv'
<1>0. /\ DebateTypes /\ TurnHeld(runner[w]) /\ RoomInOrder
      /\ UNCHANGED <<room, debate, debateBooked, heard>> /\ debateFaults' \in Nat
      /\ debate.messages \subseteq Messages /\ runner \in [Runners -> RunnerStates]
  <2>1. UNCHANGED <<room, debate, debateBooked, heard>> /\ (UNCHANGED debateFaults \/ DebateFaulty)
    BY DEF RunDebate, NextSpeaker, LookUpCall, ReadValue, RunnerStops, debateBounds, requestBounds
  <2>2. DebateTypes /\ TurnHeld(runner[w]) /\ RoomInOrder
    BY DEF DebateInv, TurnsHeld
  <2> QED BY <2>1, <2>2 DEF DebateTypes, DebateRecords, DebateFaulty
<1>1. DebateGrows /\ debate' \in DebateRecords
  BY <1>0 DEF DebateGrows, DebateTypes
<1>2. Unreviewed(debate) \in SUBSET debate'.messages
  BY <1>0 DEF Unreviewed
<1>3. SUFFICES /\ runner' \in [Runners -> RunnerStates]
               /\ TurnHeld(runner[w])' /\ \A x \in Runners \ {w} : runner'[x] = runner[x]
  <2>1. ASSUME runner' \in [Runners -> RunnerStates] PROVE DebateTypes' /\ RecordHeld'
    BY <1>0, <2>1, RecordStands DEF DebateTypes
  <2> QED BY <1>1, <2>1, TurnsStayHeld
<1>4. RunnerLeaves(w) =>
        /\ runner' \in [Runners -> RunnerStates]
        /\ TurnHeld(runner[w])' /\ \A x \in Runners \ {w} : runner'[x] = runner[x]
  BY <1>1, RunnerHolds
<1>5. \A then \in {"turn", "conclude"} : Reviews(w, Unreviewed(debate), then) =>
        /\ runner' \in [Runners -> RunnerStates]
        /\ TurnHeld(runner[w])' /\ \A x \in Runners \ {w} : runner'[x] = runner[x]
  BY <1>1, <1>2, RunnerHolds
<1>6. CASE RunDebate(w)
  BY <1>5, <1>6 DEF RunDebate
<1>7. CASE NextSpeaker(w)
  <2>1. CASE RunnerLeaves(w) \/ Reviews(w, Unreviewed(debate), "conclude")
    BY <1>4, <1>5, <2>1
  <2>2. CASE Unspoken # {} /\ RunnerCalls(w, Speak(Min(Unspoken)))
    <3>1. Unspoken \subseteq Messages /\ room.turns \in Messages
      BY <1>0, DebateAssumption, DebateSlotFacts DEF Unspoken, Messages, DebateTypes
    <3>2. Min(Unspoken) \in Unspoken /\ \A u \in Unspoken : Min(Unspoken) <= u
      BY <2>2, <3>1, DebateSlotFacts, MinIsLeast
    <3>3. /\ runner' \in [Runners -> RunnerStates]
          /\ runner'[w].at = "look" /\ runner'[w].slot = Speak(Min(Unspoken))
          /\ runner'[w].todo = runner[w].todo
          /\ \A x \in Runners \ {w} : runner'[x] = runner[x]
      BY <1>0, <2>2, <3>1, <3>2, DebateSlotFacts, RunnerMoves
    <3>4. \A n \in Messages : n < Min(Unspoken) => n \in debate.messages
      <4>1. ASSUME NEW n \in Messages, n < Min(Unspoken), n \notin debate.messages PROVE FALSE
        <5>1. n \in 1 .. room.turns
          BY <3>1, <3>2, <4>1, DebateSlotFacts DEF Messages, Unspoken
        <5>2. n \in Unspoken
          BY <4>1, <5>1 DEF Unspoken
        <5>3. Min(Unspoken) \in Nat /\ n \in Nat /\ Min(Unspoken) <= n
          BY <3>1, <3>2, <5>2, DebateSlotFacts
        <5> QED BY <4>1, <5>3
      <4> QED BY <4>1
    <3>5. TurnHeld(runner[w])'
      <4> HIDE DEF Unspoken
      <4> QED BY <1>0, <3>3, <3>4, DebateSlotFacts DEF TurnHeld, Placed, Called
    <3> QED BY <3>3, <3>5
  <2> QED BY <1>7, <2>1, <2>2 DEF NextSpeaker
<1>8. CASE LookUpCall(w)
  <2>1. \/ RunnerLeaves(w)
        \/ \E step \in {"hold", "reserve", "admit"} : RunnerGoes(w, step)
        \/ debate.attempt[runner[w].slot] # "none" /\ RunnerGoes(w, "value")
    BY <1>8 DEF LookUpCall
  <2>2. ASSUME NEW step \in {"hold", "reserve", "admit", "value"}, RunnerGoes(w, step),
               step = "value" => debate.attempt[runner[w].slot] # "none"
        PROVE  /\ runner' \in [Runners -> RunnerStates]
               /\ TurnHeld(runner[w])' /\ \A x \in Runners \ {w} : runner'[x] = runner[x]
    <3>1. /\ runner' \in [Runners -> RunnerStates] /\ Placed(runner[w])'
          /\ runner'[w].at = step /\ runner'[w].slot = runner[w].slot
          /\ \A x \in Runners \ {w} : runner'[x] = runner[x]
      BY <1>1, <2>2, RunnerHolds DEF RunnerSteps
    <3> QED BY <1>0, <2>2, <3>1 DEF TurnHeld, Called
  <2> QED BY <1>4, <2>1, <2>2
<1>9. CASE ReadValue(w)
  <2> DEFINE s == runner[w].slot
  <2>1. \/ RunnerLeaves(w) \/ Reviews(w, Unreviewed(debate), "turn") \/ RunnerGoes(w, "hold")
        \/ /\ ~PendingCall(debate.attempt[s]) /\ debate.attempt[s] # "failed" /\ debate.output[s] # "bad"
           /\ RunnerGoes(w, "use")
    BY <1>9 DEF ReadValue
  <2>2. ASSUME NEW step \in {"hold", "use"}, RunnerGoes(w, step),
               step = "use" => debate.attempt[s] = "completed" /\ debate.output[s] # "bad"
        PROVE  /\ runner' \in [Runners -> RunnerStates]
               /\ TurnHeld(runner[w])' /\ \A x \in Runners \ {w} : runner'[x] = runner[x]
    <3>1. /\ runner' \in [Runners -> RunnerStates] /\ Placed(runner[w])'
          /\ runner'[w].at = step /\ runner'[w].slot = runner[w].slot
          /\ \A x \in Runners \ {w} : runner'[x] = runner[x]
      BY <1>1, <2>2, RunnerHolds DEF RunnerSteps
    <3> QED BY <1>0, <2>2, <3>1 DEF TurnHeld, Called
  <2>3. ~PendingCall(debate.attempt[s]) /\ debate.attempt[s] # "failed" => debate.attempt[s] = "completed"
    <3>1. s \in DebateSlots /\ debate.attempt[s] \in AttemptStates \ {"reconciled"}
      BY <1>0 DEF DebateTypes, DebateRecords, RunnerStates
    <3>2. debate.attempt[s] # "none"
      BY <1>0, <1>9 DEF TurnHeld, Called, ReadValue
    <3> QED BY <3>1, <3>2 DEF PendingCall, OpenAttempt, AttemptStates
  <2> QED BY <1>4, <1>5, <2>1, <2>2, <2>3
<1>10. CASE RunnerStops(w)
  BY <1>4, <1>10 DEF RunnerStops
<1> QED BY <1>6, <1>7, <1>8, <1>9, <1>10

\* Steps that may close the debate.
LEMMA RunnerCloses ==
    ASSUME DebateInv, NEW w \in Runners, Conclude(w) \/ Adjudicate(w) \/ HoldDebate(w)
    PROVE  DebateInv'
<1>0. /\ DebateTypes /\ TurnHeld(runner[w]) /\ RoomInOrder
      /\ UNCHANGED <<room, debateBooked, heard, debateFaults>>
      /\ debate.messages \subseteq Messages /\ runner \in [Runners -> RunnerStates]
  <2>1. UNCHANGED <<room, debateBooked, heard, debateFaults>>
    BY DEF Conclude, Adjudicate, HoldDebate, debateBounds
  <2>2. DebateTypes /\ TurnHeld(runner[w]) /\ RoomInOrder
    BY DEF DebateInv, TurnsHeld
  <2> QED BY <2>1, <2>2 DEF DebateTypes, DebateRecords
<1>1. debate' = debate \/ \E outcome \in {"decided", "held"} : debate' = Closed(outcome)
  <2>1. CASE Conclude(w) \/ HoldDebate(w)
    BY <2>1 DEF Conclude, HoldDebate
  <2>2. CASE Adjudicate(w)
    <3>1. debate' = debate \/ debate' = Closed(debate.output[Final])
      BY <2>2 DEF Adjudicate
    <3>2. debate.output[Final] \in {"decided", "held"}
      <4>1. debate.attempt[Final] = "completed" /\ debate.output[Final] # "bad"
        BY <1>0, <2>2 DEF TurnHeld, Called, Adjudicate
      <4>2. debate.output[Final] \in Outputs(Final) \cup {"none"} /\ debate.output[Final] # "none"
        BY <1>0, <4>1, DebateSlotFacts DEF DebateTypes, RoomInOrder
      <4> QED BY <4>1, <4>2, DebateSlotFacts
    <3> QED BY <3>1, <3>2
  <2> QED BY <2>1, <2>2
<1>2. DebateGrows /\ debate' \in DebateRecords
  BY <1>0, <1>1 DEF DebateGrows, DebateTypes, DebateRecords, Closed
<1>3. /\ runner' \in [Runners -> RunnerStates]
      /\ TurnHeld(runner[w])' /\ \A x \in Runners \ {w} : runner'[x] = runner[x]
  <2>1. CASE RunnerLeaves(w)
    BY <1>2, <2>1, RunnerHolds
  <2>2. CASE RunnerGoes(w, "hold")
    <3>1. /\ runner' \in [Runners -> RunnerStates] /\ Placed(runner[w])'
          /\ runner'[w].at = "hold" /\ \A x \in Runners \ {w} : runner'[x] = runner[x]
      BY <1>2, <2>2, RunnerHolds DEF RunnerSteps
    <3> QED BY <3>1 DEF TurnHeld, Called
  <2>3. CASE RunnerCalls(w, Final) /\ debate' = debate
    <3>1. /\ runner' \in [Runners -> RunnerStates]
          /\ runner'[w].at = "look" /\ runner'[w].slot = Final
          /\ runner'[w].todo = runner[w].todo
          /\ \A x \in Runners \ {w} : runner'[x] = runner[x]
      BY <1>0, <2>3, DebateSlotFacts, RunnerMoves
    <3> QED BY <1>0, <2>3, <3>1, DebateSlotFacts DEF TurnHeld, Placed, Called
  <2> QED BY <2>1, <2>2, <2>3 DEF Conclude, Adjudicate, HoldDebate
<1>4. DebateTypes' /\ RecordHeld'
  BY <1>0, <1>1, <1>3, RecordStands DEF DebateTypes
<1> QED BY <1>2, <1>3, <1>4, TurnsStayHeld

\* Steps in the global account.
LEMMA RunnerAccounts ==
    ASSUME DebateInv, NEW w \in Runners, ReserveTurn(w) \/ SettleTurn(w) \/ MarkTurn(w)
    PROVE  DebateInv'
<1>0. /\ DebateTypes /\ TurnHeld(runner[w])
      /\ UNCHANGED <<room, debate, heard>> /\ (UNCHANGED debateFaults \/ DebateFaulty)
      /\ runner \in [Runners -> RunnerStates] /\ runner[w].slot \in DebateSlots
  <2>1. UNCHANGED <<room, debate, heard>> /\ (UNCHANGED debateFaults \/ DebateFaulty)
    BY DEF ReserveTurn, SettleTurn, MarkTurn, debateBounds, requestBounds
  <2> QED BY <2>1 DEF DebateInv, TurnsHeld, DebateTypes, RunnerStates
<1>1. DebateGrows /\ debate' \in DebateRecords /\ debateFaults' \in Nat
  BY <1>0 DEF DebateGrows, DebateTypes, DebateFaulty
<1>2. debateBooked' \in [DebateSlots -> EntryStates]
  BY <1>0
  DEF ReserveTurn, SettleTurn, MarkTurn, TurnSettles, EntrySettled, EntryMarked, EntryStates,
      DebateTypes
<1>3. /\ runner' \in [Runners -> RunnerStates]
      /\ TurnHeld(runner[w])' /\ \A x \in Runners \ {w} : runner'[x] = runner[x]
  <2>1. CASE \E step \in {"admit", "hold", "recover"} : RunnerGoes(w, step)
    <3>1. PICK step \in {"admit", "hold", "recover"} : RunnerGoes(w, step)
      BY <2>1
    <3>2. /\ runner' \in [Runners -> RunnerStates] /\ Placed(runner[w])'
          /\ runner'[w].at = step /\ \A x \in Runners \ {w} : runner'[x] = runner[x]
      BY <1>1, <3>1, RunnerHolds DEF RunnerSteps
    <3> QED BY <3>2 DEF TurnHeld, Called
  <2>2. CASE SettleTurn(w) /\ RunnerGoes(w, "keep")
    <3>1. /\ runner' \in [Runners -> RunnerStates] /\ Placed(runner[w])'
          /\ runner'[w].at = "keep" /\ runner'[w].slot = runner[w].slot
          /\ runner'[w].answer = runner[w].answer
          /\ \A x \in Runners \ {w} : runner'[x] = runner[x]
      BY <1>1, <2>2, RunnerHolds DEF RunnerSteps
    <3> QED BY <1>0, <2>2, <3>1 DEF TurnHeld, Called, SettleTurn
  <2>3. CASE SettleTurn(w) /\ runner' = [runner EXCEPT ![w].answer = "error", ![w].at = "keep"]
    <3> DEFINE refused == [runner[w] EXCEPT !.answer = "error", !.at = "keep"]
    <3>1. /\ refused \in RunnerStates /\ refused.at = "keep" /\ refused.answer = "error"
          /\ refused.slot = runner[w].slot /\ refused.todo = runner[w].todo
      BY <1>0 DEF RunnerStates, RunnerSteps, RunnerAnswers
    <3>2. runner' = [runner EXCEPT ![w] = refused]
      BY <1>0, <2>3
    <3> HIDE DEF refused
    <3>3. runner' \in [Runners -> RunnerStates] /\ runner'[w] = refused
          /\ \A x \in Runners \ {w} : runner'[x] = runner[x]
      BY <1>0, <3>1, <3>2
    <3> QED BY <1>0, <2>3, <3>1, <3>3 DEF TurnHeld, Placed, Called, SettleTurn
  <2>4. CASE MarkTurn(w)
    <3>1. /\ runner' \in [Runners -> RunnerStates] /\ Placed(runner[w])'
          /\ runner'[w].at = "value" /\ runner'[w].slot = runner[w].slot
          /\ \A x \in Runners \ {w} : runner'[x] = runner[x]
      BY <1>1, <2>4, RunnerHolds DEF RunnerSteps, MarkTurn
    <3> QED BY <1>0, <2>4, <3>1 DEF TurnHeld, Called, MarkTurn
  <2> QED BY <2>1, <2>2, <2>3, <2>4 DEF ReserveTurn, SettleTurn
<1>4. DebateTypes' /\ RecordHeld'
  BY <1>0, <1>1, <1>2, <1>3, RecordStands
<1> QED BY <1>1, <1>3, <1>4, TurnsStayHeld

\* Steps that settle an attempt, or leave one for the owner to settle.
LEMMA RunnerSettles ==
    ASSUME DebateInv, NEW w \in Runners, RecoverTurn(w) \/ TurnAnswers(w) \/ KeepAnswer(w)
    PROVE  DebateInv'
<1> DEFINE s == runner[w].slot
<1>0. /\ DebateTypes /\ TurnHeld(runner[w]) /\ RoomInOrder
      /\ UNCHANGED <<room, debateBooked, heard>> /\ (UNCHANGED debateFaults \/ DebateFaulty)
      /\ runner \in [Runners -> RunnerStates] /\ s \in DebateSlots
      /\ debate \in DebateRecords
  <2>1. UNCHANGED <<room, debateBooked, heard>> /\ (UNCHANGED debateFaults \/ DebateFaulty)
    BY DEF RecoverTurn, TurnAnswers, KeepAnswer, debateBounds, requestBounds
  <2> QED BY <2>1 DEF DebateInv, TurnsHeld, DebateTypes, RunnerStates
<1>1. /\ debate' \in DebateRecords
      /\ debate'.messages = debate.messages /\ debate'.reviews = debate.reviews
      /\ \/ debate'.attempt = debate.attempt /\ debate'.output = debate.output
         \/ /\ RecoverTurn(w) /\ debate.attempt[s] = "none"
            /\ debate'.attempt = [debate.attempt EXCEPT ![s] = "unknown"]
            /\ debate'.output = debate.output
         \/ /\ KeepAnswer(w) /\ debate.attempt[s] = "started"
            /\ \/ /\ \E state \in {"unknown", "failed"} : debate'.attempt = [debate.attempt EXCEPT ![s] = state]
                  /\ debate'.output = debate.output
               \/ /\ debate'.attempt = [debate.attempt EXCEPT ![s] = "completed"]
                  /\ debate'.output = [debate.output EXCEPT ![s] = runner[w].answer]
                  /\ runner[w].answer \in Outputs(s)
  <2>1. CASE RecoverTurn(w)
    BY <1>0, <2>1 DEF RecoverTurn, DebateRecords, AttemptStates
  <2>2. CASE TurnAnswers(w)
    <3>1. debate' = debate \/ \E u \in UsageUnder(room.limit) : debate' = [debate EXCEPT !.usage[s] = u]
      BY <2>2 DEF TurnAnswers
    <3> QED BY <1>0, <3>1, DebateSlotFacts DEF DebateRecords
  <2>3. CASE KeepAnswer(w)
    <3>1. runner[w].answer \in Outputs(s) \cup {"unknown", "error"}
      BY <1>0, <2>3 DEF KeepAnswer, TurnHeld, Called
    <3>2. CASE debate' = debate
      BY <1>0, <3>2
    <3>3. CASE debate.attempt[s] = "started" /\ debate' = [debate EXCEPT !.attempt[s] = "unknown"]
      BY <1>0, <2>3, <3>3 DEF DebateRecords, AttemptStates
    <3>4. CASE debate.attempt[s] = "started" /\ debate' = [debate EXCEPT !.attempt[s] = "failed"]
      BY <1>0, <2>3, <3>4 DEF DebateRecords, AttemptStates
    <3>5. CASE /\ debate.attempt[s] = "started" /\ runner[w].answer \in Outputs(s)
               /\ debate' = [debate EXCEPT !.attempt[s] = "completed", !.output[s] = runner[w].answer]
      <4>1. runner[w].answer \in AllOutputs
        BY <1>0, <3>5, DebateSlotFacts
      <4> QED BY <1>0, <2>3, <3>5, <4>1 DEF DebateRecords, AttemptStates
    <3> QED BY <2>3, <3>1, <3>2, <3>3, <3>4, <3>5 DEF KeepAnswer
  <2> QED BY <2>1, <2>2, <2>3
<1>2. DebateGrows
  BY <1>0, <1>1 DEF DebateGrows, DebateRecords
<1>3. /\ runner' \in [Runners -> RunnerStates]
      /\ TurnHeld(runner[w])' /\ \A x \in Runners \ {w} : runner'[x] = runner[x]
  <2>1. CASE RecoverTurn(w) \/ KeepAnswer(w)
    <3>1. PICK step \in {"value", "mark"} : RunnerGoes(w, step)
      BY <2>1 DEF RecoverTurn, KeepAnswer
    <3>2. /\ runner' \in [Runners -> RunnerStates] /\ Placed(runner[w])'
          /\ runner'[w].at = step /\ runner'[w].slot = s
          /\ \A x \in Runners \ {w} : runner'[x] = runner[x]
      BY <1>1, <1>2, <3>1, RunnerHolds DEF RunnerSteps
    <3>3. debate'.attempt[s] # "none"
      <4>1. CASE RecoverTurn(w)
        BY <1>0, <4>1 DEF RecoverTurn, DebateRecords
      <4>2. CASE KeepAnswer(w)
        BY <1>0, <1>2, <4>2 DEF KeepAnswer, TurnHeld, Called, DebateGrows
      <4> QED BY <2>1, <4>1, <4>2
    <3> QED BY <3>2, <3>3 DEF TurnHeld, Called
  <2>2. CASE TurnAnswers(w)
    <3>1. PICK answer \in Outputs(s) \cup {"unknown", "error"}, step \in {"settle", "keep"} :
             runner' = [runner EXCEPT ![w].answer = answer, ![w].at = step]
      BY <2>2 DEF TurnAnswers
    <3> DEFINE told == [runner[w] EXCEPT !.answer = answer, !.at = step]
    <3>2. answer \in RunnerAnswers
      BY <1>0, <3>1, DebateSlotFacts DEF RunnerAnswers
    <3>3. /\ told \in RunnerStates /\ told.at = step /\ told.answer = answer
          /\ told.slot = s /\ told.todo = runner[w].todo
      BY <1>0, <3>2 DEF RunnerStates, RunnerSteps
    <3>4. runner' = [runner EXCEPT ![w] = told]
      BY <1>0, <3>1
    <3> HIDE DEF told
    <3>5. runner' \in [Runners -> RunnerStates] /\ runner'[w] = told
          /\ \A x \in Runners \ {w} : runner'[x] = runner[x]
      BY <1>0, <3>3, <3>4
    <3>6. Placed(runner[w])'
      BY <1>0, <1>1, <3>3, <3>5 DEF TurnHeld, Placed
    <3>7. Called(runner[w])'
      BY <1>0, <1>2, <2>2, <3>1, <3>3, <3>5 DEF TurnHeld, Called, TurnAnswers, DebateGrows
    <3> QED BY <3>5, <3>6, <3>7 DEF TurnHeld
  <2> QED BY <2>1, <2>2
<1>4. DebateTypes'
  <2>1. \A t \in DebateSlots : debate'.output[t] \in Outputs(t) \cup {"none"}
    BY <1>0, <1>1 DEF DebateTypes, DebateRecords
  <2>2. debateFaults' \in Nat
    BY <1>0 DEF DebateTypes, DebateFaulty
  <2> QED BY <1>0, <1>1, <1>3, <2>1, <2>2 DEF DebateTypes
<1>5. RecordHeld'
  <2>1. \A t \in DebateSlots :
           /\ debate'.attempt[t] = "none" => debate.attempt[t] = "none"
           /\ debate'.attempt[t] = "started" => debate.attempt[t] = "started"
    BY <1>0, <1>1 DEF DebateRecords
  <2>2. "none" \notin Outputs(s)
    BY <1>0, DebateSlotFacts DEF AllOutputs
  <2>3. \A t \in DebateSlots : debate'.attempt[t] = "completed" => debate'.output[t] # "none"
    BY <1>0, <1>1, <2>2 DEF RoomInOrder, DebateRecords
  <2> QED BY <1>0, <1>1, <1>2, <1>4, <2>1, <2>3, DebateSettles
<1> QED BY <1>2, <1>3, <1>4, <1>5, TurnsStayHeld

\* Steps that put what a settled call said into the room.
LEMMA RunnerPosts ==
    ASSUME DebateInv, NEW w \in Runners, AppendMessage(w) \/ RecordReview(w)
    PROVE  DebateInv'
<1> DEFINE s == runner[w].slot
           n == runner[w].slot[2]
<1>0. /\ DebateTypes /\ TurnHeld(runner[w]) /\ RoomInOrder
      /\ UNCHANGED <<room, debateBooked, heard, debateFaults>>
      /\ runner \in [Runners -> RunnerStates] /\ s \in DebateSlots
      /\ debate \in DebateRecords
  <2>1. UNCHANGED <<room, debateBooked, heard, debateFaults>>
    BY DEF AppendMessage, RecordReview, debateBounds
  <2> QED BY <2>1 DEF DebateInv, TurnsHeld, DebateTypes, RunnerStates
<1>1. n \in Messages
  BY <1>0, DebateSlotFacts DEF AppendMessage, RecordReview
<1>2. /\ debate' \in DebateRecords
      /\ debate'.attempt = debate.attempt /\ debate'.output = debate.output
      /\ \/ debate'.messages = debate.messages /\ debate'.reviews = debate.reviews
         \/ /\ AppendMessage(w)
            /\ debate'.messages = debate.messages \cup {n} /\ debate'.reviews = debate.reviews
         \/ /\ RecordReview(w)
            /\ debate'.messages = debate.messages /\ debate'.reviews = debate.reviews \cup {n}
  <2>1. \/ debate' = debate
        \/ AppendMessage(w) /\ debate' = [debate EXCEPT !.messages = @ \cup {n}]
        \/ RecordReview(w) /\ debate' = [debate EXCEPT !.reviews = @ \cup {n}]
    BY DEF AppendMessage, RecordReview
  <2> QED BY <1>0, <1>1, <2>1 DEF DebateRecords
<1>3. DebateGrows
  BY <1>0, <1>2 DEF DebateGrows, DebateRecords
<1>4. /\ runner' \in [Runners -> RunnerStates]
      /\ TurnHeld(runner[w])' /\ \A x \in Runners \ {w} : runner'[x] = runner[x]
  <2>1. CASE RunnerGoes(w, "hold")
    <3>1. /\ runner' \in [Runners -> RunnerStates] /\ Placed(runner[w])'
          /\ runner'[w].at = "hold" /\ \A x \in Runners \ {w} : runner'[x] = runner[x]
      BY <1>2, <1>3, <2>1, RunnerHolds DEF RunnerSteps
    <3> QED BY <3>1 DEF TurnHeld, Called
  <2>2. CASE \E todo \in SUBSET debate'.messages, then \in {"turn", "conclude"} : Reviews(w, todo, then)
    BY <1>2, <1>3, <2>2, RunnerHolds
  <2>3. Unreviewed(debate') \in SUBSET debate'.messages
    BY <1>0, <1>2 DEF Unreviewed
  <2>4. runner[w].todo \ debate'.reviews \in SUBSET debate'.messages /\ runner[w].then \in {"turn", "conclude"}
    BY <1>0, <1>3 DEF TurnHeld, Placed, DebateGrows, RunnerStates
  <2> QED BY <2>1, <2>2, <2>3, <2>4 DEF AppendMessage, RecordReview
<1>5. DebateTypes'
  BY <1>0, <1>2, <1>4 DEF DebateTypes
<1>6. RecordHeld'
  <2>1. debate.attempt[s] = "completed"
    BY <1>0 DEF TurnHeld, Called, AppendMessage, RecordReview
  <2>2. /\ debate.messages \subseteq Messages /\ debate.reviews \subseteq Messages
        /\ Messages \subseteq Nat
    BY <1>0, DebateSlotFacts DEF DebateRecords
  <2>3. \A m \in debate'.messages : /\ debate'.attempt[Speak(m)] = "completed"
                                    /\ \A l \in Messages : l < m => l \in debate'.messages
    <3>1. CASE debate'.messages = debate.messages
      BY <1>0, <1>2, <3>1 DEF RoomInOrder
    <3>2. CASE AppendMessage(w) /\ debate'.messages = debate.messages \cup {n}
      <4>1. s = Speak(n) /\ \A l \in Messages : l < n => l \in debate.messages
        BY <1>0, <3>2, DebateSlotFacts DEF AppendMessage, TurnHeld, Placed
      <4> QED BY <1>0, <1>2, <2>1, <3>2, <4>1 DEF RoomInOrder
    <3> QED BY <1>2, <3>1, <3>2
  <2>4. \A m \in debate'.reviews : debate'.attempt[Review(m)] = "completed" /\ m \in debate'.messages
    <3>1. CASE debate'.reviews = debate.reviews
      BY <1>0, <1>2, <3>1 DEF RoomInOrder
    <3>2. CASE RecordReview(w) /\ debate'.reviews = debate.reviews \cup {n}
      <4>1. s = Review(n) /\ n \in debate.messages
        BY <1>0, <3>2, DebateSlotFacts DEF RecordReview, TurnHeld, Placed
      <4> QED BY <1>0, <1>2, <2>1, <3>2, <4>1 DEF RoomInOrder
    <3> QED BY <1>2, <3>1, <3>2
  <2>5. RoomInOrder'
    <3>1. \A t \in DebateSlots : debate'.attempt[t] = "completed" => debate'.output[t] # "none"
      BY <1>0, <1>2 DEF RoomInOrder
    <3> QED BY <2>3, <2>4, <3>1 DEF RoomInOrder
  <2>6. SlotsHeardOnce'
    BY <1>0, <1>2 DEF DebateInv, SlotsHeardOnce
  <2>7. HeardWithinCalls'
    BY <1>0 DEF DebateInv, HeardWithinCalls
  <2> QED BY <2>5, <2>6, <2>7 DEF RecordHeld
<1> QED BY <1>3, <1>4, <1>5, <1>6, TurnsStayHeld

\* The step that may send a call: the slot is free, no other call is out, and the budget has
\* room for one more.
LEMMA RunnerAdmits ==
    ASSUME DebateInv, NEW w \in Runners, AdmitTurn(w)
    PROVE  DebateInv'
<1> DEFINE s == runner[w].slot
<1>0. /\ DebateTypes /\ TurnHeld(runner[w]) /\ RoomInOrder /\ SlotsHeardOnce /\ HeardWithinCalls
      /\ UNCHANGED <<room, debateBooked, debateFaults>>
      /\ runner \in [Runners -> RunnerStates] /\ s \in DebateSlots
      /\ debate \in DebateRecords
  <2>1. UNCHANGED <<room, debateBooked, debateFaults>>
    BY DEF AdmitTurn, debateBounds
  <2> QED BY <2>1 DEF DebateInv, TurnsHeld, DebateTypes, RunnerStates
<1>1. CASE UNCHANGED <<debate, heard>>
  <2>1. DebateGrows
    BY <1>0, <1>1 DEF DebateGrows
  <2>2. \/ RunnerLeaves(w) \/ RunnerGoes(w, "hold")
        \/ RunnerGoes(w, "value") /\ debate.attempt[s] # "none"
    <3>1. debate' = [debate EXCEPT !.attempt[s] = "started"] => debate'.attempt[s] = "started"
      BY <1>0 DEF DebateRecords
    <3> QED BY <1>1, <3>1 DEF AdmitTurn, SlotTaken
  <2>3. /\ runner' \in [Runners -> RunnerStates]
        /\ TurnHeld(runner[w])' /\ \A x \in Runners \ {w} : runner'[x] = runner[x]
    <3>1. CASE RunnerLeaves(w)
      BY <1>0, <1>1, <2>1, <3>1, RunnerHolds
    <3>2. ASSUME NEW step \in {"hold", "value"}, RunnerGoes(w, step),
                 step = "value" => debate.attempt[s] # "none"
          PROVE  /\ runner' \in [Runners -> RunnerStates]
                 /\ TurnHeld(runner[w])' /\ \A x \in Runners \ {w} : runner'[x] = runner[x]
      <4>1. /\ runner' \in [Runners -> RunnerStates] /\ Placed(runner[w])'
            /\ runner'[w].at = step /\ runner'[w].slot = s
            /\ \A x \in Runners \ {w} : runner'[x] = runner[x]
        BY <1>0, <1>1, <2>1, <3>2, RunnerHolds DEF RunnerSteps
      <4> QED BY <1>1, <3>2, <4>1 DEF TurnHeld, Called
    <3> QED BY <2>2, <3>1, <3>2
  <2>4. DebateTypes' /\ RecordHeld'
    BY <1>0, <1>1, <2>3, RecordStands DEF DebateTypes
  <2> QED BY <2>1, <2>3, <2>4, TurnsStayHeld
<1>2. CASE /\ ~SlotTaken(s) /\ ~CallOut /\ ~Overspent(TRUE)
           /\ RunnerGoes(w, "asking")
           /\ debate' = [debate EXCEPT !.attempt[s] = "started"]
           /\ heard' = [heard EXCEPT ![s] = @ + 1]
  <2>1. /\ debate' \in DebateRecords
        /\ debate'.messages = debate.messages /\ debate'.reviews = debate.reviews
        /\ debate'.output = debate.output
        /\ debate'.attempt = [debate.attempt EXCEPT ![s] = "started"]
        /\ debate.attempt[s] = "none"
    BY <1>0, <1>2 DEF DebateRecords, AttemptStates, SlotTaken
  <2>2. DebateGrows
    BY <1>0, <2>1 DEF DebateGrows, DebateRecords
  <2>3. /\ runner' \in [Runners -> RunnerStates]
        /\ TurnHeld(runner[w])' /\ \A x \in Runners \ {w} : runner'[x] = runner[x]
    <3>1. /\ runner' \in [Runners -> RunnerStates] /\ Placed(runner[w])'
          /\ runner'[w].at = "asking" /\ runner'[w].slot = s
          /\ \A x \in Runners \ {w} : runner'[x] = runner[x]
      BY <1>2, <2>1, <2>2, RunnerHolds DEF RunnerSteps
    <3>2. debate'.attempt[s] # "none"
      BY <1>0, <2>1 DEF DebateRecords
    <3> QED BY <3>1, <3>2 DEF TurnHeld, Called
  <2>4. DebateTypes'
    BY <1>0, <1>2, <2>1, <2>3 DEF DebateTypes
  <2>5. RoomInOrder'
    <3>1. debate.messages \subseteq Messages /\ debate.reviews \subseteq Messages
      BY <1>0 DEF DebateRecords
    <3> DEFINE isSlot(n) == Speak(n) \in DebateSlots /\ Review(n) \in DebateSlots
    <3>2. \A n \in Messages : isSlot(n)
      BY DebateSlotFacts
    <3> QED BY <1>0, <2>1, <3>1, <3>2 DEF RoomInOrder, DebateRecords
  <2>6. SlotsHeardOnce'
    <3>1. \A t \in DebateSlots : debate.attempt[t] # "started"
      BY <1>2 DEF CallOut, OpenAttempt
    <3>2. heard[s] = 0 /\ heard'[s] = 1 /\ \A t \in DebateSlots \ {s} : heard'[t] = heard[t]
      BY <1>0, <1>2, <2>1 DEF SlotsHeardOnce, DebateTypes
    <3>3. debate'.attempt[s] = "started" /\ \A t \in DebateSlots \ {s} : debate'.attempt[t] = debate.attempt[t]
      BY <1>0, <2>1 DEF DebateRecords
    <3> QED BY <1>0, <3>1, <3>2, <3>3 DEF SlotsHeardOnce
  <2>7. HeardWithinCalls'
    <3> SUFFICES ASSUME room.limit = "calls"
                 PROVE  Cardinality({t \in DebateSlots : heard'[t] > 0}) <= CallBudget
      BY <1>0 DEF HeardWithinCalls
    <3>1. IsFiniteSet(DebateCalls)
      <4>1. DebateCalls \in SUBSET DebateSlots
        BY DEF DebateCalls
      <4> QED BY <4>1, DebateSlotFacts, FS_Subset
    <3>2. Cardinality(DebateCalls) + 1 <= CallBudget
      <4>1. Cardinality(DebateCalls) \in Nat
        BY <3>1, FS_CardinalityType
      <4> QED BY <1>2, <4>1, CallBudgetAssumption DEF Overspent, OverBudget
    <3>3. {t \in DebateSlots : heard[t] > 0} \subseteq DebateCalls
      BY <1>0 DEF SlotsHeardOnce, DebateCalls, DebateTypes
    <3>4. {t \in DebateSlots : heard'[t] > 0} \subseteq {t \in DebateSlots : heard[t] > 0} \cup {s}
      BY <1>0, <1>2 DEF DebateTypes
    <3> HIDE DEF DebateCalls
    <3> QED BY <3>1, <3>2, <3>3, <3>4, OneCallMore
  <2> QED BY <2>2, <2>3, <2>4, <2>5, <2>6, <2>7, TurnsStayHeld DEF RecordHeld
<1> QED BY <1>1, <1>2 DEF AdmitTurn

\* What the owner does: a call is settled, or only its entry in the account.
LEMMA OwnerReconciles ==
    ASSUME DebateInv, ReconcileTurn \/ ReconcileTurnStops
    PROVE  DebateInv'
<1>0. /\ DebateTypes /\ RoomInOrder /\ UNCHANGED <<room, runner, heard, debateFaults>>
      /\ debate \in DebateRecords
  BY DEF DebateInv, DebateTypes, ReconcileTurn, ReconcileTurnStops
<1>1. debateBooked' \in [DebateSlots -> EntryStates]
  BY <1>0
  DEF ReconcileTurn, ReconcileTurnStops, TurnSettles, EntrySettled, EntryStates, DebateTypes,
      DebateCalls
<1>2. CASE ReconcileTurnStops
  <2>1. DebateTypes' /\ DebateGrows /\ RecordHeld'
    BY <1>0, <1>1, <1>2, RecordStands DEF ReconcileTurnStops, DebateTypes
  <2> QED BY <1>0, <2>1, TurnsStayHeld
<1>3. CASE ReconcileTurn
  <2>1. PICK s \in DebateSlots, u \in UsageUnder(room.limit) :
           /\ OpenAttempt(debate.attempt[s])
           /\ LET given == [debate EXCEPT !.usage[s] = IF u = "missing" THEN @ ELSE u] IN
              \/ debate' = [given EXCEPT !.attempt[s] = "failed"]
              \/ \E output \in Outputs(s) :
                   debate' = [given EXCEPT !.attempt[s] = "completed", !.output[s] = output]
    BY <1>3 DEF ReconcileTurn
  <2> DEFINE given == [debate EXCEPT !.usage[s] = IF u = "missing" THEN @ ELSE u]
  <2>2. /\ given \in DebateRecords /\ given.attempt = debate.attempt /\ given.output = debate.output
        /\ given.messages = debate.messages /\ given.reviews = debate.reviews
    BY <1>0, DebateSlotFacts DEF DebateRecords
  <2>3. /\ debate' \in DebateRecords
        /\ debate'.messages = debate.messages /\ debate'.reviews = debate.reviews
        /\ \/ /\ debate'.attempt = [debate.attempt EXCEPT ![s] = "failed"]
              /\ debate'.output = debate.output
           \/ \E output \in Outputs(s) :
                /\ debate'.attempt = [debate.attempt EXCEPT ![s] = "completed"]
                /\ debate'.output = [debate.output EXCEPT ![s] = output]
    <3> HIDE DEF given
    <3>1. CASE debate' = [given EXCEPT !.attempt[s] = "failed"]
      BY <2>2, <3>1 DEF DebateRecords, AttemptStates
    <3>2. ASSUME NEW output \in Outputs(s),
                 debate' = [given EXCEPT !.attempt[s] = "completed", !.output[s] = output]
          PROVE  /\ debate' \in DebateRecords
                 /\ debate'.messages = debate.messages /\ debate'.reviews = debate.reviews
                 /\ debate'.attempt = [debate.attempt EXCEPT ![s] = "completed"]
                 /\ debate'.output = [debate.output EXCEPT ![s] = output]
      <4>1. output \in AllOutputs
        BY <3>2, DebateSlotFacts
      <4> QED BY <2>2, <3>2, <4>1 DEF DebateRecords, AttemptStates
    <3> QED BY <2>1, <3>1, <3>2 DEF given
  <2>4. DebateGrows
    BY <1>0, <2>1, <2>3 DEF DebateGrows, DebateRecords, OpenAttempt
  <2>5. DebateTypes'
    <3>1. \A t \in DebateSlots : debate'.output[t] \in Outputs(t) \cup {"none"}
      BY <1>0, <2>3 DEF DebateTypes, DebateRecords
    <3> QED BY <1>0, <1>1, <2>3, <3>1 DEF DebateTypes
  <2>6. RecordHeld'
    <3>1. "none" \notin Outputs(s)
      BY DebateSlotFacts DEF AllOutputs
    <3>2. \A t \in DebateSlots :
             /\ debate'.attempt[t] = "none" => debate.attempt[t] = "none"
             /\ debate'.attempt[t] = "started" => debate.attempt[t] = "started"
             /\ debate'.attempt[t] = "completed" => debate'.output[t] # "none"
      BY <1>0, <2>3, <3>1 DEF RoomInOrder, DebateRecords
    <3> QED BY <1>0, <2>3, <2>4, <2>5, <3>2, DebateSettles
  <2> QED BY <1>0, <2>4, <2>5, <2>6, TurnsStayHeld
<1> QED BY <1>2, <1>3

LEMMA DebateStep ==
    ASSUME DebateInv, [DebateNext]_debateVars
    PROVE  DebateInv'
<1>1. CASE UNCHANGED debateVars
  <2>1. DebateTypes' /\ DebateGrows /\ RecordHeld'
    BY <1>1, RecordStands DEF debateVars, DebateInv, DebateTypes
  <2> QED BY <1>1, <2>1, TurnsStayHeld DEF debateVars
<1>2. ASSUME NEW w \in Runners, RunnerTurn(w) PROVE DebateInv'
  BY <1>2, RunnerReads, RunnerCloses, RunnerAccounts, RunnerSettles, RunnerPosts, RunnerAdmits
     DEF RunnerTurn
<1> QED BY <1>1, <1>2, OwnerReconciles DEF DebateNext

LEMMA DebateInvariant == DebateSpec => []DebateInv
<1> QED BY DebateStart, DebateStep, PTL DEF DebateSpec

\* Every reachable record of a debate, with the outputs its slots may hold, is well typed.
THEOREM DebateTypeCorrect == DebateSpec => []DebateTypeOK
<1>1. DebateInv => DebateTypeOK
  BY DEF DebateInv, DebateTypes, DebateTypeOK, DebateRecords
<1> QED BY <1>1, DebateInvariant, PTL

\* However many runners drive it, a debate asks every turn, review and verdict once at most,
\* one at a time and within the budget, and its messages stand in the order of the turns.
THEOREM EverySlotHeardOnce == DebateSpec => []HeardOnce
<1>1. DebateInv => HeardOnce
  <2> SUFFICES ASSUME DebateInv PROVE HeardOnce
    OBVIOUS
  <2>1. Cardinality({s \in DebateSlots : debate.attempt[s] = "started"}) <= 1
    BY AtMostOne DEF DebateInv, SlotsHeardOnce
  <2>2. ASSUME NEW n \in debate.messages PROVE 1 .. n \subseteq debate.messages
    <3>1. /\ debate.messages \subseteq Messages
          /\ \A m \in Messages : m < n => m \in debate.messages
      BY DEF DebateInv, DebateTypes, DebateRecords, RoomInOrder
    <3> QED BY <3>1, DebateAssumption DEF Messages
  <2> QED BY <2>1, <2>2 DEF DebateInv, SlotsHeardOnce, HeardWithinCalls, RoomInOrder, HeardOnce
<1> QED BY <1>1, DebateInvariant, PTL

\* The step with which a runner leaves closed the debate or found a call open, unless the
\* runner crashed: there is no step that ends a run and leaves an active debate with nobody
\* to wait for.
LEMMA RunnerLeavesNothing ==
    ASSUME DebateInv, [DebateNext]_debateVars, NEW w \in Runners,
           runner[w].at # "idle", runner'[w].at = "idle", debateFaults' = debateFaults
    PROVE  debate'.status = "closed" \/ CallOut'
<1>0. /\ DebateTypes /\ debate \in DebateRecords /\ runner \in [Runners -> RunnerStates]
      /\ debateFaults \in Nat /\ runner[w].slot \in DebateSlots
      /\ runner[w].then \in {"turn", "conclude"}
  BY DEF DebateInv, DebateTypes, RunnerStates
<1>1. ~DebateActive => debate.status = "closed"
  BY <1>0 DEF DebateActive, DebateRecords
<1>2. \A outcome : Closed(outcome).status = "closed"
  BY <1>0 DEF Closed, DebateRecords
<1>3. \A step \in RunnerSteps : RunnerGoes(w, step) => runner'[w].at = step
  BY <1>0, RunnerMoves
<1>4. /\ \A slot \in DebateSlots : ~RunnerCalls(w, slot)
      /\ \A todo \in SUBSET Messages, then \in {"turn", "conclude"} : ~Reviews(w, todo, then)
  <2>1. ASSUME NEW slot \in DebateSlots, RunnerCalls(w, slot) PROVE FALSE
    BY <1>0, <2>1, RunnerMoves
  <2>2. ASSUME NEW todo \in SUBSET Messages, NEW then \in {"turn", "conclude"}, Reviews(w, todo, then)
        PROVE  FALSE
    BY <1>0, <2>2, RunnerMoves
  <2> QED BY <2>1, <2>2
<1>5. ~(\E step \in RunnerSteps \ {"idle"} : RunnerGoes(w, step))
  BY <1>3
<1>6. \A d \in DebateRecords : Unreviewed(d) \in SUBSET Messages
  BY DEF Unreviewed, DebateRecords
<1>7. \A x \in Runners : RunnerTurn(x) => x = w
  <2>1. ASSUME NEW x \in Runners, RunnerTurn(x), x # w PROVE FALSE
    <3>1. runner'[w] = runner[w]
      BY <1>0, <2>1
         DEF RunnerTurn, RunDebate, NextSpeaker, Conclude, LookUpCall, ReserveTurn, RecoverTurn,
             AdmitTurn,
             TurnAnswers, SettleTurn, KeepAnswer, MarkTurn, ReadValue, AppendMessage, RecordReview,
             Adjudicate, HoldDebate, RunnerStops, RunnerGoes, RunnerLeaves, RunnerCalls, Reviews
    <3> QED BY <3>1
  <2> QED BY <2>1
<1>8. RunnerTurn(w)
  <2>1. runner' # runner
    OBVIOUS
  <2> QED BY <1>7, <2>1 DEF DebateNext, debateVars, ReconcileTurn, ReconcileTurnStops
<1>9. CASE NextSpeaker(w)
  <2>1. Unspoken # {} => Speak(Min(Unspoken)) \in DebateSlots
    <3>1. Unspoken \subseteq Messages
      BY <1>0, DebateAssumption DEF Unspoken, Messages, DebateTypes
    <3> QED BY <3>1, DebateSlotFacts, MinIsLeast
  <2>2. ~DebateActive /\ debate' = debate
    BY <1>0, <1>4, <1>6, <1>9, <2>1 DEF NextSpeaker
  <2> QED BY <1>1, <2>2
<1>10. CASE Conclude(w)
  BY <1>1, <1>2, <1>4, <1>5, <1>10, DebateSlotFacts DEF Conclude, RunnerSteps
<1>11. CASE LookUpCall(w) \/ AdmitTurn(w)
  <2>1. (~DebateActive \/ CallOut) /\ debate' = debate
    <3>1. CASE LookUpCall(w)
      BY <1>5, <3>1 DEF LookUpCall, RunnerSteps
    <3>2. CASE AdmitTurn(w)
      BY <1>5, <3>2 DEF AdmitTurn, RunnerSteps
    <3> QED BY <1>11, <3>1, <3>2
  <2> QED BY <1>1, <2>1 DEF CallOut
<1>12. CASE ReadValue(w)
  <2>1. OpenAttempt(debate.attempt[runner[w].slot]) /\ debate' = debate
    BY <1>0, <1>4, <1>5, <1>6, <1>12 DEF ReadValue, RunnerSteps, PendingCall
  <2> QED BY <1>0, <2>1 DEF CallOut
<1>13. CASE Adjudicate(w)
  BY <1>2, <1>5, <1>13 DEF Adjudicate, RunnerSteps
<1>14. CASE HoldDebate(w)
  BY <1>1, <1>2, <1>14 DEF HoldDebate
<1>15. CASE RunnerStops(w)
  BY <1>0, <1>15 DEF RunnerStops, DebateFaulty
<1>16. CASE RunDebate(w)
  BY <1>16 DEF RunDebate
<1>17. CASE TurnAnswers(w)
  <2>1. PICK step \in {"settle", "keep"} :
           \E answer : runner' = [runner EXCEPT ![w].answer = answer, ![w].at = step]
    BY <1>17 DEF TurnAnswers
  <2>2. runner'[w].at = step
    BY <1>0, <2>1 DEF RunnerStates
  <2> QED BY <2>2
<1>18. CASE ReserveTurn(w) \/ RecoverTurn(w) \/ SettleTurn(w) \/ KeepAnswer(w) \/ MarkTurn(w)
  <2>1. runner' = [runner EXCEPT ![w].answer = "error", ![w].at = "keep"] => runner'[w].at = "keep"
    BY <1>0 DEF RunnerStates
  <2> QED BY <1>5, <1>18, <2>1
          DEF ReserveTurn, RecoverTurn, SettleTurn, KeepAnswer, MarkTurn, RunnerSteps
<1>19. CASE AppendMessage(w) \/ RecordReview(w)
  <2>1. \/ RunnerGoes(w, "hold") \/ Reviews(w, Unreviewed(debate'), "turn")
        \/ Reviews(w, runner[w].todo \ debate'.reviews, runner[w].then)
    BY <1>19 DEF AppendMessage, RecordReview
  <2>2. debate' \in DebateRecords /\ runner[w].todo \subseteq Messages
    BY <1>0, DebateStep DEF DebateInv, DebateTypes, RunnerStates
  <2>3. runner[w].todo \ debate'.reviews \in SUBSET Messages
    BY <2>2
  <2> QED BY <1>0, <1>4, <1>5, <1>6, <2>1, <2>2, <2>3 DEF RunnerSteps
<1> QED BY <1>8, <1>9, <1>10, <1>11, <1>12, <1>13, <1>14, <1>15, <1>16, <1>17, <1>18, <1>19
        DEF RunnerTurn

\* A runner that leaves, other than by a crash, leaves a closed debate or an open call.
THEOREM RunsEndOrWait == DebateSpec => RunEndsOrWaits
<1>1. DebateInv /\ [DebateNext]_debateVars =>
         [\A w \in Runners :
              runner[w].at # "idle" /\ runner'[w].at = "idle" /\ debateFaults' = debateFaults
              => debate'.status = "closed" \/ CallOut']_debateVars
  BY RunnerLeavesNothing
<1> QED BY <1>1, DebateInvariant, PTL DEF DebateSpec, RunEndsOrWaits
=============================================================================
