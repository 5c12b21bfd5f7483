------------------------------ MODULE Competition ------------------------------
(* One competition of collaboration-service.ts: every participant is asked for a     *)
(* candidate in turn, then an independent evaluator is asked to score them.  Several *)
(* workers may run it at once and the owner may act on it meanwhile.  The stored     *)
(* record changes atomically (mutateCompetition holds its lock); a worker may stop   *)
(* between any two of its steps, and every call it makes is first reserved in the    *)
(* record and, where there is one, in an account of the global budget.               *)
EXTENDS CollaborationCalls

CONSTANTS
    ParticipantCount,         \* brief.participantAgentIds, asked in this order
    Contenders,               \* requests and trigger pumps that run the competition
    MaxCompetitionRequests,   \* bound: times it is run, and other requests of the owner
    MaxCompetitionFaults      \* bound: workers that stop, calls without a usable answer, refusals

ASSUME CompetitionAssumption ==
    /\ ParticipantCount \in Nat \ {0}
    /\ MaxCompetitionRequests \in Nat /\ MaxCompetitionFaults \in Nat

Participants == 1 .. ParticipantCount
Evaluator == ParticipantCount + 1
Slots == 1 .. Evaluator
ClosedCompetition == {"completed", "partial", "failed"}

VARIABLES
    brief,         \* what the budget limits, and whether a global account is kept
    competition,   \* status, candidates, scores; of every slot the attempt and its usage
    booked,        \* [slot -> entry of its key in the global account]
    contender,     \* [worker -> step, slot, candidates it read for the evaluator, answer]
    asked,         \* history: [slot -> calls admitted]
    competitionRequests, competitionFaults

competitionVars ==
    <<brief, competition, booked, contender, asked, competitionRequests, competitionFaults>>
competitionBounds == <<competitionRequests, competitionFaults>>

Requested ==
    /\ competitionRequests < MaxCompetitionRequests
    /\ competitionRequests' = competitionRequests + 1
Faulty ==
    /\ competitionFaults < MaxCompetitionFaults
    /\ competitionFaults' = competitionFaults + 1
Sound == UNCHANGED competitionFaults

NoTurn == [at |-> "idle", slot |-> 1, shown |-> {}, answer |-> "none"]

CompetitionInit ==
    /\ brief \in [limit : Limits, accounted : BOOLEAN]
    /\ competition = [status |-> "collecting", candidates |-> {}, scores |-> {}, raw |-> {},
                      attempt |-> [s \in Slots |-> "none"], usage |-> [s \in Slots |-> "missing"]]
    /\ booked = [s \in Slots |-> "none"]
    /\ contender = [w \in Contenders |-> NoTurn]
    /\ asked = [s \in Slots |-> 0]
    /\ competitionRequests = 0 /\ competitionFaults = 0

-----------------------------------------------------------------------------
(* The record *)

AnyOpen(c) == \E p \in Participants : OpenAttempt(c.attempt[p])
CompetitionCalls(c) == {s \in Slots : c.attempt[s] # "none"}

Exceeds(c, admitting) == OverBudget(brief.limit, CompetitionCalls(c), c.usage, admitting)

Runnable(c) == c.status \in {"collecting", "running"}

\* submitScore() and finishCompetitionEvaluation(): the verdict on the scored candidates.
Judged(c, scores, overCost) ==
    [c EXCEPT !.scores = scores,
              !.status = IF ~overCost /\ c.candidates = Participants /\ scores = c.candidates
                         THEN "completed" ELSE "partial"]

\* A participant's result is kept: its attempt is settled and, unless the budget was
\* overrun, it becomes a candidate.
Accepted(c, p, state) ==
    LET settled == [c EXCEPT !.attempt[p] = state] IN
    IF Exceeds(settled, FALSE) THEN [settled EXCEPT !.status = "failed"]
    ELSE [settled EXCEPT !.candidates = @ \cup {p}]

-----------------------------------------------------------------------------
(* A worker: runCompetition() *)

WorkerGoes(w, step) == contender' = [contender EXCEPT ![w].at = step]
WorkerEnds(w) == contender' = [contender EXCEPT ![w] = NoTurn]
WorkerNext(w) ==
    contender' = [contender EXCEPT ![w] = [NoTurn EXCEPT !.at = "look", !.slot = contender[w].slot + 1]]

RunCompetition(w) ==
    /\ contender[w].at = "idle" /\ Requested
    /\ \/ Runnable(competition) /\ WorkerGoes(w, "open")
       \/ competition.status = "evaluating" /\ competition.attempt[Evaluator] = "completed"
          /\ WorkerGoes(w, "finish")
    /\ UNCHANGED <<brief, competition, booked, asked, competitionFaults>>

OpenCompetition(w) ==
    /\ contender[w].at = "open" /\ WorkerGoes(w, "look")
    /\ competition' = IF Runnable(competition) THEN [competition EXCEPT !.status = "running"]
                      ELSE competition
    /\ UNCHANGED <<brief, booked, asked, competitionBounds>>

\* The record is read before a call is reserved: what the worker does next.
LookParticipant(w) ==
    LET p == contender[w].slot
        a == competition.attempt[p] IN
    /\ contender[w].at = "look" /\ p \in Participants
    /\ \/ p \in competition.candidates /\ WorkerNext(w)
       \/ /\ p \notin competition.candidates
          /\ \/ (~Runnable(competition) \/ AnyOpen(competition)) /\ WorkerEnds(w)
             \/ /\ Runnable(competition) /\ ~AnyOpen(competition)
                /\ \/ a \in {"failed", "reconciled"} /\ WorkerNext(w)
                   \/ /\ a \notin {"failed", "reconciled"}
                      /\ WorkerGoes(w, IF Exceeds(competition, TRUE) THEN "fail"
                                 ELSE IF brief.accounted THEN "reserve" ELSE "admit")
    /\ UNCHANGED <<brief, competition, booked, asked, competitionBounds>>

LookEvaluator(w) ==
    /\ contender[w].at = "look" /\ contender[w].slot = Evaluator
    /\ IF competition.status # "running" \/ AnyOpen(competition) THEN WorkerEnds(w)
       ELSE contender' = [contender EXCEPT
                ![w].shown = competition.candidates,
                ![w].at = IF competition.candidates = {} \/ Exceeds(competition, TRUE) THEN "fail"
                          ELSE IF brief.accounted THEN "reserve" ELSE "admit"]
    /\ UNCHANGED <<brief, competition, booked, asked, competitionBounds>>

\* reserveGlobal(): refused when the account is exhausted, which others share.
ReserveCall(w) ==
    LET s == contender[w].slot IN
    /\ contender[w].at = "reserve"
    /\ \/ booked[s] = "none" /\ booked' = [booked EXCEPT ![s] = "reserved"] /\ WorkerGoes(w, "admit")
          /\ Sound
       \/ booked[s] = "none" /\ Faulty /\ WorkerGoes(w, "fail") /\ UNCHANGED booked
       \/ booked[s] # "none" /\ WorkerGoes(w, IF booked[s] = "rejected" THEN "fail" ELSE "recover")
          /\ Sound /\ UNCHANGED booked
    /\ UNCHANGED <<brief, competition, asked, competitionRequests>>

\* A reservation without an attempt: the outcome is for the owner to find out.
RecoverCall(w) ==
    LET s == contender[w].slot IN
    /\ contender[w].at = "recover" /\ WorkerEnds(w)
    /\ competition' =
         IF competition.attempt[s] # "none" THEN competition
         ELSE [competition EXCEPT !.attempt[s] = "unknown",
                                  !.status = IF s = Evaluator THEN "evaluating" ELSE @]
    /\ UNCHANGED <<brief, booked, asked, competitionBounds>>

\* Mutant: the reads before the lock are trusted.
AdmissibleWhenRead(s) == IF s = Evaluator THEN competition.status = "running" ELSE Runnable(competition)

\* What the record must say, under its lock, for a call to be admitted.
Admissible(s) ==
    /\ competition.attempt[s] = "none" /\ ~AnyOpen(competition)
    /\ IF s = Evaluator THEN competition.status = "running" ELSE Runnable(competition)

AdmitCall(w) ==
    LET s == contender[w].slot IN
    /\ contender[w].at = "admit"
    /\ \/ ~Admissible(s) /\ WorkerEnds(w) /\ UNCHANGED <<competition, asked>>
       \/ Admissible(s) /\ Exceeds(competition, TRUE) /\ WorkerGoes(w, "fail")
          /\ UNCHANGED <<competition, asked>>
       \/ /\ Admissible(s) /\ ~Exceeds(competition, TRUE) /\ WorkerGoes(w, "asking")
          /\ competition' = [competition EXCEPT
                !.attempt[s] = "started", !.status = IF s = Evaluator THEN "evaluating" ELSE "running"]
          /\ asked' = [asked EXCEPT ![s] = @ + 1]
    /\ UNCHANGED <<brief, booked, competitionBounds>>

\* The call answers, with a result that fits the brief or not, or fails, its outcome known
\* or not.  An answer's usage is recorded at once, unless the attempt was settled meanwhile.
CallAnswers(w) ==
    LET s == contender[w].slot IN
    /\ contender[w].at = "asking"
    /\ \/ \E answer \in {"fits", "misfits"}, u \in UsageUnder(brief.limit) :
            /\ contender' = [contender EXCEPT ![w].answer = answer, ![w].at =
                   IF brief.accounted THEN "settle" ELSE IF answer = "fits" THEN "keep" ELSE "drop"]
            /\ competition' = IF competition.attempt[s] = "started"
                              THEN [competition EXCEPT !.usage[s] = u] ELSE competition
            /\ IF answer = "fits" /\ u \in {"within", "full"} THEN Sound ELSE Faulty
       \/ \E answer \in {"unknown", "error"} :
            /\ contender' = [contender EXCEPT ![w].answer = answer, ![w].at = "drop"]
            /\ Faulty /\ UNCHANGED competition
    /\ UNCHANGED <<brief, booked, asked, competitionRequests>>

EntrySettles(s, state) == state \in EntrySettled(booked[s]) /\ booked' = [booked EXCEPT ![s] = state]

\* settleGlobal() throws when the account is overrun, and the answer is dropped.
SettleCall(w) ==
    /\ contender[w].at = "settle"
    /\ \E state \in {"settled", "rejected"} :
         /\ EntrySettles(contender[w].slot, state)
         /\ WorkerGoes(w, IF state = "settled" /\ contender[w].answer = "fits" THEN "keep" ELSE "drop")
         /\ IF state = "rejected" THEN Faulty ELSE Sound
    /\ UNCHANGED <<brief, competition, asked, competitionRequests>>

\* The evaluator's scores are kept for the worker that finishes the evaluation.
KeepScores(w) ==
    /\ contender[w].at = "keep" /\ contender[w].slot = Evaluator /\ WorkerGoes(w, "finish")
    /\ \E raw \in SUBSET contender[w].shown :
         competition' = IF competition.attempt[Evaluator] # "started" THEN competition
                        ELSE [competition EXCEPT !.attempt[Evaluator] = "completed", !.raw = raw]
    /\ UNCHANGED <<brief, booked, asked, competitionBounds>>

KeepCandidate(w) ==
    LET p == contender[w].slot IN
    /\ contender[w].at = "keep" /\ p \in Participants /\ WorkerNext(w)
    /\ competition' = IF competition.attempt[p] # "started" THEN competition
                      ELSE Accepted(competition, p, "completed")
    /\ UNCHANGED <<brief, booked, asked, competitionBounds>>

\* No usable answer.  One whose outcome is unknown is marked so in the account afterwards.
DropCall(w) ==
    LET s == contender[w].slot
        unknown == contender[w].answer = "unknown" IN
    /\ contender[w].at = "drop"
    /\ competition' =
         IF competition.attempt[s] # "started" THEN competition
         ELSE [competition EXCEPT !.attempt[s] = IF unknown THEN "unknown" ELSE "failed",
                                  !.status = IF s = Evaluator /\ ~unknown THEN "failed" ELSE @]
    /\ IF unknown /\ brief.accounted THEN WorkerGoes(w, "mark")
       ELSE IF s = Evaluator THEN WorkerEnds(w) ELSE WorkerNext(w)
    /\ UNCHANGED <<brief, booked, asked, competitionBounds>>

MarkCall(w) ==
    LET s == contender[w].slot IN
    /\ contender[w].at = "mark"
    /\ booked' = [booked EXCEPT ![s] = EntryMarked(@)]
    /\ IF s = Evaluator THEN WorkerEnds(w) ELSE WorkerNext(w)
    /\ UNCHANGED <<brief, competition, asked, competitionBounds>>

\* finishCompetitionEvaluation(): the stored scores are applied once.
FinishEvaluation(c, next) ==
    IF c.status # "evaluating" \/ c.attempt[Evaluator] # "completed" THEN next = c
    ELSE IF Exceeds(c, FALSE) \/ ~(c.raw \subseteq c.candidates)
         THEN next = [c EXCEPT !.status = "failed"]
    ELSE \E overCost \in BOOLEAN : next = Judged(c, c.raw, overCost)

FinishEvaluating(w) ==
    /\ contender[w].at = "finish" /\ WorkerEnds(w)
    /\ FinishEvaluation(competition, competition')
    /\ UNCHANGED <<brief, booked, asked, competitionBounds>>

\* failCompetition(), for whatever the worker caught.
FailCompetition(w) ==
    /\ contender[w].at = "fail" /\ WorkerEnds(w)
    /\ competition' = [competition EXCEPT !.status = "failed"]
    /\ UNCHANGED <<brief, booked, asked, competitionBounds>>

WorkerStops(w) ==
    /\ contender[w] # NoTurn /\ Faulty /\ WorkerEnds(w)
    /\ UNCHANGED <<brief, competition, booked, asked, competitionRequests>>

-----------------------------------------------------------------------------
(* The owner *)

SubmitCandidate ==
    /\ Requested /\ competition.status = "collecting" /\ brief.limit = "none"
    /\ \E p \in Participants \ competition.candidates :
         competition' = [competition EXCEPT !.candidates = @ \cup {p}]
    /\ UNCHANGED <<brief, booked, contender, asked, competitionFaults>>

BeginEvaluation ==
    /\ Requested /\ competition.status = "collecting" /\ competition.candidates # {}
    /\ competition' = [competition EXCEPT !.status = "evaluating"]
    /\ UNCHANGED <<brief, booked, contender, asked, competitionFaults>>

\* The last score submitted decides, under a budget only of an evaluator that was asked.
SubmitScore ==
    /\ Requested /\ competition.status = "evaluating" /\ ~Exceeds(competition, FALSE)
    /\ brief.limit = "none" \/ competition.attempt[Evaluator] = "completed"
    /\ \E p \in competition.candidates \ competition.scores :
         LET scores == competition.scores \cup {p} IN
         IF Cardinality(scores) < Cardinality(competition.candidates)
         THEN competition' = [competition EXCEPT !.scores = scores]
         ELSE \E overCost \in BOOLEAN : competition' = Judged(competition, scores, overCost)
    /\ UNCHANGED <<brief, booked, contender, asked, competitionFaults>>

\* Mutant: the record is written first, and the process may stop before the account.
AccountedLater(s) == UNCHANGED booked \/ (brief.accounted /\ EntrySettles(s, "settled"))

\* A reconciliation settles the call in the account first, and stops there if that throws
\* or the process stops.
Accounted(s) == IF brief.accounted THEN EntrySettles(s, "settled") ELSE UNCHANGED booked

\* reconcileCompetitionAttempt(): the competition goes on from where its attempts stand.
ReconcileAttempt ==
    \E p \in Participants, outcome \in {"reconciled", "failed"}, u \in UsageUnder(brief.limit) :
        /\ Requested /\ OpenAttempt(competition.attempt[p])
        /\ Accounted(p)
        /\ LET given == [competition EXCEPT !.usage[p] = IF u = "missing" THEN @ ELSE u]
               next == IF outcome = "failed" THEN [given EXCEPT !.attempt[p] = "failed"]
                       ELSE Accepted(given, p, "reconciled")
               overrun == outcome = "reconciled"
                            /\ Exceeds([given EXCEPT !.attempt[p] = outcome], FALSE) IN
           competition' = [next EXCEPT !.status =
               IF overrun THEN "failed" ELSE IF AnyOpen(next) THEN "running" ELSE "collecting"]
        /\ UNCHANGED <<brief, contender, asked, competitionFaults>>

\* reconcileCompetitionEvaluator(), and the evaluation it finishes.
ReconcileEvaluator ==
    /\ Requested /\ competition.status = "evaluating" /\ OpenAttempt(competition.attempt[Evaluator])
    /\ Accounted(Evaluator)
    /\ \E u \in UsageUnder(brief.limit) :
         LET given == [competition EXCEPT !.usage[Evaluator] = IF u = "missing" THEN @ ELSE u] IN
         \/ competition' = [given EXCEPT !.attempt[Evaluator] = "failed", !.status = "failed"]
         \/ \E raw \in SUBSET Participants \ {{}} :
               LET told == [given EXCEPT !.attempt[Evaluator] = "completed", !.raw = raw] IN
               competition' = told \/ FinishEvaluation(told, competition')
    /\ UNCHANGED <<brief, contender, asked, competitionFaults>>

\* What is left of one whose settlement throws, that stops after it, or that the record refuses.
ReconcileStops ==
    /\ Requested /\ brief.accounted
    /\ \E s \in CompetitionCalls(competition), state \in {"settled", "rejected"} : EntrySettles(s, state)
    /\ UNCHANGED <<brief, competition, contender, asked, competitionFaults>>

-----------------------------------------------------------------------------
WorkerTurn(w) ==
    \/ RunCompetition(w) \/ OpenCompetition(w) \/ LookParticipant(w) \/ LookEvaluator(w)
    \/ ReserveCall(w) \/ RecoverCall(w) \/ AdmitCall(w) \/ CallAnswers(w) \/ SettleCall(w)
    \/ KeepScores(w) \/ KeepCandidate(w) \/ DropCall(w) \/ MarkCall(w)
    \/ FinishEvaluating(w) \/ FailCompetition(w) \/ WorkerStops(w)

CompetitionNext ==
    \/ \E w \in Contenders : WorkerTurn(w)
    \/ SubmitCandidate \/ BeginEvaluation \/ SubmitScore
    \/ ReconcileAttempt \/ ReconcileEvaluator \/ ReconcileStops

CompetitionSpec == CompetitionInit /\ [][CompetitionNext]_competitionVars

-----------------------------------------------------------------------------
(* Properties *)

CompetitionTypeOK ==
    /\ brief \in [limit : Limits, accounted : BOOLEAN]
    /\ competition \in
         [status : {"collecting", "running", "evaluating"} \cup ClosedCompetition,
          candidates : SUBSET Participants, scores : SUBSET Participants, raw : SUBSET Participants,
          attempt : [Slots -> AttemptStates],
          usage : [Slots -> UsageUnder("tokens")]]
    /\ booked \in [Slots -> EntryStates]
    /\ asked \in [Slots -> Nat]

\* However many workers run the competition at once, stop half-way and are started again,
\* every participant and the evaluator are asked once at most, the participants one at a time
\* until the answer is in the record or the owner settled it, and never more of them than the
\* brief allows.  The evaluator judges what stands: no participant's call is open beside its
\* own, but in a competition without a budget that keeps an account, where a candidate
\* handed in by hand passes for one whose reserved call nobody has recovered yet.
AskedInTurn ==
    /\ \A s \in Slots : asked[s] <= 1
    /\ Cardinality({p \in Participants : competition.attempt[p] = "started"}) <= 1
    /\ competition.attempt[Evaluator] = "started" /\ (brief.limit # "none" \/ ~brief.accounted)
         => ~AnyOpen(competition)
    /\ brief.limit = "calls" => Cardinality({s \in Slots : asked[s] > 0}) <= CallBudget

\* A result the record keeps, from a worker or from the owner's reconciliation, is one the
\* global account was charged for, whichever of the two stores a crash or a refusal left behind.
KeptResultsArePaid ==
    brief.accounted =>
        \A s \in Slots : competition.attempt[s] \in {"completed", "reconciled"} => booked[s] = "settled"
=============================================================================
