--------------------------------- MODULE Debate ---------------------------------
(* One debate, as ModelPoolDebateOrchestrator of collaboration-pool.ts drives it     *)
(* through collaboration-service.ts.  The participants speak in a fixed order; with  *)
(* roles, a moderator reviews every message and an adjudicator has the last word.    *)
(* Several runners may drive it at once.  Each model call has a slot in the record:  *)
(* what a slot answered is replayed to whoever comes to it later, and a runner that  *)
(* finds a call under way leaves.  Reads of the record with no call and no write      *)
(* between them are one step.  Messages posted by hand are left out.                 *)
EXTENDS CollaborationCalls, FiniteSetsExt

CONSTANTS
    MessageCount,         \* the most turns a debate has, all its rounds in a row
    Runners,              \* requests and trigger pumps that run the debate
    Rooms,                \* how a debate may be set up, as the variable room
    MaxDebateRuns,        \* bound: times it is run
    MaxReconciliations,   \* bound: times the owner reconciles a call, also in vain
    MaxDebateFaults       \* bound: runners that stop, calls without a usable answer, refusals

ASSUME DebateAssumption ==
    /\ MessageCount \in Nat \ {0}
    /\ Rooms \subseteq [turns : 1 .. MessageCount, limit : Limits,
                      accounted : BOOLEAN, roles : BOOLEAN]
    /\ MaxDebateRuns \in Nat /\ MaxReconciliations \in Nat /\ MaxDebateFaults \in Nat

Messages == 1 .. MessageCount
Speak(n) == <<"participant", n>>
Review(n) == <<"moderator", n>>
Final == <<"adjudicator", 0>>
DebateSlots == {"participant", "moderator"} \X Messages \cup {Final}

\* What a slot may answer, and "bad" for what its schema or the record refuses.  A
\* decision is backed when the evidence policy accepts it.
Outputs(slot) ==
    {"bad"} \cup CASE slot[1] = "participant" -> {"argument", "decision", "unbacked"}
                   [] slot[1] = "moderator" -> {"accepted", "flagged"}
                   [] slot[1] = "adjudicator" -> {"decided", "held"}

VARIABLES
    room,          \* how many turns, what the budget limits, whether an account is kept, has roles
    debate,        \* status and outcome, messages, reviews; of every slot the attempt, usage, output
    debateBooked,  \* [slot -> entry of its key in the global account]
    runner,        \* [runner -> step, slot, messages it goes through, answer]
    heard,         \* history: [slot -> calls admitted]
    debateRuns, reconciliations, debateFaults

debateVars ==
    <<room, debate, debateBooked, runner, heard, debateRuns, reconciliations,
    debateFaults>>
debateBounds == <<debateRuns, reconciliations, debateFaults>>
requestBounds == <<debateRuns, reconciliations>>

Reconciles ==
    /\ reconciliations < MaxReconciliations
    /\ reconciliations' = reconciliations + 1
DebateFaulty ==
    /\ debateFaults < MaxDebateFaults
    /\ debateFaults' = debateFaults + 1

\* "then" is what follows the reviews: the next turn or the end of the debate.
NotRunning == [at |-> "idle", slot |-> Final, todo |-> {}, then |-> "turn", answer |-> "none"]

DebateInit ==
    /\ room \in Rooms
    /\ debate = [status |-> "active", outcome |-> "none", messages |-> {}, reviews |-> {},
                 attempt |-> [s \in DebateSlots |-> "none"],
                 usage |-> [s \in DebateSlots |-> "missing"],
                 output |-> [s \in DebateSlots |-> "none"]]
    /\ debateBooked = [s \in DebateSlots |-> "none"]
    /\ runner = [w \in Runners |-> NotRunning]
    /\ heard = [s \in DebateSlots |-> 0]
    /\ debateRuns = 0 /\ reconciliations = 0 /\ debateFaults = 0

-----------------------------------------------------------------------------
(* The record *)

DebateActive == debate.status = "active"
DebateCalls == {s \in DebateSlots : debate.attempt[s] # "none"}
CallOut == \E s \in DebateSlots : OpenAttempt(debate.attempt[s])
AllAnswered == \A s \in DebateCalls : debate.attempt[s] = "completed"
Overspent(admitting) == OverBudget(room.limit, DebateCalls, debate.usage, admitting)

Said(n, what) == n \in debate.messages /\ debate.output[Speak(n)] \in what
Unspoken == 1 .. room.turns \ debate.messages
Unreviewed(d) == IF room.roles THEN d.messages \ d.reviews ELSE {}

\* isSupportedDebateDecision(): accepted by the policy and not flagged by the moderator.
Supported(n) == Said(n, {"decision"}) /\ (n \in debate.reviews => debate.output[Review(n)] = "accepted")

Closed(outcome) == [debate EXCEPT !.status = "closed", !.outcome = outcome]

\* closeDebate() takes a decision only of settled calls within the budget, and with a
\* moderator only one that it accepted.
Decidable ==
    /\ ~Overspent(FALSE)
    /\ AllAnswered
    /\ \E n \in Messages : Supported(n) /\ (room.roles => n \in debate.reviews)

-----------------------------------------------------------------------------
(* A runner *)

RunnerGoes(w, step) == runner' = [runner EXCEPT ![w].at = step]
RunnerLeaves(w) == runner' = [runner EXCEPT ![w] = NotRunning]
RunnerCalls(w, slot) == runner' = [runner EXCEPT ![w].at = "look", ![w].slot = slot]
\* reviewMessages(): of the messages it found unreviewed, the next.
Reviews(w, todo, then) ==
    runner' = [runner EXCEPT ![w] =
        IF todo = {} THEN [NotRunning EXCEPT !.at = then]
        ELSE [at |-> "look", slot |-> Review(Min(todo)), todo |-> todo, then |-> then, answer |-> "none"]]

RunDebate(w) ==
    /\ runner[w].at = "idle" /\ DebateActive
    /\ debateRuns < MaxDebateRuns /\ debateRuns' = debateRuns + 1
    /\ Reviews(w, Unreviewed(debate), "turn")
    /\ UNCHANGED <<room, debate, debateBooked, heard, reconciliations, debateFaults>>

\* Who speaks next, on a fresh copy of the record; after a decision, or the last turn, nobody.
NextSpeaker(w) ==
    /\ runner[w].at = "turn"
    /\ \/ ~DebateActive /\ RunnerLeaves(w)
       \/ /\ DebateActive /\ Unspoken # {} /\ \A n \in Messages : ~Said(n, {"decision", "unbacked"})
          /\ RunnerCalls(w, Speak(Min(Unspoken)))
       \/ /\ DebateActive /\ (Unspoken = {} \/ \E n \in Messages : Said(n, {"decision", "unbacked"}))
          /\ Reviews(w, Unreviewed(debate), "conclude")
    /\ UNCHANGED <<room, debate, debateBooked, heard, debateBounds>>

\* adjudicate(): the adjudicator, or without roles the evidence policy.
Conclude(w) ==
    /\ runner[w].at = "conclude"
    /\ \/ room.roles /\ RunnerCalls(w, Final) /\ UNCHANGED debate
       \/ /\ ~room.roles
          /\ \/ ~DebateActive /\ RunnerLeaves(w) /\ UNCHANGED debate
             \/ DebateActive /\ Decidable /\ RunnerLeaves(w) /\ debate' = Closed("decided")
             \/ /\ DebateActive /\ ~Decidable
                /\ IF AllAnswered /\ \E n \in Messages : Supported(n)
                   THEN RunnerGoes(w, "hold") /\ UNCHANGED debate
                   ELSE RunnerLeaves(w) /\ debate' = Closed("held")
    /\ UNCHANGED <<room, debateBooked, heard, debateBounds>>

\* The role's model is resolved, which may fail, and the record is read before a call is
\* reserved: what its slot already holds is replayed.
LookUpCall(w) ==
    LET s == runner[w].slot IN
    /\ runner[w].at = "look"
    /\ \/ /\ UNCHANGED debateFaults
          /\ IF debate.attempt[s] # "none" THEN RunnerGoes(w, "value")
             ELSE IF ~DebateActive \/ CallOut THEN RunnerLeaves(w)
             ELSE RunnerGoes(w, IF Overspent(TRUE) THEN "hold"
                                ELSE IF room.accounted THEN "reserve" ELSE "admit")
       \/ DebateFaulty /\ RunnerGoes(w, "hold")
    /\ UNCHANGED <<room, debate, debateBooked, heard, requestBounds>>

ReserveTurn(w) ==
    LET s == runner[w].slot IN
    /\ runner[w].at = "reserve"
    /\ \/ debateBooked[s] = "none" /\ debateBooked' = [debateBooked EXCEPT ![s] = "reserved"]
          /\ RunnerGoes(w, "admit") /\ UNCHANGED debateFaults
       \/ debateBooked[s] = "none" /\ DebateFaulty /\ RunnerGoes(w, "hold") /\ UNCHANGED debateBooked
       \/ /\ debateBooked[s] # "none" /\ RunnerGoes(w, "recover")
          /\ UNCHANGED <<debateBooked, debateFaults>>
    /\ UNCHANGED <<room, debate, heard, requestBounds>>

\* A reservation without an attempt: the outcome is for the owner to find out.
RecoverTurn(w) ==
    LET s == runner[w].slot IN
    /\ runner[w].at = "recover" /\ RunnerGoes(w, "value")
    /\ debate' = IF debate.attempt[s] = "none" THEN [debate EXCEPT !.attempt[s] = "unknown"] ELSE debate
    /\ UNCHANGED <<room, debateBooked, heard, debateBounds>>

\* Mutant: that the slot was free when it was looked up is trusted.
SlotTakenWhenRead(s) == FALSE

\* Whether the slot was taken before the runner held the record's lock.
SlotTaken(s) == debate.attempt[s] # "none"

AdmitTurn(w) ==
    LET s == runner[w].slot IN
    /\ runner[w].at = "admit"
    /\ \/ SlotTaken(s) /\ RunnerGoes(w, "value") /\ UNCHANGED <<debate, heard>>
       \/ ~SlotTaken(s) /\ (~DebateActive \/ CallOut) /\ RunnerLeaves(w) /\ UNCHANGED <<debate, heard>>
       \/ /\ ~SlotTaken(s) /\ DebateActive /\ ~CallOut
          /\ IF Overspent(TRUE) THEN RunnerGoes(w, "hold") /\ UNCHANGED <<debate, heard>>
             ELSE /\ RunnerGoes(w, "asking")
                  /\ debate' = [debate EXCEPT !.attempt[s] = "started"]
                  /\ heard' = [heard EXCEPT ![s] = @ + 1]
    /\ UNCHANGED <<room, debateBooked, debateBounds>>

\* The call answers or fails, its outcome known or not.  An answer's usage is recorded at
\* once, unless the owner settled the attempt meanwhile.
TurnAnswers(w) ==
    LET s == runner[w].slot IN
    /\ runner[w].at = "asking"
    /\ \/ \E output \in Outputs(s), u \in UsageUnder(room.limit) :
            /\ runner' = [runner EXCEPT ![w].answer = output,
                                        ![w].at = IF room.accounted THEN "settle" ELSE "keep"]
            /\ debate' = IF debate.attempt[s] = "started" THEN [debate EXCEPT !.usage[s] = u] ELSE debate
            /\ IF output # "bad" /\ u \in {"within", "full"} THEN UNCHANGED debateFaults ELSE DebateFaulty
       \/ \E answer \in {"unknown", "error"} :
            /\ runner' = [runner EXCEPT ![w].answer = answer, ![w].at = "keep"]
            /\ DebateFaulty /\ UNCHANGED debate
    /\ UNCHANGED <<room, debateBooked, heard, requestBounds>>

TurnSettles(s, state) ==
    state \in EntrySettled(debateBooked[s]) /\ debateBooked' = [debateBooked EXCEPT ![s] = state]

\* settleGlobal() throws when the account is overrun, and the answer is dropped.
SettleTurn(w) ==
    /\ runner[w].at = "settle"
    /\ \/ TurnSettles(runner[w].slot, "settled") /\ RunnerGoes(w, "keep") /\ UNCHANGED debateFaults
       \/ TurnSettles(runner[w].slot, "rejected") /\ DebateFaulty
          /\ runner' = [runner EXCEPT ![w].answer = "error", ![w].at = "keep"]
    /\ UNCHANGED <<room, debate, heard, requestBounds>>

\* settleDebateAttempt(): a reconciliation wins over a late answer.
KeepAnswer(w) ==
    LET s == runner[w].slot
        answer == runner[w].answer IN
    /\ runner[w].at = "keep"
    /\ RunnerGoes(w, IF answer = "unknown" /\ room.accounted THEN "mark" ELSE "value")
    /\ debate' = IF debate.attempt[s] # "started" THEN debate
                 ELSE IF answer = "unknown" THEN [debate EXCEPT !.attempt[s] = "unknown"]
                 ELSE IF answer = "error" THEN [debate EXCEPT !.attempt[s] = "failed"]
                 ELSE [debate EXCEPT !.attempt[s] = "completed", !.output[s] = answer]
    /\ UNCHANGED <<room, debateBooked, heard, debateBounds>>

MarkTurn(w) ==
    /\ runner[w].at = "mark" /\ RunnerGoes(w, "value")
    /\ debateBooked' = [debateBooked EXCEPT ![runner[w].slot] = EntryMarked(@)]
    /\ UNCHANGED <<room, debate, heard, debateBounds>>

\* Mutant: a failed call is left like one that is under way.
PendingOrFailed(state) == state # "completed"

\* A call whose outcome the owner has to find out ends the run, and nothing else.
PendingCall(state) == OpenAttempt(state)

\* What the slot holds now, whoever asked it.
ReadValue(w) ==
    LET s == runner[w].slot
        state == debate.attempt[s] IN
    /\ runner[w].at = "value"
    /\ IF PendingCall(state) THEN RunnerLeaves(w)
       ELSE IF state = "failed" \/ Overspent(FALSE) \/ debate.output[s] = "bad"
       THEN RunnerGoes(w, "hold")
       ELSE IF s[1] = "participant" /\ s[2] \in debate.messages
       THEN Reviews(w, Unreviewed(debate), "turn")
       ELSE RunnerGoes(w, "use")
    /\ UNCHANGED <<room, debate, debateBooked, heard, debateBounds>>

\* Of two runners that found the message missing the later one throws, as does one that finds
\* the debate closed or its budget overrun.
AppendMessage(w) ==
    LET n == runner[w].slot[2]
        throws == ~DebateActive \/ Overspent(FALSE) \/ n \in debate.messages IN
    /\ runner[w].at = "use" /\ runner[w].slot[1] = "participant"
    /\ debate' = IF throws THEN debate ELSE [debate EXCEPT !.messages = @ \cup {n}]
    /\ IF throws THEN RunnerGoes(w, "hold") ELSE Reviews(w, Unreviewed(debate'), "turn")
    /\ UNCHANGED <<room, debateBooked, heard, debateBounds>>

RecordReview(w) ==
    LET n == runner[w].slot[2]
        throws == ~DebateActive \/ Overspent(FALSE) IN
    /\ runner[w].at = "use" /\ runner[w].slot[1] = "moderator"
    /\ debate' = IF throws THEN debate ELSE [debate EXCEPT !.reviews = @ \cup {n}]
    /\ IF throws THEN RunnerGoes(w, "hold")
       ELSE Reviews(w, runner[w].todo \ debate'.reviews, runner[w].then)
    /\ UNCHANGED <<room, debateBooked, heard, debateBounds>>

\* The adjudicator's word, which closeDebate() checks again.
Adjudicate(w) ==
    LET decided == debate.output[Final] = "decided" IN
    /\ runner[w].at = "use" /\ runner[w].slot = Final
    /\ \/ (~DebateActive \/ (decided /\ ~Decidable)) /\ RunnerGoes(w, "hold") /\ UNCHANGED debate
       \/ /\ DebateActive /\ (decided => Decidable) /\ RunnerLeaves(w)
          /\ debate' = Closed(debate.output[Final])
    /\ UNCHANGED <<room, debateBooked, heard, debateBounds>>

\* Whatever else was thrown closes the debate for review.
HoldDebate(w) ==
    /\ runner[w].at = "hold" /\ RunnerLeaves(w)
    /\ debate' = IF DebateActive THEN Closed("held") ELSE debate
    /\ UNCHANGED <<room, debateBooked, heard, debateBounds>>

RunnerStops(w) ==
    /\ runner[w] # NotRunning /\ DebateFaulty /\ RunnerLeaves(w)
    /\ UNCHANGED <<room, debate, debateBooked, heard, requestBounds>>

-----------------------------------------------------------------------------
(* The owner *)

\* A reconciliation settles the call in the account first.
ReconcileTurn ==
    \E s \in DebateSlots, u \in UsageUnder(room.limit) :
        /\ Reconciles /\ DebateActive /\ OpenAttempt(debate.attempt[s])
        /\ IF room.accounted THEN TurnSettles(s, "settled") ELSE UNCHANGED debateBooked
        /\ LET given == [debate EXCEPT !.usage[s] = IF u = "missing" THEN @ ELSE u] IN
           \/ debate' = [given EXCEPT !.attempt[s] = "failed"]
           \/ \E output \in Outputs(s) :
                debate' = [given EXCEPT !.attempt[s] = "completed", !.output[s] = output]
        /\ UNCHANGED <<room, runner, heard, debateRuns, debateFaults>>

\* What is left of one whose settlement throws, that stops after it, or that the record refuses.
ReconcileTurnStops ==
    /\ Reconciles /\ room.accounted
    /\ \E s \in DebateCalls, state \in {"settled", "rejected"} : TurnSettles(s, state)
    /\ UNCHANGED <<room, debate, runner, heard, debateRuns, debateFaults>>

-----------------------------------------------------------------------------
RunnerTurn(w) ==
    \/ RunDebate(w) \/ NextSpeaker(w) \/ Conclude(w)
    \/ LookUpCall(w) \/ ReserveTurn(w) \/ RecoverTurn(w) \/ AdmitTurn(w) \/ TurnAnswers(w)
    \/ SettleTurn(w) \/ KeepAnswer(w) \/ MarkTurn(w) \/ ReadValue(w)
    \/ AppendMessage(w) \/ RecordReview(w)
    \/ Adjudicate(w) \/ HoldDebate(w) \/ RunnerStops(w)

DebateNext ==
    \/ \E w \in Runners : RunnerTurn(w)
    \/ ReconcileTurn \/ ReconcileTurnStops

DebateSpec == DebateInit /\ [][DebateNext]_debateVars

-----------------------------------------------------------------------------
(* Properties *)

DebateTypeOK ==
    /\ room \in Rooms
    /\ debate.status \in {"active", "closed"} /\ debate.outcome \in {"none", "decided", "held"}
    /\ debate.messages \subseteq Messages /\ debate.reviews \subseteq Messages
    /\ \A s \in DebateSlots :
         /\ debate.attempt[s] \in AttemptStates
         /\ debate.usage[s] \in UsageUnder("tokens")
         /\ debate.output[s] \in Outputs(s) \cup {"none"}
         /\ debateBooked[s] \in EntryStates /\ heard[s] \in Nat

\* However many runners drive the debate, stop and come back, every turn, review and verdict
\* is asked for once at most, one at a time, and never more of them than the budget allows;
\* the room holds only what a settled call said, in the order of the turns.
HeardOnce ==
    /\ \A s \in DebateSlots : heard[s] <= 1
    /\ Cardinality({s \in DebateSlots : debate.attempt[s] = "started"}) <= 1
    /\ room.limit = "calls" => Cardinality({s \in DebateSlots : heard[s] > 0}) <= CallBudget
    /\ \A n \in debate.messages :
         debate.attempt[Speak(n)] = "completed" /\ 1 .. n \subseteq debate.messages
    /\ \A n \in debate.reviews : debate.attempt[Review(n)] = "completed" /\ n \in debate.messages

\* A runner that leaves, other than by a crash, leaves nothing hanging: the debate is closed,
\* or a call is open that its runner will answer or the owner can settle.
RunEndsOrWaits ==
    [][\A w \in Runners :
           runner[w].at # "idle" /\ runner'[w].at = "idle" /\ debateFaults' = debateFaults
           => debate'.status = "closed" \/ CallOut']_debateVars
=============================================================================
