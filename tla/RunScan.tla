-------------------------------- MODULE RunScan --------------------------------
(* The bounded scan of run-scan-cursor.ts by which the pumps replay the events of   *)
(* every Run: a sweep goes through the Runs in the order of their ids, a batch at a *)
(* time, and keeps its place in one durable checkpoint that the workers advance by  *)
(* compare-and-set.  Runs appear and grow while a batch is read.                    *)
EXTENDS Integers, FiniteSets, FiniteSetsExt

CONSTANTS
    ScanWorkers,    \* processes that pump with the same cursor
    RunCount,       \* bound: Runs, numbered in the order of their ids
    MaxSeq,         \* bound: events of one Run
    PageSize,       \* Runs a batch looks at
    BatchEvents,    \* events a batch looks at
    MaxRevision     \* bound: checkpoints written

ASSUME ScanAssumption ==
    /\ RunCount \in Nat /\ MaxSeq \in Nat /\ MaxRevision \in Nat
    /\ PageSize \in Nat \ {0} /\ BatchEvents \in Nat \ {0}

VARIABLES
    projected,   \* whether the scanner reads the event projection or the whole Runs
    lastSeq,     \* [Run -> its events; -1 before it is created]
    checkpoint,  \* the durable cursor and its revision
    batch,       \* [worker -> the batch it is reading or attempting]
    attempted,   \* history: the events handed to the pump in this sweep
    owed         \* history: the events there were when this sweep began

scanVars == <<projected, lastSeq, checkpoint, batch, attempted, owed>>

RunIds == 1 .. RunCount
NoRun == 0
NoResume == [run |-> NoRun, offset |-> 0, endOffset |-> 0]
FreshCursor == [afterId |-> NoRun, throughId |-> NoRun, resume |-> NoResume]
NoBatch == [pc |-> "idle", revision |-> 0, previous |-> FreshCursor, next |-> FreshCursor,
            page |-> {}, sizes |-> [r \in RunIds |-> 0], done |-> FALSE,
            entries |-> {}, from |-> {}]

Recorded == UNION {{<<r, s>> : s \in 1 .. lastSeq[r]} : r \in RunIds}

ScanInit ==
    /\ projected \in BOOLEAN
    /\ lastSeq \in [RunIds -> {-1, 1}]
    /\ checkpoint = [revision |-> 0, cursor |-> FreshCursor]
    /\ batch = [w \in ScanWorkers |-> NoBatch]
    /\ attempted = {} /\ owed = {}

-----------------------------------------------------------------------------
(* The Runs *)

CreateRun(r) ==
    /\ lastSeq[r] = -1
    /\ lastSeq' = [lastSeq EXCEPT ![r] = 0]
    /\ UNCHANGED <<projected, checkpoint, batch, attempted, owed>>

AppendEvent(r) ==
    /\ lastSeq[r] \in 0 .. MaxSeq - 1
    /\ lastSeq' = [lastSeq EXCEPT ![r] = @ + 1]
    /\ UNCHANGED <<projected, checkpoint, batch, attempted, owed>>

-----------------------------------------------------------------------------
(* batch() *)

\* The ids a sweep may look at: those after the cursor and up to the id that was the
\* last one when the sweep began.
InSweep(c) ==
    {r \in RunIds : lastSeq[r] >= 0 /\ r > c.afterId /\ (c.throughId = NoRun \/ r <= c.throughId)}
Smallest(S, n) == {r \in S : Cardinality({q \in S : q < r}) < n}
ThroughId(c) ==
    IF c.throughId # NoRun THEN c.throughId
    ELSE Max({NoRun} \cup {r \in RunIds : lastSeq[r] >= 0})

ReadPage(w) ==
    /\ batch[w].pc = "idle"
    /\ checkpoint.revision < MaxRevision
    /\ LET c == checkpoint.cursor
           page == Smallest(InSweep(c), PageSize) IN
       batch' = [batch EXCEPT ![w] =
           [NoBatch EXCEPT !.pc = "reading", !.revision = checkpoint.revision, !.previous = c,
                           !.next = [c EXCEPT !.throughId = ThroughId(c)],
                           !.page = page,
                           !.sizes = [r \in RunIds |-> IF r \in page THEN lastSeq[r] ELSE 0],
                           !.done = Cardinality(InSweep(c)) <= PageSize,
                           !.from = IF c = FreshCursor THEN Recorded ELSE {}]]
    /\ UNCHANGED <<projected, lastSeq, checkpoint, attempted, owed>>

\* Mutant: the events of a partly read Run are resumed one too far.
ResumedTooFar(b, r) ==
    IF b.previous.resume.run = r
    THEN [b.previous.resume EXCEPT !.endOffset = IF @ <= b.sizes[r] THEN @ ELSE b.sizes[r],
                                   !.offset = @ + 1]
    ELSE [run |-> r, offset |-> 0, endOffset |-> b.sizes[r]]

\* Where the batch starts and must stop in the Run: the end is the one captured when the
\* Run was first reached.
Resumed(b, r) ==
    IF b.previous.resume.run = r
    THEN [b.previous.resume EXCEPT !.endOffset = IF @ <= b.sizes[r] THEN @ ELSE b.sizes[r]]
    ELSE [run |-> r, offset |-> 0, endOffset |-> b.sizes[r]]

Room(b) == BatchEvents - Cardinality(b.entries)
Least(a, b) == IF a <= b THEN a ELSE b

\* The last event of the Run this batch reads, and whether it leaves some for later.  The
\* projection answers with a page of the events there are now, of which those behind the
\* captured end are left out.
ReadTo(b, at) == Least(at.offset + Room(b), at.endOffset)

LeavesSome(b, at) ==
    \/ ReadTo(b, at) < at.endOffset
    \/ projected /\ lastSeq[at.run] > at.offset + Room(b)

Passing(c, r) ==
    [c EXCEPT !.afterId = r,
              !.resume = IF @.run = r \/ (~projected /\ @.run <= r) THEN NoResume ELSE @]

ReadRun(w) ==
    /\ batch[w].pc = "reading" /\ batch[w].page # {}
    /\ LET b == batch[w]
           r == Min(b.page)
           at == Resumed(b, r)
           seen == {<<r, s>> : s \in at.offset + 1 .. ReadTo(b, at)} IN
       batch' = [batch EXCEPT ![w] =
           CASE projected /\ at.endOffset = 0 ->
                    [b EXCEPT !.next = Passing(b.next, r), !.page = @ \ {r}]
             [] projected /\ at.endOffset > 0 /\ Room(b) = 0 ->
                    [b EXCEPT !.page = {}, !.done = FALSE, !.pc = "attempting"]
             [] ~(projected /\ (at.endOffset = 0 \/ Room(b) = 0)) /\ LeavesSome(b, at) ->
                    [b EXCEPT !.entries = @ \cup seen, !.page = {}, !.done = FALSE,
                              !.pc = "attempting",
                              !.next.resume = [at EXCEPT !.offset = ReadTo(b, at)]]
             [] ~(projected /\ (at.endOffset = 0 \/ Room(b) = 0)) /\ ~LeavesSome(b, at) ->
                    [b EXCEPT !.entries = @ \cup seen, !.page = @ \ {r},
                              !.next = Passing(b.next, r)]]
    /\ UNCHANGED <<projected, lastSeq, checkpoint, attempted, owed>>

EndOfPage(w) ==
    /\ batch[w].pc = "reading" /\ batch[w].page = {}
    /\ batch' = [batch EXCEPT ![w].pc = "attempting",
                              ![w].next = IF batch[w].done THEN FreshCursor ELSE @]
    /\ UNCHANGED <<projected, lastSeq, checkpoint, attempted, owed>>

\* The pump tries every entry; those that fail are met again in the next sweep.
Attempt(w) ==
    /\ batch[w].pc = "attempting"
    /\ attempted' = attempted \cup batch[w].entries
    /\ batch' = [batch EXCEPT ![w].pc = "commit"]
    /\ UNCHANGED <<projected, lastSeq, checkpoint, owed>>

Advances(w) == checkpoint.revision = batch[w].revision

\* advance(): only the worker that read the latest checkpoint moves it.
Commit(w) ==
    /\ batch[w].pc = "commit"
    /\ batch' = [batch EXCEPT ![w] = NoBatch]
    /\ IF Advances(w)
       THEN /\ checkpoint' = [revision |-> checkpoint.revision + 1, cursor |-> batch[w].next]
            /\ owed' = CASE batch[w].next = FreshCursor -> {}
                         [] batch[w].next # FreshCursor /\ batch[w].previous = FreshCursor ->
                                batch[w].from
                         [] OTHER -> owed
            /\ attempted' = IF batch[w].next = FreshCursor THEN {} ELSE attempted
       ELSE UNCHANGED <<checkpoint, owed, attempted>>
    /\ UNCHANGED <<projected, lastSeq>>

\* A read error, or the end of the process: the batch is replayed from the checkpoint.
AbandonBatch(w) ==
    /\ batch[w].pc # "idle"
    /\ batch' = [batch EXCEPT ![w] = NoBatch]
    /\ UNCHANGED <<projected, lastSeq, checkpoint, attempted, owed>>

ScanNext ==
    \/ \E r \in RunIds : CreateRun(r) \/ AppendEvent(r)
    \/ \E w \in ScanWorkers :
          ReadPage(w) \/ ReadRun(w) \/ EndOfPage(w) \/ Attempt(w) \/ Commit(w) \/ AbandonBatch(w)

ScanSpec == ScanInit /\ [][ScanNext]_scanVars
-----------------------------------------------------------------------------
(* Properties *)

\* When a sweep ends, the pump has been handed in it every event there was when the sweep
\* began, whatever was created, appended, abandoned or committed by another worker since.
SweepMissesNothing ==
    [][\A w \in ScanWorkers :
         (checkpoint' # checkpoint /\ batch[w].pc = "commit" /\ batch'[w].pc = "idle"
            /\ checkpoint'.cursor = FreshCursor)
         => (IF checkpoint.cursor = FreshCursor THEN batch[w].from ELSE owed) \subseteq attempted]_scanVars
=============================================================================
