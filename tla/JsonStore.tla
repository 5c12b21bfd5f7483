------------------------------ MODULE JsonStore ------------------------------
(* The domain store of adapters/json-store.ts: a snapshot file with its history  *)
(* files, a journal of the commits since, and the copy its one writer process has in *)
(* memory.  A commit is appended and synced before memory shows it; after            *)
(* CompactAfter commits the history files, the snapshot and the emptied journal are  *)
(* written in turn.  An append or a step of the compaction may fail and the process   *)
(* may die at any point; Open rebuilds memory from the files.                        *)
EXTENDS Integers, Sequences, SequencesExt

CONSTANTS
    CompactAfter,    \* commits before the journal is folded into the snapshot
    MaxOps,          \* bound: commits tried
    MaxStoreFaults   \* bound: failed writes, crashes and restarts

ASSUME StoreAssumption ==
    CompactAfter \in Nat \ {0} /\ MaxOps \in Nat /\ MaxStoreFaults \in Nat

VARIABLES
    journal,   \* the journal's lines
    snapshot,  \* the snapshot file: the rows, the journal number it includes, its history
    sidecar,   \* [number -> the history file written at that number]
    store,     \* the process: its copy of the rows and of the history, its counters
    truth,     \* history: what the commits that memory has shown amount to
    maybe,     \* history: the same with the commit that failed last, if any
    ops, storeFaults

storeVars == <<journal, snapshot, sidecar, store, truth, maybe, ops, storeFaults>>
files == <<journal, snapshot, sidecar>>

Items == 1 .. MaxOps
Contents == [rows : SUBSET Items, past : SUBSET Items]
Nothing == [rows |-> {}, past |-> {}]

\* A commit upserts a row, adds a receipt or a memory to the history, or rolls an audited
\* memory back.
Operations == [kind : {"row", "keep", "drop"}, item : Items]

applyOperation(c, op) ==
    CASE op.kind = "row" -> [c EXCEPT !.rows = @ \cup {op.item}]
      [] op.kind = "keep" -> [c EXCEPT !.past = @ \cup {op.item}]
      [] op.kind = "drop" -> [c EXCEPT !.past = @ \ {op.item}]

\* What a write may leave of a record, and a line once two such pieces share it.
Piece(r, torn, ended) == [recs |-> IF torn THEN <<>> ELSE <<r>>, torn |-> torn, ended |-> ended]
Glue(line, piece) ==
    [recs |-> line.recs \o piece.recs, torn |-> line.torn \/ piece.torn, ended |-> piece.ended]
Remains(r) == {Piece(r, TRUE, FALSE), Piece(r, FALSE, FALSE), Piece(r, FALSE, TRUE)}

Written(j, piece) ==
    IF j # <<>> /\ ~Last(j).ended THEN Append(Front(j), Glue(Last(j), piece))
    ELSE Append(j, piece)

Parses(line) == ~line.torn /\ Len(line.recs) = 1
Glued(j) == \E i \in DOMAIN j : Len(j[i].recs) + (IF j[i].torn THEN 1 ELSE 0) > 1
Repeated(j) ==
    \E a, b \in DOMAIN j : /\ a < b /\ Parses(j[a]) /\ Parses(j[b])
                           /\ j[b].recs[1].seq <= j[a].recs[1].seq
Gapped(j) ==
    \E a, b \in DOMAIN j : /\ b = a + 1 /\ Parses(j[a]) /\ Parses(j[b])
                           /\ j[b].recs[1].seq > j[a].recs[1].seq + 1

Down == [pc |-> "down", closing |-> FALSE, rows |-> {}, past |-> {}, loaded |-> TRUE,
         hist |-> 0, seq |-> 0, entries |-> 0]

Archived(s) == IF s.hist = 0 THEN {} ELSE sidecar[s.hist]
loadHistory(s) ==
    IF s.loaded THEN s ELSE [s EXCEPT !.past = Archived(s) \cup @, !.loaded = TRUE]
View(s) == [rows |-> s.rows, past |-> loadHistory(s).past]
Show(s, c) == [s EXCEPT !.rows = c.rows, !.past = c.past]
Raw(s) == [rows |-> s.rows, past |-> s.past]

StoreInit ==
    /\ journal = <<>>
    /\ snapshot = [exists |-> FALSE, seq |-> 0, rows |-> {}, hist |-> 0]
    /\ sidecar = [n \in 0 .. MaxOps |-> {}]
    /\ store = Down
    /\ truth = Nothing /\ maybe = Nothing
    /\ ops = 0 /\ storeFaults = 0

StoreFault == storeFaults < MaxStoreFaults /\ storeFaults' = storeFaults + 1

-----------------------------------------------------------------------------
(* init() *)

\* The replay so far: the process it has rebuilt, the last number seen, how many lines it has
\* taken in, and how it ends: "cut" before a last line that does not parse, "bad" at a line it
\* refuses, "whole" until then.
\* Mutant: records the snapshot includes are not expected in the journal.
ContiguousFresh(acc, r) ==
    IF acc.s.entries = 0 THEN r.seq = acc.s.seq + 1 ELSE r.seq = acc.last + 1

Contiguous(acc, r) ==
    IF r.seq > acc.s.seq
    THEN IF acc.s.entries = 0 THEN r.seq = acc.s.seq + 1 ELSE r.seq = acc.last + 1
    ELSE r.seq = acc.last + 1 \/ acc.last = 0

Replaying(acc, r, s) ==
    IF r.seq <= acc.s.seq THEN [acc EXCEPT !.last = r.seq, !.valid = @ + 1]
    ELSE [acc EXCEPT !.last = r.seq, !.valid = @ + 1,
                     !.s = [Show(s, applyOperation(Raw(s), r.op))
                              EXCEPT !.seq = r.seq, !.entries = @ + 1]]

\* Mutant: a rollback is replayed without the archived history.
ReplayRecordUnloaded(acc, r) == Replaying(acc, r, acc.s)

ReplayRecord(acc, r) ==
    Replaying(acc, r, IF r.op.kind = "drop" THEN loadHistory(acc.s) ELSE acc.s)

ReplayLine(acc, line) ==
    CASE acc.end # "whole" -> acc
      [] acc.end = "whole" /\ ~Parses(line) ->
             [acc EXCEPT !.end = IF acc.valid + 1 = Len(journal) THEN "cut" ELSE "bad"]
      [] acc.end = "whole" /\ Parses(line) ->
             IF Contiguous(acc, line.recs[1]) THEN ReplayRecord(acc, line.recs[1])
             ELSE [acc EXCEPT !.end = "bad"]

FromSnapshot ==
    [Down EXCEPT !.pc = "open", !.rows = snapshot.rows, !.hist = snapshot.hist,
                 !.loaded = snapshot.hist = 0, !.seq = snapshot.seq]

Replayed == FoldLeft(ReplayLine, [s |-> FromSnapshot, last |-> 0, valid |-> 0, end |-> "whole"], journal)

\* A torn last line is cut off; a journal the snapshot covers altogether is emptied.
Reclaimed(r) ==
    CASE r.end = "cut" -> SubSeq(journal, 1, r.valid)
      [] r.end = "whole" /\ r.s.entries = 0 -> <<>>
      [] OTHER -> journal

Open ==
    /\ store.pc = "down"
    /\ LET r == Replayed IN
       IF r.end = "bad"
       THEN /\ store' = [store EXCEPT !.pc = "refused"]
            /\ UNCHANGED <<journal, truth, maybe>>
       ELSE /\ journal' = Reclaimed(r)
            /\ store' = [r.s EXCEPT !.pc = IF snapshot.exists THEN "open" ELSE "sidecars"]
            /\ truth' = View(r.s) /\ maybe' = View(r.s)
    /\ UNCHANGED <<snapshot, sidecar, ops, storeFaults>>

-----------------------------------------------------------------------------
(* commit() *)

\* A rollback reads the history first, and undoes something that is in it.
Committing(op) ==
    /\ store.pc = "open" /\ ops < MaxOps /\ ops' = ops + 1
    /\ CASE op.kind = "drop" -> op.item \in View(store).past
         [] OTHER -> op.item = ops + 1

Before(op) == IF op.kind = "drop" THEN loadHistory(store) ELSE store

CommitOperation(op) ==
    /\ Committing(op)
    /\ LET s == Before(op)
           next == Show(s, applyOperation(Raw(s), op)) IN
       /\ journal' = Written(journal, Piece([seq |-> s.seq + 1, op |-> op], FALSE, TRUE))
       /\ store' = [next EXCEPT !.seq = @ + 1, !.entries = @ + 1,
                                !.pc = IF s.entries + 1 >= CompactAfter THEN "sidecars" ELSE "open"]
    /\ truth' = applyOperation(truth, op) /\ maybe' = applyOperation(truth, op)
    /\ UNCHANGED <<snapshot, sidecar, storeFaults>>

\* The write or the sync fails, or the process dies in it; the file keeps a part of the
\* record, or all of it with or without its newline, or nothing.
AppendFails(op) ==
    /\ Committing(op) /\ StoreFault
    /\ LET s == Before(op)
           r == [seq |-> s.seq + 1, op |-> op] IN
       /\ \/ UNCHANGED <<journal, maybe>>
          \/ \E piece \in Remains(r) :
                /\ journal' = Written(journal, piece)
                /\ maybe' = IF piece.torn THEN maybe ELSE applyOperation(truth, op)
       /\ store' \in {s, Down}
    /\ UNCHANGED <<snapshot, sidecar, truth>>

\* The first query after a start reads the history files.
LoadHistory ==
    /\ store.pc = "open" /\ ~store.loaded
    /\ store' = loadHistory(store)
    /\ UNCHANGED <<files, truth, maybe, ops, storeFaults>>

-----------------------------------------------------------------------------
(* compactSnapshot() *)

WriteSidecars ==
    /\ store.pc = "sidecars"
    /\ LET s == loadHistory(store) IN
       /\ sidecar' = IF s.past = {} THEN sidecar ELSE [sidecar EXCEPT ![s.seq] = s.past]
       /\ store' = [s EXCEPT !.pc = "rename"]
    /\ UNCHANGED <<journal, snapshot, truth, maybe, ops, storeFaults>>

SnapshotOf(s) ==
    [exists |-> TRUE, seq |-> s.seq, rows |-> s.rows, hist |-> IF s.past = {} THEN 0 ELSE s.seq]

RenameSnapshot ==
    /\ store.pc = "rename"
    /\ snapshot' = SnapshotOf(store)
    /\ store' = [store EXCEPT !.pc = "truncate"]
    /\ UNCHANGED <<journal, sidecar, truth, maybe, ops, storeFaults>>

TruncateJournal ==
    /\ store.pc = "truncate"
    /\ journal' = <<>> /\ maybe' = truth
    /\ store' = IF store.closing THEN Down ELSE [store EXCEPT !.pc = "open", !.entries = 0]
    /\ UNCHANGED <<snapshot, sidecar, truth, ops, storeFaults>>

\* A step of the compaction fails: the commit is reported as failed although it is in
\* memory and in the journal, and a later commit compacts again.
CompactionFails ==
    /\ store.pc \in {"sidecars", "rename", "truncate"} /\ snapshot.exists
    /\ StoreFault
    /\ store' = IF store.closing THEN Down ELSE [store EXCEPT !.pc = "open"]
    /\ UNCHANGED <<files, truth, maybe, ops>>

Close ==
    /\ store.pc = "open" /\ StoreFault
    /\ store' = IF store.entries > 0 THEN [store EXCEPT !.pc = "sidecars", !.closing = TRUE]
                ELSE Down
    /\ UNCHANGED <<files, truth, maybe, ops>>

StoreCrash ==
    /\ store.pc \notin {"down", "refused"} /\ StoreFault
    /\ store' = Down
    /\ UNCHANGED <<files, truth, maybe, ops>>

StoreNext ==
    \/ Open \/ LoadHistory \/ WriteSidecars \/ RenameSnapshot \/ TruncateJournal
    \/ CompactionFails \/ Close \/ StoreCrash
    \/ \E op \in Operations : CommitOperation(op) \/ AppendFails(op)

StoreSpec == StoreInit /\ [][StoreNext]_storeVars
-----------------------------------------------------------------------------
(* Properties *)

\* What memory has shown is there again after any restart, however the process ended,
\* unless the journal's last line had lost its newline and another record was put
\* behind it ("If append/fsync fails, the in-memory state remains unchanged").
RestartKeepsCommits ==
    [][store.pc = "down" /\ store'.pc \in {"open", "sidecars"} /\ ~Glued(journal)
         => truth' \in {truth, maybe}]_storeVars

\* The store opens again, wherever the process died, unless the journal shows one of three
\* blemishes: two records in one line, a number used twice (a failed append had reached the
\* file, and the process went on), or a number that is missing (the record was glued to
\* another, the snapshot already held it when the line was cut off, and the journal went on
\* behind the records that were kept).
RefusesOnlyBlemished ==
    store.pc = "refused" => Glued(journal) \/ Repeated(journal) \/ Gapped(journal)
=============================================================================
