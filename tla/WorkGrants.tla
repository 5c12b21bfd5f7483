------------------------------ MODULE WorkGrants ------------------------------
(* One Work Grant: work-grant-store.ts keeps it and the budget it has given to Runs; *)
(* runtime/engine.ts creates Runs under it, and ends it by revoking it, listing the  *)
(* owner's Runs page by page and marking the ones it finds.                          *)
EXTENDS Integers, FiniteSets, FiniteSetsExt

CONSTANTS
    GrantRuns,        \* ids of the Runs that may be created under the grant
    Total,            \* budget.total of the grant
    PerRun,           \* budget.perRun
    Requests,         \* what a Run may ask for
    MaxGrantFaults    \* bound: crashes, failed creations and failed revocations

ASSUME GrantAssumption ==
    /\ IsFiniteSet(GrantRuns)
    /\ Total \in Nat /\ PerRun \in Nat \ {0} /\ MaxGrantFaults \in Nat
    /\ Requests \subseteq Nat \ {0}

VARIABLES
    grantState,    \* active, revoked or expired
    allocation,    \* [Run -> its share, 0 while it has none]
    creation,      \* [Run -> how far its creation is and the budget it asks for]
    runRecord,     \* [Run -> its status and whether its frozen grant is marked revoked]
    revocation,    \* the step of revokeWorkGrant(), the Runs behind the cursor of its listing,
                   \* and those it has listed and still has to mark
    entitled,      \* history: Runs that got their share while the grant was active
    late,          \* history: Runs stored or retried when the listing had gone past them
    movedAhead,        \* history: Runs whose writing moved them ahead of its cursor, unlisted
    grantFaults

grantVars == <<grantState, allocation, creation, runRecord, revocation, entitled, late, movedAhead,
               grantFaults>>

NotCreating == [pc |-> "none", budget |-> 0]
NoRecord == [status |-> "none", marked |-> FALSE]
NoRevocation == [pc |-> "none", unread |-> {}, runs |-> {}]

GrantInit ==
    /\ grantState = "active"
    /\ allocation = [r \in GrantRuns |-> 0]
    /\ creation = [r \in GrantRuns |-> NotCreating]
    /\ runRecord = [r \in GrantRuns |-> NoRecord]
    /\ revocation = NoRevocation
    /\ entitled = {} /\ late = {} /\ movedAhead = {} /\ grantFaults = 0

Allocated == {r \in GrantRuns : allocation[r] > 0}
Spent == MapThenSumSet(LAMBDA r : allocation[r], GrantRuns)
Remaining == IF Spent < Total THEN Total - Spent ELSE 0
Active == grantState = "active" /\ Remaining > 0
Smaller(a, b) == IF a <= b THEN a ELSE b

-----------------------------------------------------------------------------
(* create() under a grant *)

\* loadWorkGrant(): checked before anything else is prepared, with the budget of the moment.
Load(r, asked) ==
    /\ creation[r].pc = "none" /\ runRecord[r].status = "none"
    /\ Active
    /\ creation' = [creation EXCEPT ![r] =
                       [pc |-> "loaded", budget |-> Smaller(Smaller(PerRun, Remaining), asked)]]
    /\ UNCHANGED <<grantState, allocation, runRecord, revocation, entitled, late, movedAhead, grantFaults>>

\* Mutant: the budget computed when the grant was loaded is given without looking again.
ShareAsLoaded(r) == creation[r].budget

Share(r) == Smaller(Smaller(PerRun, Remaining), creation[r].budget)

\* Mutant: the grant that was active when it was loaded is still taken to be.
AllocatableAsLoaded == Remaining > 0

Allocatable == Active

\* allocateWorkGrant(), under the store's lock; a Run that has its share keeps it.
Allocate(r) ==
    /\ creation[r].pc = "loaded"
    /\ IF r \in Allocated
       THEN /\ creation' = [creation EXCEPT ![r].pc = "allocated"]
            /\ UNCHANGED <<allocation, entitled>>
       ELSE IF Allocatable
       THEN /\ allocation' = [allocation EXCEPT ![r] = Share(r)]
            /\ creation' = [creation EXCEPT ![r].pc = "allocated"]
            /\ entitled' = IF Active THEN entitled \cup {r} ELSE entitled
       ELSE /\ creation' = [creation EXCEPT ![r] = NotCreating]
            /\ UNCHANGED <<allocation, entitled>>
    /\ UNCHANGED <<grantState, runRecord, revocation, late, movedAhead, grantFaults>>

\* The first page has been read.
Listing == revocation.pc \in {"paging", "marking", "done"}

\* repository.create() of the Run with its frozen copy of the grant.  Its time is that at
\* which create() began, so it may also come behind the cursor of a listing.
StoreRun(r) ==
    /\ creation[r].pc = "allocated"
    /\ creation' = [creation EXCEPT ![r] = NotCreating]
    /\ runRecord' = [runRecord EXCEPT ![r] = [status |-> "runnable", marked |-> FALSE]]
    /\ \/ /\ late' = IF Listing /\ r \in entitled THEN late \cup {r} ELSE late
          /\ UNCHANGED revocation
       \/ /\ revocation.pc = "paging"
          /\ revocation' = [revocation EXCEPT !.unread = @ \cup {r}]
          /\ UNCHANGED late
    /\ UNCHANGED <<grantState, allocation, entitled, movedAhead, grantFaults>>

GrantFault == grantFaults < MaxGrantFaults /\ grantFaults' = grantFaults + 1

\* Preparing fails: the share stays with the id, which a task's next attempt uses again.
CreationFails(r) ==
    /\ creation[r].pc # "none" /\ GrantFault
    /\ creation' = [creation EXCEPT ![r] = NotCreating]
    /\ UNCHANGED <<grantState, allocation, runRecord, revocation, entitled, late, movedAhead>>

-----------------------------------------------------------------------------
(* The Run *)

\* mutate(): every write sets updatedAt, by which the Runs are listed, the last written first.
\* The Run moves ahead of the cursor of a listing that has not come to it, or keeps its
\* place behind it when the clock does not tell the two moments apart.
Write(r, record) ==
    /\ runRecord' = [runRecord EXCEPT ![r] = record]
    /\ \/ UNCHANGED <<revocation, movedAhead>>
       \/ /\ r \in revocation.unread
          /\ revocation' = [revocation EXCEPT !.unread = @ \ {r}]
          /\ movedAhead' = movedAhead \cup {r}

\* Whatever else is written to a stored Run: an event, a model call, a setting.
Proceeds(r) ==
    /\ runRecord[r].status # "none"
    /\ Write(r, runRecord[r])
    /\ UNCHANGED <<grantState, allocation, creation, entitled, late, grantFaults>>

Ends(r, status) ==
    /\ runRecord[r].status = "runnable"
    /\ Write(r, [runRecord[r] EXCEPT !.status = status])
    /\ UNCHANGED <<grantState, allocation, creation, entitled, late, grantFaults>>

Resume(r) ==
    /\ runRecord[r].status = "paused"
    /\ Write(r, [runRecord[r] EXCEPT !.status = "runnable"])
    /\ UNCHANGED <<grantState, allocation, creation, entitled, late, grantFaults>>

\* retry(): the frozen grant of a Run that had failed is not looked at.
Retry(r) ==
    /\ runRecord[r].status = "failed"
    /\ Write(r, [runRecord[r] EXCEPT !.status = "runnable"])
    /\ late' = IF Listing /\ r \notin revocation.unread \cup revocation.runs
               THEN late \cup {r} ELSE late
    /\ UNCHANGED <<grantState, allocation, creation, entitled, grantFaults>>

-----------------------------------------------------------------------------
(* The end of the grant *)

Expire ==
    /\ grantState = "active" /\ grantState' = "expired"
    /\ UNCHANGED <<allocation, creation, runRecord, revocation, entitled, late, movedAhead, grantFaults>>

\* revokeWorkGrant(): the store first; asking again, after it has returned or failed, goes
\* through the Runs once more.
Revoke ==
    /\ revocation.pc \in {"none", "done"}
    /\ grantState' = "revoked"
    /\ revocation' = [NoRevocation EXCEPT !.pc = "listing"]
    /\ late' = {} /\ movedAhead' = {}
    /\ UNCHANGED <<allocation, creation, runRecord, entitled, grantFaults>>

Unfinished(r) == runRecord[r].status \in {"runnable", "paused"}

\* ownerRuns() reads the owner's Runs in pages, each behind the cursor that the page before
\* left.  How many of the grant's Runs a page holds depends on when each was written and on
\* the owner's other Runs: it may hold any of those still unread, or none.
Unread ==
    IF revocation.pc = "listing" THEN {r \in GrantRuns : runRecord[r].status # "none"}
    ELSE revocation.unread

\* Judged as the page has them: the copies are not read again before the Runs are marked.
Selected(page) == {r \in page : Unfinished(r) /\ ~runRecord[r].marked}

ListPage(page) ==
    /\ revocation.pc \in {"listing", "paging"} /\ page \subseteq Unread
    /\ revocation' = [pc |-> "paging", unread |-> Unread \ page,
                      runs |-> revocation.runs \cup Selected(page)]
    /\ UNCHANGED <<grantState, allocation, creation, runRecord, entitled, late, movedAhead, grantFaults>>

\* The page without a next cursor.
ListLastPage ==
    /\ revocation.pc \in {"listing", "paging"}
    /\ revocation' = [pc |-> "marking", unread |-> {}, runs |-> revocation.runs \cup Selected(Unread)]
    /\ UNCHANGED <<grantState, allocation, creation, runRecord, entitled, late, movedAhead, grantFaults>>

MarkedRevoked(r) == [status |-> "paused", marked |-> TRUE]

\* The Run is looked at again under its own lock; one that has ended is left alone.
MarkRun(r) ==
    /\ revocation.pc = "marking" /\ r \in revocation.runs
    /\ revocation' = [revocation EXCEPT !.runs = @ \ {r}]
    /\ runRecord' = IF Unfinished(r) THEN [runRecord EXCEPT ![r] = MarkedRevoked(r)] ELSE runRecord
    /\ UNCHANGED <<grantState, allocation, creation, entitled, late, movedAhead, grantFaults>>

RevokeDone ==
    /\ revocation.pc = "marking" /\ revocation.runs = {}
    /\ revocation' = [revocation EXCEPT !.pc = "done"]
    /\ UNCHANGED <<grantState, allocation, creation, runRecord, entitled, late, movedAhead, grantFaults>>

\* A page that cannot be read or a Run that cannot be written ends the call where it is.
RevokeFails ==
    /\ revocation.pc \in {"listing", "paging", "marking"} /\ GrantFault
    /\ revocation' = NoRevocation
    /\ UNCHANGED <<grantState, allocation, creation, runRecord, entitled, late, movedAhead>>

\* The process ends: creations stop where they are, and a revocation has to be asked again.
GrantCrash ==
    /\ GrantFault
    /\ creation' = [r \in GrantRuns |-> NotCreating]
    /\ revocation' = IF revocation.pc = "done" THEN revocation ELSE NoRevocation
    /\ UNCHANGED <<grantState, allocation, runRecord, entitled, late, movedAhead>>

GrantNext ==
    \/ \E r \in GrantRuns :
          \/ \E asked \in Requests : Load(r, asked)
          \/ Allocate(r) \/ StoreRun(r) \/ CreationFails(r)
          \/ \E s \in {"failed", "succeeded", "paused"} : Ends(r, s)
          \/ Proceeds(r) \/ Resume(r) \/ Retry(r) \/ MarkRun(r)
    \/ \E page \in SUBSET GrantRuns : ListPage(page)
    \/ ListLastPage \/ Expire \/ Revoke \/ RevokeDone \/ RevokeFails \/ GrantCrash

GrantSpec == GrantInit /\ [][GrantNext]_grantVars
-----------------------------------------------------------------------------
(* Properties *)

GrantTypeOK ==
    /\ grantState \in {"active", "revoked", "expired"}
    /\ allocation \in [GrantRuns -> Nat]
    /\ \A r \in GrantRuns :
         /\ creation[r].pc \in {"none", "loaded", "allocated"} /\ creation[r].budget \in Nat
         /\ runRecord[r].status \in {"none", "runnable", "paused", "failed", "succeeded"}
         /\ runRecord[r].marked \in BOOLEAN
    /\ revocation.pc \in {"none", "listing", "paging", "marking", "done"}
    /\ revocation.unread \subseteq GrantRuns /\ revocation.runs \subseteq GrantRuns
    /\ entitled \subseteq GrantRuns /\ late \subseteq GrantRuns /\ movedAhead \subseteq GrantRuns

\* However many creations loaded the grant before any of them took its share, were refused,
\* failed or were repeated, the shares given out never exceed what the grant allows, and
\* every stored Run has one.
SharesWithinTotal ==
    /\ Spent <= Total
    /\ \A r \in GrantRuns : allocation[r] <= PerRun
    /\ \A r \in GrantRuns : runRecord[r].status # "none" => allocation[r] > 0

\* When a revocation has returned, no unfinished Run acts under the grant any more, but for
\* three kinds that escape it and keep an unmarked copy: a Run that had its share before and
\* was stored once the first page had been read; one that had failed when its page was read
\* and has been retried since; and one that was written, by whatever it or its owner did,
\* between two pages, which moved it ahead of the cursor before its page was read.  Asking
\* again reaches those that escaped, unless it happens to them again.
RevocationReachesRuns ==
    revocation.pc = "done" =>
        \A r \in GrantRuns : Unfinished(r) /\ ~runRecord[r].marked => r \in late \cup movedAhead
=============================================================================
