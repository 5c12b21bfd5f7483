----------------------------- MODULE Grants_proofs -----------------------------
(* Proofs about the grants, the account and the routines: the sums and the shares a   *)
(* Work Grant gives out, the revocation that reaches its Runs, the one decision of a  *)
(* delegation, what the global account counts, and the starts of a routine.           *)
EXTENDS WorkGrants, AgentGrants, GlobalBudget, Routines, FiniteSetTheorems, SequenceTheorems,
        WellFoundedInduction, TLAPS

-----------------------------------------------------------------------------
(* Sums over a finite set *)

\* A set with f[x] members for each x of s: its size is the sum of f over s.
Tokens(f, s) == {p \in s \X Nat : 1 <= p[2] /\ p[2] <= f[p[1]]}
SumOf(f, s) == Cardinality(Tokens(f, s))

\* Two finite sets with nothing in common have as many members as the two together.
LEMMA TwoParts ==
    ASSUME NEW A, NEW B, IsFiniteSet(A), IsFiniteSet(B), A \cap B = {}
    PROVE  IsFiniteSet(A \cup B) /\ Cardinality(A \cup B) = Cardinality(A) + Cardinality(B)
<1>1. /\ IsFiniteSet(A \cup B)
      /\ Cardinality(A \cup B) = Cardinality(A) + Cardinality(B) - Cardinality(A \cap B)
  BY FS_Union
<1>2. Cardinality(A \cap B) = 0
  BY FS_EmptySet
<1>3. Cardinality(A) \in Nat /\ Cardinality(B) \in Nat
  BY FS_CardinalityType
<1> QED BY <1>1, <1>2, <1>3

LEMMA OneMore ==
    ASSUME NEW f, NEW s, NEW x \in s, f[x] \in Nat, IsFiniteSet(Tokens(f, s \ {x}))
    PROVE  /\ IsFiniteSet(Tokens(f, s))
           /\ SumOf(f, s) = f[x] + SumOf(f, s \ {x}) /\ SumOf(f, s \ {x}) \in Nat
<1> DEFINE new == {x} \X (1 .. f[x])
<1>1. IsFiniteSet(1 .. f[x]) /\ Cardinality(1 .. f[x]) = f[x]
  <2>1. 1 \in Int /\ f[x] \in Int /\ (IF 1 > f[x] THEN f[x] = 0 ELSE f[x] - 1 + 1 = f[x])
    OBVIOUS
  <2>2. /\ IsFiniteSet(1 .. f[x])
        /\ Cardinality(1 .. f[x]) = IF 1 > f[x] THEN 0 ELSE f[x] - 1 + 1
    BY <2>1, FS_Interval, Zenon
  <2> QED BY <2>1, <2>2
<1>2. IsFiniteSet(new) /\ Cardinality(new) = f[x]
  <2>1. IsFiniteSet({x}) /\ Cardinality({x}) = 1
    BY FS_Singleton
  <2>2. IsFiniteSet(new) /\ Cardinality(new) = Cardinality({x}) * Cardinality(1 .. f[x])
    BY <1>1, <2>1, FS_Product, Zenon
  <2>3. Cardinality(new) = 1 * f[x]
    BY <1>1, <2>1, <2>2
  <2> QED BY <2>2, <2>3
<1>3. Tokens(f, s) = Tokens(f, s \ {x}) \cup new
  <2>1. ASSUME NEW p \in Tokens(f, s) PROVE p \in Tokens(f, s \ {x}) \cup new
    <3>1. p \in s \X Nat /\ 1 <= p[2] /\ p[2] <= f[p[1]]
      BY <2>1 DEF Tokens
    <3>2. CASE p[1] = x
      <4>1. p = <<p[1], p[2]>> /\ p[2] \in 1 .. f[x]
        BY <3>1, <3>2
      <4> QED BY <3>2, <4>1
    <3>3. CASE p[1] # x
      BY <3>1, <3>3 DEF Tokens
    <3> QED BY <3>2, <3>3
  <2>2. new \subseteq Tokens(f, s)
    BY DEF Tokens
  <2>3. Tokens(f, s \ {x}) \subseteq Tokens(f, s)
    BY DEF Tokens
  <2> QED BY <2>1, <2>2, <2>3
<1>4. Tokens(f, s \ {x}) \cap new = {}
  BY DEF Tokens
<1>5. SumOf(f, s \ {x}) \in Nat
  BY FS_CardinalityType DEF SumOf
<1>6. IsFiniteSet(new)
  BY <1>2
<1> HIDE DEF new
<1>7. /\ IsFiniteSet(Tokens(f, s \ {x}) \cup new)
      /\ Cardinality(Tokens(f, s \ {x}) \cup new) =
             Cardinality(Tokens(f, s \ {x})) + Cardinality(new)
  BY <1>4, <1>6, TwoParts
<1> QED BY <1>2, <1>3, <1>5, <1>7 DEF SumOf

\* Over a finite set that collection is finite: a smallest part of it for which it is not
\* has a member to take off.
LEMMA TokensFinite ==
    ASSUME NEW S, IsFiniteSet(S), NEW f, \A x \in S : f[x] \in Nat
    PROVE  \A s \in SUBSET S : IsFiniteSet(Tokens(f, s))
<1> DEFINE R == StrictSubsetOrdering(S)
           F == FiniteSubsetsOf(S)
           Bad == {s \in SUBSET S : ~ IsFiniteSet(Tokens(f, s))}
<1> SUFFICES ASSUME Bad # {} PROVE FALSE
  OBVIOUS
<1>1. IsWellFoundedOn(R, F)
  BY FS_StrictSubsetOrderingWellFounded
<1>2. Bad \subseteq F
  BY FS_FiniteSubsetsOfFinite
<1> HIDE DEF Bad, R, F
<1>3. PICK s \in Bad : \A t \in Bad : ~ (<<t, s>> \in R)
  BY <1>1, <1>2, WFMin
<1> USE DEF Bad, R
<1>4. s \in SUBSET S
  OBVIOUS
<1>5. CASE s = {}
  <2>1. Tokens(f, s) = {}
    BY <1>5 DEF Tokens
  <2>2. IsFiniteSet({})
    BY FS_EmptySet
  <2> QED BY <2>1, <2>2
<1>6. CASE s # {}
  <2>1. PICK x \in s : TRUE
    BY <1>6
  <2>2. s \ {x} \in SUBSET S /\ <<s \ {x}, s>> \in StrictSubsetOrdering(S)
    BY <1>4 DEF StrictSubsetOrdering
  <2>3. IsFiniteSet(Tokens(f, s \ {x}))
    BY <1>3, <2>2
  <2>4. f[x] \in Nat
    BY <1>4
  <2>5. IsFiniteSet(Tokens(f, s))
    BY <2>3, <2>4, OneMore
  <2> QED BY <2>5
<1> QED BY <1>5, <1>6

\* A recursion that takes one member off a part of the set is the sum over that part.
LEMMA FoldIsSum ==
    ASSUME NEW S, IsFiniteSet(S), NEW f, \A x \in S : f[x] \in Nat, NEW g,
           \A s \in SUBSET S : IF s = {} THEN g[s] = 0
                               ELSE \E x \in s : g[s] = f[x] + g[s \ {x}] \/ g[s] = g[s \ {x}] + f[x]
    PROVE  \A s \in SUBSET S : g[s] = SumOf(f, s) /\ g[s] \in Nat
<1> DEFINE R == StrictSubsetOrdering(S)
           F == FiniteSubsetsOf(S)
           Good(s) == g[s] = SumOf(f, s) /\ g[s] \in Nat
           Bad == {s \in SUBSET S : ~ Good(s)}
<1> SUFFICES ASSUME Bad # {} PROVE FALSE
  OBVIOUS
<1>1. IsWellFoundedOn(R, F)
  BY FS_StrictSubsetOrderingWellFounded
<1>2. Bad \subseteq F
  BY FS_FiniteSubsetsOfFinite
<1> HIDE DEF Bad, R, F
<1>3. PICK s \in Bad : \A t \in Bad : ~ (<<t, s>> \in R)
  BY <1>1, <1>2, WFMin
<1> USE DEF Bad, R
<1>4. s \in SUBSET S
  OBVIOUS
<1>5. CASE s = {}
  <2>1. Tokens(f, s) = {}
    BY <1>5 DEF Tokens
  <2>2. Cardinality({}) = 0
    BY FS_EmptySet
  <2>3. g[s] = 0
    BY <1>4, <1>5
  <2>4. Good(s)
    BY <2>1, <2>2, <2>3 DEF SumOf
  <2> QED BY <2>4
<1>6. CASE s # {}
  <2>1. PICK x \in s : g[s] = f[x] + g[s \ {x}] \/ g[s] = g[s \ {x}] + f[x]
    BY <1>4, <1>6
  <2>2. s \ {x} \in SUBSET S /\ <<s \ {x}, s>> \in StrictSubsetOrdering(S)
    BY <1>4 DEF StrictSubsetOrdering
  <2>3. Good(s \ {x})
    BY <1>3, <2>2
  <2>4. f[x] \in Nat
    BY <1>4
  <2>5. IsFiniteSet(Tokens(f, s \ {x}))
    BY <2>2, TokensFinite
  <2>6. SumOf(f, s) = f[x] + SumOf(f, s \ {x})
    BY <2>4, <2>5, OneMore
  <2>7. Good(s)
    BY <2>1, <2>3, <2>4, <2>6
  <2> QED BY <2>7
<1> QED BY <1>5, <1>6

\* A sum is a number.
LEMMA SumIsNumber ==
    ASSUME NEW S, IsFiniteSet(S), NEW f, \A y \in S : f[y] \in Nat
    PROVE  SumOf(f, S) \in Nat
<1>1. IsFiniteSet(Tokens(f, S))
  BY TokensFinite
<1> QED BY <1>1, FS_CardinalityType DEF SumOf

\* The sum over a part of the set, one member taken off.
LEMMA OneOff ==
    ASSUME NEW S, IsFiniteSet(S), NEW f, \A y \in S : f[y] \in Nat, NEW s \in SUBSET S, NEW x \in s
    PROVE  SumOf(f, s) = f[x] + SumOf(f, s \ {x}) /\ SumOf(f, s \ {x}) \in Nat
<1>1. f[x] \in Nat /\ s \ {x} \in SUBSET S
  OBVIOUS
<1>2. IsFiniteSet(Tokens(f, s \ {x}))
  BY <1>1, TokensFinite
<1>3. x \in s
  OBVIOUS
<1>4. /\ IsFiniteSet(Tokens(f, s))
      /\ SumOf(f, s) = f[x] + SumOf(f, s \ {x}) /\ SumOf(f, s \ {x}) \in Nat
  BY ONLY <1>1, <1>2, <1>3, OneMore
<1> QED BY <1>4

\* Two families that agree but at one member: their sums differ by what it has in each.
LEMMA OneChanges ==
    ASSUME NEW S, IsFiniteSet(S), NEW f, NEW g, \A y \in S : f[y] \in Nat /\ g[y] \in Nat,
           NEW x \in S, \A y \in S \ {x} : g[y] = f[y]
    PROVE  SumOf(g, S) + f[x] = SumOf(f, S) + g[x]
<1>1. S \ {x} \in SUBSET S /\ f[x] \in Nat /\ g[x] \in Nat
  OBVIOUS
<1>2. IsFiniteSet(Tokens(f, S \ {x}))
  BY <1>1, TokensFinite
<1>3. IsFiniteSet(Tokens(g, S \ {x}))
  BY <1>1, TokensFinite
<1>4. SumOf(f, S) = f[x] + SumOf(f, S \ {x}) /\ SumOf(f, S \ {x}) \in Nat
  BY <1>1, <1>2, OneMore
<1>5. SumOf(g, S) = g[x] + SumOf(g, S \ {x})
  BY <1>1, <1>3, OneMore
<1>6. Tokens(f, S \ {x}) = Tokens(g, S \ {x})
  BY DEF Tokens
<1>7. SumOf(f, S \ {x}) = SumOf(g, S \ {x})
  BY <1>6 DEF SumOf
<1> QED BY <1>1, <1>4, <1>5, <1>7

\* Families that agree have the same sum.
LEMMA SameSum ==
    ASSUME NEW S, NEW f, NEW g, \A y \in S : g[y] = f[y]
    PROVE  SumOf(g, S) = SumOf(f, S)
<1>1. Tokens(f, S) = Tokens(g, S)
  BY DEF Tokens
<1> QED BY <1>1 DEF SumOf

\* Nothing anywhere adds up to nothing.
LEMMA NoSum ==
    ASSUME NEW S, NEW f, \A y \in S : f[y] = 0
    PROVE  SumOf(f, S) = 0
<1>1. Tokens(f, S) = {}
  <2> SUFFICES ASSUME NEW p \in Tokens(f, S) PROVE FALSE
    OBVIOUS
  <2>1. p[1] \in S /\ p[2] \in Nat /\ 1 <= p[2] /\ p[2] <= f[p[1]]
    BY DEF Tokens
  <2> QED BY <2>1
<1>2. Cardinality({}) = 0
  BY FS_EmptySet
<1> QED BY <1>1, <1>2 DEF SumOf

-----------------------------------------------------------------------------
(* The revocation of a Work Grant *)

\* What budget a creation asks for does not matter here.
CreationSteps(budgets) == [GrantRuns -> [pc : {"none", "loaded", "allocated"}, budget : budgets]]

RunCopies == [status : {"none", "runnable", "paused", "failed", "succeeded"}, marked : BOOLEAN]
Revocations ==
    [pc : {"none", "listing", "paging", "marking", "done"}, unread : SUBSET GrantRuns, runs : SUBSET GrantRuns]
RunsAndRevocation == runRecord \in [GrantRuns -> RunCopies] /\ revocation \in Revocations

GrantRecords ==
    /\ \E budgets : creation \in CreationSteps(budgets)
    /\ allocation = [r \in GrantRuns |-> allocation[r]]
    /\ RunsAndRevocation

\* A share is given while the grant is active, and a Run is stored with one.
SharesEntitled ==
    \A r \in GrantRuns :
        /\ r \in Allocated => r \in entitled
        /\ creation[r].pc = "allocated" => r \in entitled

\* Once the first page has been read, what still acts under the grant has its page or its
\* marking ahead of it, or has escaped.
RevocationOnCourse ==
    /\ revocation.pc # "paging" => revocation.unread = {}
    /\ revocation.pc = "done" => revocation.runs = {}
    /\ \A r \in GrantRuns :
          Listing /\ Unfinished(r) /\ ~runRecord[r].marked =>
              r \in revocation.unread \cup revocation.runs \cup late \cup movedAhead

GrantInv == GrantRecords /\ SharesEntitled /\ RevocationOnCourse

LEMMA GrantStart == GrantInit => GrantInv
<1> SUFFICES ASSUME GrantInit PROVE GrantInv
  OBVIOUS
<1>1. creation \in CreationSteps({0})
  BY DEF GrantInit, NotCreating, CreationSteps
<1>2. GrantRecords
  BY <1>1 DEF GrantInit, GrantRecords, RunsAndRevocation, RunCopies, Revocations, NoRecord,
              NoRevocation
<1> QED BY <1>2
        DEF GrantInit, GrantInv, SharesEntitled, RevocationOnCourse, NotCreating, NoRevocation,
            Listing, Allocated

\* A step of a creation that enters no Run and takes no share without a right to it.
LEMMA CreationMoves ==
    ASSUME GrantInv, NEW r \in GrantRuns, NEW new,
           creation' = [creation EXCEPT ![r] = new],
           \E b : new \in [pc : {"none", "loaded", "allocated"}, budget : {b}],
           new.pc = "allocated" => r \in entitled',
           \A q \in GrantRuns \ {r} : allocation'[q] = allocation[q],
           allocation' = [q \in GrantRuns |-> allocation'[q]],
           r \in Allocated' => r \in entitled',
           entitled \subseteq entitled'
    PROVE  SharesEntitled' /\ \E budgets : creation' \in CreationSteps(budgets)
<1>1. PICK budgets : creation \in CreationSteps(budgets)
  BY DEF GrantInv, GrantRecords
<1>2. PICK b : new \in [pc : {"none", "loaded", "allocated"}, budget : {b}]
  OBVIOUS
<1>3. creation' \in CreationSteps(budgets \cup {b})
  BY <1>1, <1>2 DEF CreationSteps
<1>4. creation'[r] = new /\ \A q \in GrantRuns \ {r} : creation'[q] = creation[q]
  BY <1>1 DEF CreationSteps
<1> QED BY <1>3, <1>4 DEF GrantInv, SharesEntitled, Allocated

\* What a write of a Run does to a listing that is under way: the Run moves at most out of
\* what is still unread, and then it counts as moved ahead of the cursor.
LEMMA OneRunWritten ==
    ASSUME RunsAndRevocation, NEW r \in GrantRuns, NEW record \in RunCopies, Write(r, record)
    PROVE  /\ RunsAndRevocation'
           /\ runRecord'[r] = record /\ \A q \in GrantRuns \ {r} : runRecord'[q] = runRecord[q]
           /\ revocation'.pc = revocation.pc /\ revocation'.runs = revocation.runs
           /\ revocation'.unread \subseteq revocation.unread
           /\ revocation.unread \subseteq revocation'.unread \cup movedAhead'
           /\ movedAhead \subseteq movedAhead' /\ movedAhead' \subseteq movedAhead \cup {r}
<1>1. /\ runRecord' = [runRecord EXCEPT ![r] = record]
      /\ \/ revocation' = revocation /\ movedAhead' = movedAhead
         \/ /\ revocation' = [revocation EXCEPT !.unread = @ \ {r}]
            /\ movedAhead' = movedAhead \cup {r}
  BY DEF Write
<1>2. runRecord' \in [GrantRuns -> RunCopies] /\ runRecord'[r] = record
      /\ \A q \in GrantRuns \ {r} : runRecord'[q] = runRecord[q]
  BY <1>1 DEF RunsAndRevocation
<1>3. CASE revocation' = revocation /\ movedAhead' = movedAhead
  BY <1>2, <1>3 DEF RunsAndRevocation
<1>4. CASE /\ revocation' = [revocation EXCEPT !.unread = @ \ {r}]
           /\ movedAhead' = movedAhead \cup {r}
  <2>1. /\ revocation' \in Revocations /\ revocation'.unread = revocation.unread \ {r}
        /\ revocation'.pc = revocation.pc /\ revocation'.runs = revocation.runs
    BY <1>4 DEF RunsAndRevocation, Revocations
  <2> QED BY <1>2, <1>4, <2>1 DEF RunsAndRevocation
<1> QED BY <1>1, <1>2, <1>3, <1>4

\* The steps of a stored Run: one that was over acts again only ahead of its marking or as
\* one that was late.
LEMMA RunGoesOn ==
    ASSUME RunsAndRevocation, NEW r \in GrantRuns,
           \/ \E s \in {"failed", "succeeded", "paused"} : Ends(r, s)
           \/ Proceeds(r) \/ Resume(r) \/ Retry(r)
    PROVE  /\ RunsAndRevocation' /\ \A q \in GrantRuns \ {r} : runRecord'[q] = runRecord[q]
           /\ runRecord[r].status # "none" /\ runRecord'[r].marked = runRecord[r].marked
           /\ revocation'.pc = revocation.pc /\ revocation'.runs = revocation.runs
           /\ revocation'.unread \subseteq revocation.unread
           /\ revocation.unread \subseteq revocation'.unread \cup movedAhead'
           /\ movedAhead \subseteq movedAhead' /\ movedAhead' \subseteq movedAhead \cup {r}
           /\ late \subseteq late' /\ late' \subseteq late \cup {r}
           /\ Unfinished(r)' /\ ~Unfinished(r) /\ Listing =>
                  r \in revocation.unread \cup revocation.runs \cup late'
           /\ UNCHANGED <<grantState, allocation, creation, entitled>>
<1>1. runRecord[r] \in RunCopies
  BY DEF RunsAndRevocation
<1>2. PICK record \in RunCopies :
          /\ Write(r, record) /\ record.marked = runRecord[r].marked /\ runRecord[r].status # "none"
          /\ \/ late' = late /\ (record.status \in {"runnable", "paused"} => Unfinished(r))
             \/ late' = IF Listing /\ r \notin revocation.unread \cup revocation.runs
                        THEN late \cup {r} ELSE late
  <2>1. CASE \E s \in {"failed", "succeeded", "paused"} : Ends(r, s)
    <3>1. PICK s \in {"failed", "succeeded", "paused"} : Ends(r, s)
      BY <2>1
    <3> QED BY <1>1, <3>1 DEF Ends, RunCopies, Unfinished
  <2>2. CASE Proceeds(r)
    BY <1>1, <2>2 DEF Proceeds, RunCopies, Unfinished
  <2>3. CASE Resume(r)
    BY <1>1, <2>3 DEF Resume, RunCopies, Unfinished
  <2>4. CASE Retry(r)
    BY <1>1, <2>4 DEF Retry, RunCopies
  <2> QED BY <2>1, <2>2, <2>3, <2>4
<1>3. /\ RunsAndRevocation'
      /\ runRecord'[r] = record /\ \A q \in GrantRuns \ {r} : runRecord'[q] = runRecord[q]
      /\ revocation'.pc = revocation.pc /\ revocation'.runs = revocation.runs
      /\ revocation'.unread \subseteq revocation.unread
      /\ revocation.unread \subseteq revocation'.unread \cup movedAhead'
      /\ movedAhead \subseteq movedAhead' /\ movedAhead' \subseteq movedAhead \cup {r}
  BY <1>2, OneRunWritten
<1>4. UNCHANGED <<grantState, allocation, creation, entitled>>
  BY DEF Ends, Proceeds, Resume, Retry
<1> QED BY <1>2, <1>3, <1>4 DEF Unfinished

\* A Run entering the repository while it is listed comes behind the cursor, or is late.
LEMMA RunStored ==
    ASSUME RunsAndRevocation, NEW r \in GrantRuns, StoreRun(r)
    PROVE  /\ RunsAndRevocation' /\ \A q \in GrantRuns \ {r} : runRecord'[q] = runRecord[q]
           /\ revocation'.pc = revocation.pc /\ revocation'.runs = revocation.runs
           /\ revocation'.unread = revocation.unread \/
                  (revocation.pc = "paging" /\ revocation'.unread = revocation.unread \cup {r})
           /\ late \subseteq late' /\ late' \subseteq late \cup {r} /\ movedAhead' = movedAhead
           /\ Listing /\ r \in entitled => r \in revocation'.unread \cup late'
<1>1. /\ runRecord' = [runRecord EXCEPT ![r] = [status |-> "runnable", marked |-> FALSE]]
      /\ movedAhead' = movedAhead
      /\ \/ /\ late' = IF Listing /\ r \in entitled THEN late \cup {r} ELSE late
            /\ revocation' = revocation
         \/ /\ revocation.pc = "paging" /\ late' = late
            /\ revocation' = [revocation EXCEPT !.unread = @ \cup {r}]
  BY DEF StoreRun
<1>2. runRecord' \in [GrantRuns -> RunCopies] /\ \A q \in GrantRuns \ {r} : runRecord'[q] = runRecord[q]
  BY <1>1 DEF RunsAndRevocation, RunCopies
<1>3. CASE /\ late' = IF Listing /\ r \in entitled THEN late \cup {r} ELSE late
           /\ revocation' = revocation
  BY <1>1, <1>2, <1>3 DEF RunsAndRevocation
<1>4. CASE /\ revocation.pc = "paging" /\ late' = late
           /\ revocation' = [revocation EXCEPT !.unread = @ \cup {r}]
  <2>1. /\ revocation' \in Revocations /\ revocation'.unread = revocation.unread \cup {r}
        /\ revocation'.pc = revocation.pc /\ revocation'.runs = revocation.runs
    BY <1>4 DEF RunsAndRevocation, Revocations
  <2> QED BY <1>1, <1>2, <1>4, <2>1 DEF RunsAndRevocation
<1> QED BY <1>1, <1>3, <1>4

LEMMA GrantStep ==
    ASSUME GrantInv, [GrantNext]_grantVars
    PROVE  GrantInv'
<1>0. GrantRecords /\ SharesEntitled /\ RevocationOnCourse
  BY DEF GrantInv
<1>01. \A r \in GrantRuns : \E b : creation[r] \in [pc : {"none", "loaded", "allocated"}, budget : {b}]
  <2>1. PICK budgets : creation \in CreationSteps(budgets)
    BY <1>0 DEF GrantRecords
  <2> SUFFICES ASSUME NEW r \in GrantRuns
               PROVE  \E b : creation[r] \in [pc : {"none", "loaded", "allocated"}, budget : {b}]
    OBVIOUS
  <2>2. creation[r] \in [pc : {"none", "loaded", "allocated"}, budget : budgets]
    BY <2>1 DEF CreationSteps
  <2>3. creation[r] \in [pc : {"none", "loaded", "allocated"}, budget : {creation[r].budget}]
    BY <2>2
  <2> QED BY <2>3
<1>1. ASSUME NEW r \in GrantRuns, NEW asked \in Requests, Load(r, asked) PROVE GrantInv'
  <2> DEFINE b == Smaller(Smaller(PerRun, Remaining), asked)
             new == [pc |-> "loaded", budget |-> b]
  <2>1. creation' = [creation EXCEPT ![r] = new]
    BY <1>1 DEF Load
  <2> HIDE DEF b
  <2>2. new \in [pc : {"none", "loaded", "allocated"}, budget : {b}] /\ new.pc = "loaded"
    OBVIOUS
  <2> HIDE DEF new
  <2>3. UNCHANGED <<grantState, allocation, runRecord, revocation, entitled, late, movedAhead>>
    BY <1>1 DEF Load
  <2>4. SharesEntitled' /\ \E budgets : creation' \in CreationSteps(budgets)
    BY <1>0, <2>1, <2>2, <2>3, CreationMoves DEF GrantRecords, SharesEntitled, Allocated
  <2> QED BY <1>0, <2>3, <2>4
          DEF GrantInv, GrantRecords, RunsAndRevocation, RevocationOnCourse, Listing, Unfinished
<1>2. ASSUME NEW r \in GrantRuns, Allocate(r) PROVE GrantInv'
  <2>1. /\ UNCHANGED <<grantState, runRecord, revocation, late, movedAhead>>
        /\ entitled \subseteq entitled'
        /\ \/ creation' = [creation EXCEPT ![r].pc = "allocated"] /\ r \in entitled'
           \/ creation' = [creation EXCEPT ![r] = NotCreating]
        /\ \A q \in GrantRuns \ {r} : allocation'[q] = allocation[q]
        /\ allocation' = [q \in GrantRuns |-> allocation'[q]]
        /\ r \in Allocated' => r \in entitled'
    <3>1. /\ UNCHANGED <<grantState, runRecord, revocation, late, movedAhead>>
          /\ \/ /\ r \in Allocated /\ creation' = [creation EXCEPT ![r].pc = "allocated"]
                /\ allocation' = allocation /\ entitled' = entitled
             \/ /\ allocation' = [allocation EXCEPT ![r] = Share(r)] /\ entitled' = entitled \cup {r}
                /\ creation' = [creation EXCEPT ![r].pc = "allocated"]
             \/ /\ creation' = [creation EXCEPT ![r] = NotCreating]
                /\ allocation' = allocation /\ entitled' = entitled
      BY <1>2, Zenon DEF Allocate, Allocatable
    <3>2. allocation = [q \in GrantRuns |-> allocation[q]] /\ (r \in Allocated => r \in entitled)
      BY <1>0 DEF GrantRecords, SharesEntitled
    <3> QED BY <3>1, <3>2 DEF Allocated
  <2>2. PICK b : creation[r] \in [pc : {"none", "loaded", "allocated"}, budget : {b}]
    BY <1>01
  <2>3. PICK new1 : creation' = [creation EXCEPT ![r] = new1] /\ (new1.pc = "allocated" => r \in entitled')
                    /\ \E c : new1 \in [pc : {"none", "loaded", "allocated"}, budget : {c}]
    <3>1. CASE creation' = [creation EXCEPT ![r].pc = "allocated"] /\ r \in entitled'
      <4> DEFINE new1 == [creation[r] EXCEPT !.pc = "allocated"]
      <4>1. creation' = [creation EXCEPT ![r] = new1]
        BY <3>1
      <4>2. new1 \in [pc : {"none", "loaded", "allocated"}, budget : {b}]
        BY <2>2
      <4> HIDE DEF new1
      <4> QED BY <3>1, <4>1, <4>2
    <3>2. CASE creation' = [creation EXCEPT ![r] = NotCreating]
      <4>1. NotCreating \in [pc : {"none", "loaded", "allocated"}, budget : {0}] /\ NotCreating.pc = "none"
        BY DEF NotCreating
      <4> QED BY <3>2, <4>1
    <3> QED BY <2>1, <3>1, <3>2
  <2>4. SharesEntitled' /\ \E budgets : creation' \in CreationSteps(budgets)
    BY <2>1, <2>3, CreationMoves
  <2> QED BY <1>0, <2>1, <2>4
          DEF GrantInv, GrantRecords, RunsAndRevocation, RevocationOnCourse, Listing, Unfinished
<1>3. ASSUME NEW r \in GrantRuns, StoreRun(r) \/ CreationFails(r) PROVE GrantInv'
  <2>1. creation' = [creation EXCEPT ![r] = NotCreating] /\ UNCHANGED <<allocation, entitled>>
    BY <1>3 DEF StoreRun, CreationFails
  <2>2. NotCreating \in [pc : {"none", "loaded", "allocated"}, budget : {0}] /\ NotCreating.pc = "none"
    BY DEF NotCreating
  <2>3. SharesEntitled' /\ \E budgets : creation' \in CreationSteps(budgets)
    BY <1>0, <2>1, <2>2, CreationMoves DEF GrantRecords, SharesEntitled, Allocated
  <2>4. RunsAndRevocation' /\ RevocationOnCourse'
    <3>1. CASE StoreRun(r)
      <4>1. r \in entitled
        BY <1>0, <3>1 DEF StoreRun, SharesEntitled
      <4>2. /\ RunsAndRevocation' /\ \A q \in GrantRuns \ {r} : runRecord'[q] = runRecord[q]
            /\ revocation'.pc = revocation.pc /\ revocation'.runs = revocation.runs
            /\ revocation'.unread = revocation.unread \/
                   (revocation.pc = "paging" /\ revocation'.unread = revocation.unread \cup {r})
            /\ late \subseteq late' /\ movedAhead' = movedAhead
            /\ Listing => r \in revocation'.unread \cup late'
        BY <1>0, <3>1, <4>1, RunStored DEF GrantRecords
      <4> QED BY <1>0, <4>2 DEF RevocationOnCourse, Listing, Unfinished
    <3>2. CASE CreationFails(r)
      BY <1>0, <3>2
         DEF CreationFails, GrantRecords, RunsAndRevocation, RevocationOnCourse, Listing, Unfinished
    <3> QED BY <1>3, <3>1, <3>2
  <2> QED BY <1>0, <2>1, <2>3, <2>4 DEF GrantInv, GrantRecords
<1>4. ASSUME NEW r \in GrantRuns,
             \/ \E s \in {"failed", "succeeded", "paused"} : Ends(r, s)
             \/ Proceeds(r) \/ Resume(r) \/ Retry(r)
      PROVE  GrantInv'
  <2>1. /\ RunsAndRevocation' /\ \A q \in GrantRuns \ {r} : runRecord'[q] = runRecord[q]
        /\ runRecord'[r].marked = runRecord[r].marked
        /\ revocation'.pc = revocation.pc /\ revocation'.runs = revocation.runs
        /\ revocation'.unread \subseteq revocation.unread
        /\ revocation.unread \subseteq revocation'.unread \cup movedAhead'
        /\ movedAhead \subseteq movedAhead' /\ late \subseteq late'
        /\ Unfinished(r)' /\ ~Unfinished(r) /\ Listing =>
               r \in revocation.unread \cup revocation.runs \cup late'
        /\ UNCHANGED <<allocation, creation, entitled>>
    BY <1>0, <1>4, RunGoesOn DEF GrantRecords
  <2>2. RevocationOnCourse'
    BY <1>0, <2>1 DEF RevocationOnCourse, Listing, Unfinished
  <2> QED BY <1>0, <2>1, <2>2 DEF GrantInv, GrantRecords, SharesEntitled, Allocated
<1>5. ASSUME NEW r \in GrantRuns, MarkRun(r) PROVE GrantInv'
  <2>1. /\ UNCHANGED <<allocation, creation, entitled, late, movedAhead>>
        /\ revocation' = [revocation EXCEPT !.runs = @ \ {r}] /\ revocation.pc = "marking"
    BY <1>5 DEF MarkRun
  <2>2. /\ runRecord' \in [GrantRuns -> RunCopies]
        /\ \A q \in GrantRuns \ {r} : runRecord'[q] = runRecord[q]
        /\ Unfinished(r)' => runRecord'[r].marked
    BY <1>0, <1>5
       DEF MarkRun, GrantRecords, RunsAndRevocation, RunCopies, Unfinished, MarkedRevoked
  <2>3. /\ revocation' \in Revocations /\ revocation'.pc = "marking"
        /\ revocation'.unread = revocation.unread /\ revocation'.runs = revocation.runs \ {r}
    BY <1>0, <2>1 DEF GrantRecords, RunsAndRevocation, Revocations
  <2>4. RevocationOnCourse'
    BY <1>0, <2>1, <2>2, <2>3 DEF RevocationOnCourse, Listing, Unfinished
  <2> QED BY <1>0, <2>1, <2>2, <2>3, <2>4
          DEF GrantInv, GrantRecords, RunsAndRevocation, SharesEntitled, Allocated
<1>6. CASE ListLastPage \/ \E page \in SUBSET GrantRuns : ListPage(page)
  <2>1. PICK page \in SUBSET GrantRuns, pc \in {"paging", "marking"} :
          /\ page \subseteq Unread /\ (pc = "marking" => page = Unread)
          /\ revocation' = [pc |-> pc, unread |-> Unread \ page,
                            runs |-> revocation.runs \cup Selected(page)]
    <3>1. Unread \in SUBSET GrantRuns /\ {} = Unread \ Unread
      BY <1>0 DEF GrantRecords, RunsAndRevocation, Revocations, Unread
    <3> QED BY <1>6, <3>1 DEF ListPage, ListLastPage
  <2>2. /\ UNCHANGED <<allocation, creation, runRecord, entitled, late, movedAhead>>
        /\ revocation.pc \in {"listing", "paging"}
    BY <1>6 DEF ListPage, ListLastPage
  <2>3. \A r \in GrantRuns : Unfinished(r) /\ ~runRecord[r].marked =>
            r \in Unread \cup revocation.runs \cup late \cup movedAhead
    BY <1>0, <2>2 DEF RevocationOnCourse, Listing, Unread, Unfinished
  <2>4. /\ revocation'.pc = pc /\ revocation'.unread = Unread \ page
        /\ revocation'.runs = revocation.runs \cup Selected(page)
    BY <2>1
  <2>5. RunsAndRevocation'
    <3>1. Selected(page) \subseteq GrantRuns /\ Unread \ page \subseteq GrantRuns
      BY <1>0 DEF GrantRecords, RunsAndRevocation, Revocations, Unread, Selected
    <3> QED BY <1>0, <2>1, <2>2, <3>1 DEF GrantRecords, RunsAndRevocation, Revocations
  <2>6. RevocationOnCourse'
    BY <2>1, <2>2, <2>3, <2>4 DEF RevocationOnCourse, Listing, Unfinished, Selected
  <2> QED BY <1>0, <2>2, <2>5, <2>6 DEF GrantInv, GrantRecords, SharesEntitled, Allocated
<1>7. CASE Expire \/ Revoke \/ RevokeDone \/ RevokeFails
  <2>1. UNCHANGED <<allocation, creation, runRecord, entitled>>
    BY <1>7 DEF Expire, Revoke, RevokeDone, RevokeFails
  <2>2. RunsAndRevocation' /\ RevocationOnCourse'
    <3>1. CASE Expire
      BY <1>0, <3>1 DEF Expire, GrantRecords, RunsAndRevocation, RevocationOnCourse, Listing, Unfinished
    <3>2. CASE Revoke \/ RevokeFails
      BY <1>0, <3>2
         DEF Revoke, RevokeFails, NoRevocation, GrantRecords, RunsAndRevocation, Revocations,
             RevocationOnCourse, Listing
    <3>3. CASE RevokeDone
      BY <1>0, <3>3
         DEF RevokeDone, GrantRecords, RunsAndRevocation, Revocations, RevocationOnCourse, Listing,
             Unfinished
    <3> QED BY <1>7, <3>1, <3>2, <3>3
  <2> QED BY <1>0, <2>1, <2>2 DEF GrantInv, GrantRecords, SharesEntitled, Allocated
<1>8. CASE GrantCrash
  <2>1. creation' \in CreationSteps({0}) /\ \A r \in GrantRuns : creation'[r].pc = "none"
    BY <1>8 DEF GrantCrash, NotCreating, CreationSteps
  <2>2. UNCHANGED <<allocation, runRecord, entitled, late, movedAhead>>
        /\ (revocation' = revocation \/ revocation' = NoRevocation)
    BY <1>8 DEF GrantCrash
  <2>3. RunsAndRevocation' /\ RevocationOnCourse'
    BY <1>0, <2>2
       DEF GrantRecords, RunsAndRevocation, Revocations, NoRevocation, RevocationOnCourse, Listing,
           Unfinished
  <2> QED BY <1>0, <2>1, <2>2, <2>3 DEF GrantInv, GrantRecords, SharesEntitled, Allocated
<1>9. CASE UNCHANGED grantVars
  BY <1>0, <1>9
     DEF grantVars, GrantInv, GrantRecords, RunsAndRevocation, SharesEntitled, Allocated,
         RevocationOnCourse, Listing, Unfinished
<1> QED BY <1>1, <1>2, <1>3, <1>4, <1>5, <1>6, <1>7, <1>8, <1>9 DEF GrantNext

LEMMA GrantInvariant == GrantSpec => []GrantInv
<1> QED BY GrantStart, GrantStep, PTL DEF GrantSpec

\* revokeWorkGrant() has reached every unfinished Run when it returns, but those stored or
\* retried too late for its listing and those written between two of its pages, for any number
\* of Runs being created, written, ended, retried and listed in any pages.
THEOREM RevocationComplete == GrantSpec => []RevocationReachesRuns
<1>1. GrantInv => RevocationReachesRuns
  BY DEF GrantInv, RevocationOnCourse, RevocationReachesRuns, Listing
<1> QED BY <1>1, GrantInvariant, PTL

-----------------------------------------------------------------------------
(* The shares of a Work Grant *)

\* The shares of the Runs, as the code adds it up.
LEMMA SharesAddUp ==
    ASSUME NEW shares \in [GrantRuns -> Nat]
    PROVE  /\ MapThenSumSet(LAMBDA r : shares[r], GrantRuns) = SumOf(shares, GrantRuns)
           /\ SumOf(shares, GrantRuns) \in Nat
<1> DEFINE one(s) == CHOOSE x \in s : TRUE
           c == [s \in SUBSET GrantRuns |-> SumOf(shares, s)]
           E(d) == d = [s \in SUBSET GrantRuns |->
                           IF s = {} THEN 0 ELSE shares[one(s)] + d[s \ {one(s)}]]
<1>1. IsFiniteSet(GrantRuns)
  BY GrantAssumption
<1>2. ASSUME NEW s \in SUBSET GrantRuns
      PROVE  c[s] = IF s = {} THEN 0 ELSE shares[one(s)] + c[s \ {one(s)}]
  <2>1. CASE s = {}
    <3>1. Tokens(shares, s) = {}
      BY <2>1 DEF Tokens
    <3>2. Cardinality({}) = 0
      BY FS_EmptySet
    <3> QED BY <2>1, <3>1, <3>2 DEF SumOf
  <2>2. CASE s # {}
    <3>1. one(s) \in s /\ s \ {one(s)} \in SUBSET GrantRuns
      BY <2>2
    <3> HIDE DEF one
    <3>2. shares[one(s)] \in Nat /\ IsFiniteSet(Tokens(shares, s \ {one(s)}))
      BY <1>1, <3>1, TokensFinite
    <3>3. SumOf(shares, s) = shares[one(s)] + SumOf(shares, s \ {one(s)})
      BY <3>1, <3>2, OneMore
    <3> QED BY <2>2, <3>1, <3>3
  <2> QED BY <2>1, <2>2
<1>3. E(c)
  <2> HIDE DEF one
  <2>1. \A s \in SUBSET GrantRuns : c[s] = IF s = {} THEN 0 ELSE shares[one(s)] + c[s \ {one(s)}]
    BY <1>2
  <2> QED BY <2>1
<1>4. \E d : E(d) /\ MapThenSumSet(LAMBDA r : shares[r], GrantRuns) = d[GrantRuns]
  BY <1>3 DEF MapThenSumSet, MapThenFoldSet
<1>5. PICK d : E(d) /\ MapThenSumSet(LAMBDA r : shares[r], GrantRuns) = d[GrantRuns]
  BY <1>4
<1>6. ASSUME NEW s \in SUBSET GrantRuns
      PROVE  IF s = {} THEN d[s] = 0
             ELSE \E x \in s : d[s] = shares[x] + d[s \ {x}] \/ d[s] = d[s \ {x}] + shares[x]
  <2>1. s # {} => one(s) \in s
    OBVIOUS
  <2> HIDE DEF one
  <2>2. d[s] = IF s = {} THEN 0 ELSE shares[one(s)] + d[s \ {one(s)}]
    BY <1>5
  <2> QED BY <2>1, <2>2
<1>7. d[GrantRuns] = SumOf(shares, GrantRuns) /\ d[GrantRuns] \in Nat
  BY <1>1, <1>6, FoldIsSum
<1> QED BY <1>5, <1>7

LEMMA SpentIsTotal ==
    allocation \in [GrantRuns -> Nat] => Spent = SumOf(allocation, GrantRuns) /\ Spent \in Nat
<1> SUFFICES ASSUME allocation \in [GrantRuns -> Nat]
             PROVE  Spent = SumOf(allocation, GrantRuns) /\ Spent \in Nat
  OBVIOUS
<1>1. /\ MapThenSumSet(LAMBDA r : allocation[r], GrantRuns) = SumOf(allocation, GrantRuns)
      /\ SumOf(allocation, GrantRuns) \in Nat
  BY SharesAddUp
<1> QED BY <1>1 DEF Spent

LEMMA SpentNextIsTotal ==
    ASSUME allocation' \in [GrantRuns -> Nat]
    PROVE  Spent' = SumOf(allocation', GrantRuns)
<1>1. (allocation \in [GrantRuns -> Nat] => Spent = SumOf(allocation, GrantRuns) /\ Spent \in Nat)'
  BY SpentIsTotal, PTL
<1> QED BY <1>1

\* A creation that has loaded the grant asks for some budget, one that has been allocated
\* has its share, and so has a stored Run; together they stay within the grant's budget.
SharesInv ==
    /\ GrantTypeOK
    /\ creation \in [GrantRuns -> [pc : {"none", "loaded", "allocated"}, budget : Nat]]
    /\ RunsAndRevocation
    /\ \A r \in GrantRuns :
         /\ creation[r].pc = "loaded" => creation[r].budget > 0
         /\ creation[r].pc = "allocated" => allocation[r] > 0
    /\ SharesWithinTotal

LEMMA SharesStart == GrantInit => SharesInv
<1> SUFFICES ASSUME GrantInit PROVE SharesInv
  OBVIOUS
<1>1. allocation \in [GrantRuns -> Nat] /\ \A r \in GrantRuns : allocation[r] = 0
  BY DEF GrantInit
<1>2. SumOf(allocation, GrantRuns) = 0
  BY <1>1, NoSum
<1>4. Spent = 0
  BY <1>1, <1>2, SpentIsTotal
<1>5. SharesWithinTotal
  BY <1>1, <1>4, GrantAssumption DEF SharesWithinTotal, GrantInit, NoRecord
<1> QED BY <1>1, <1>5
        DEF GrantInit, SharesInv, GrantTypeOK, NotCreating, NoRecord, NoRevocation, RunsAndRevocation,
            RunCopies, Revocations

\* What Spent becomes when one Run's share changes from nothing.
LEMMA SpentGrows ==
    ASSUME allocation \in [GrantRuns -> Nat], allocation' \in [GrantRuns -> Nat],
           NEW r \in GrantRuns, allocation[r] = 0, NEW share \in Nat,
           allocation' = [allocation EXCEPT ![r] = share]
    PROVE  Spent' = Spent + share
<1>1. IsFiniteSet(GrantRuns)
  BY GrantAssumption
<1>2. Spent = SumOf(allocation, GrantRuns) /\ Spent \in Nat
  BY SpentIsTotal
<1>3. Spent' = SumOf(allocation', GrantRuns)
  BY SpentNextIsTotal
<1>4. /\ \A y \in GrantRuns : allocation[y] \in Nat /\ allocation'[y] \in Nat
      /\ \A y \in GrantRuns \ {r} : allocation'[y] = allocation[y]
      /\ allocation'[r] = share
  OBVIOUS
<1>5. SumOf(allocation', GrantRuns) + allocation[r] = SumOf(allocation, GrantRuns) + allocation'[r]
  <2>1. PICK f, g : f = allocation /\ g = allocation'
    OBVIOUS
  <2>2. /\ \A y \in GrantRuns : f[y] \in Nat /\ g[y] \in Nat
        /\ \A y \in GrantRuns \ {r} : g[y] = f[y]
    BY <1>4, <2>1
  <2>3. SumOf(g, GrantRuns) + f[r] = SumOf(f, GrantRuns) + g[r]
    BY <1>1, <2>2, OneChanges
  <2> QED BY <2>1, <2>3
<1> QED BY <1>2, <1>3, <1>4, <1>5

\* A step that gives no share away.
LEMMA SharesKept ==
    ASSUME SharesInv, UNCHANGED allocation, GrantTypeOK',
           creation' \in [GrantRuns -> [pc : {"none", "loaded", "allocated"}, budget : Nat]],
           RunsAndRevocation',
           \A r \in GrantRuns :
               /\ creation'[r].pc = "loaded" => creation'[r].budget > 0
               /\ creation'[r].pc = "allocated" => allocation[r] > 0
               /\ runRecord'[r].status # "none" => allocation[r] > 0
    PROVE  SharesInv'
<1>1. Spent' = Spent
  BY SpentIsTotal, SpentNextIsTotal DEF SharesInv, GrantTypeOK
<1> QED BY <1>1 DEF SharesInv, SharesWithinTotal

LEMMA SharesStep ==
    ASSUME SharesInv, [GrantNext]_grantVars
    PROVE  SharesInv'
<1> USE GrantAssumption
<1>0. /\ GrantTypeOK /\ SharesWithinTotal /\ allocation \in [GrantRuns -> Nat]
      /\ Spent \in Nat
  BY SpentIsTotal DEF SharesInv, GrantTypeOK
<1>1. ASSUME NEW r \in GrantRuns, NEW asked \in Requests, Load(r, asked) PROVE SharesInv'
  <2> DEFINE b == Smaller(Smaller(PerRun, Remaining), asked)
  <2>1. b \in Nat /\ b > 0
    <3>1. Remaining \in Nat /\ Remaining > 0
      BY <1>0, <1>1 DEF Load, Active, Remaining
    <3> QED BY <3>1 DEF Smaller
  <2>2. creation' = [creation EXCEPT ![r] = [pc |-> "loaded", budget |-> b]]
    BY <1>1 DEF Load
  <2>3. UNCHANGED <<grantState, allocation, runRecord, revocation, entitled, late, movedAhead>>
    BY <1>1 DEF Load
  <2> HIDE DEF b
  <2>4. /\ creation' \in [GrantRuns -> [pc : {"none", "loaded", "allocated"}, budget : Nat]]
        /\ \A q \in GrantRuns \ {r} : creation'[q] = creation[q]
        /\ creation'[r].pc = "loaded" /\ creation'[r].budget = b
    BY <2>1, <2>2 DEF SharesInv
  <2>5. GrantTypeOK'
    BY <1>0, <2>3, <2>4 DEF GrantTypeOK
  <2> QED BY <1>0, <2>1, <2>3, <2>4, <2>5, SharesKept DEF SharesInv, SharesWithinTotal, RunsAndRevocation
<1>2. ASSUME NEW r \in GrantRuns, Allocate(r) PROVE SharesInv'
  <2>1. UNCHANGED <<grantState, runRecord, revocation, late, movedAhead>> /\ creation[r].pc = "loaded"
    BY <1>2 DEF Allocate
  <2>2. CASE r \in Allocated \/ (r \notin Allocated /\ ~Allocatable)
    <3>1. /\ UNCHANGED <<allocation, entitled>>
          /\ \/ creation' = [creation EXCEPT ![r].pc = "allocated"] /\ allocation[r] > 0
             \/ creation' = [creation EXCEPT ![r] = NotCreating]
      BY <1>2, <2>2, Zenon DEF Allocate, Allocated
    <3>2. /\ creation' \in [GrantRuns -> [pc : {"none", "loaded", "allocated"}, budget : Nat]]
          /\ \A q \in GrantRuns \ {r} : creation'[q] = creation[q]
          /\ creation'[r].pc \in {"none", "allocated"}
          /\ creation'[r].pc = "allocated" => allocation[r] > 0
      <4>1. creation[r] \in [pc : {"none", "loaded", "allocated"}, budget : Nat]
        BY DEF SharesInv
      <4>2. CASE creation' = [creation EXCEPT ![r].pc = "allocated"] /\ allocation[r] > 0
        BY <4>1, <4>2 DEF SharesInv
      <4>3. CASE creation' = [creation EXCEPT ![r] = NotCreating]
        BY <4>3 DEF SharesInv, NotCreating
      <4> QED BY <3>1, <4>2, <4>3
    <3>3. GrantTypeOK'
      BY <1>0, <2>1, <3>1, <3>2 DEF GrantTypeOK
    <3> QED BY <1>0, <2>1, <3>1, <3>2, <3>3, SharesKept
            DEF SharesInv, SharesWithinTotal, RunsAndRevocation
  <2>3. CASE r \notin Allocated /\ Allocatable
    <3>1. /\ allocation' = [allocation EXCEPT ![r] = Share(r)]
          /\ creation' = [creation EXCEPT ![r].pc = "allocated"]
          /\ entitled' = IF Active THEN entitled \cup {r} ELSE entitled
      BY <1>2, <2>3, Zenon DEF Allocate
    <3>2. creation[r].budget \in Nat /\ creation[r].budget > 0
      BY <2>1 DEF SharesInv
    <3>3. Spent < Total /\ Remaining = Total - Spent
      BY <1>0, <2>3 DEF Allocatable, Active, Remaining
    <3>4. Share(r) \in Nat /\ Share(r) > 0 /\ Share(r) <= PerRun /\ Share(r) <= Total - Spent
      BY <1>0, <3>2, <3>3 DEF Share, Smaller
    <3>5. allocation[r] = 0
      BY <1>0, <2>3 DEF Allocated
    <3> DEFINE share == Share(r)
    <3>6. share \in Nat /\ share > 0 /\ share <= PerRun /\ share <= Total - Spent
      BY <3>4
    <3>7. allocation' = [allocation EXCEPT ![r] = share]
      BY <3>1
    <3> HIDE DEF share
    <3>8. allocation' \in [GrantRuns -> Nat] /\ allocation'[r] = share
          /\ \A q \in GrantRuns \ {r} : allocation'[q] = allocation[q]
      BY <1>0, <3>6, <3>7
    <3>9. Spent' = Spent + share
      BY <1>0, <3>5, <3>6, <3>7, <3>8, SpentGrows
    <3>10. /\ creation' \in [GrantRuns -> [pc : {"none", "loaded", "allocated"}, budget : Nat]]
           /\ \A q \in GrantRuns \ {r} : creation'[q] = creation[q]
           /\ creation'[r].pc = "allocated"
      BY <3>1 DEF SharesInv
    <3>11. GrantTypeOK'
      BY <1>0, <2>1, <3>1, <3>8, <3>10 DEF GrantTypeOK
    <3>12. SharesWithinTotal'
      BY <1>0, <2>1, <3>6, <3>8, <3>9 DEF SharesWithinTotal
    <3> QED BY <2>1, <3>6, <3>8, <3>10, <3>11, <3>12 DEF SharesInv, RunsAndRevocation
  <2> QED BY <2>2, <2>3
<1>3. ASSUME NEW r \in GrantRuns, StoreRun(r) \/ CreationFails(r) PROVE SharesInv'
  <2>1. creation' = [creation EXCEPT ![r] = NotCreating] /\ UNCHANGED <<grantState, allocation, entitled>>
    BY <1>3 DEF StoreRun, CreationFails
  <2>2. /\ creation' \in [GrantRuns -> [pc : {"none", "loaded", "allocated"}, budget : Nat]]
        /\ \A q \in GrantRuns \ {r} : creation'[q] = creation[q]
        /\ creation'[r].pc = "none"
    BY <2>1 DEF SharesInv, NotCreating
  <2>3. /\ RunsAndRevocation' /\ \A q \in GrantRuns \ {r} : runRecord'[q] = runRecord[q]
        /\ runRecord'[r] = runRecord[r] \/ allocation[r] > 0
        /\ late' \subseteq late \cup {r} /\ movedAhead' = movedAhead
    <3>1. CASE StoreRun(r)
      <4>1. allocation[r] > 0
        BY <3>1 DEF StoreRun, SharesInv
      <4> QED BY <3>1, <4>1, RunStored DEF SharesInv
    <3>2. CASE CreationFails(r)
      BY <3>2 DEF CreationFails, SharesInv, RunsAndRevocation
    <3> QED BY <1>3, <3>1, <3>2
  <2>4. GrantTypeOK'
    BY <1>0, <2>1, <2>2, <2>3 DEF GrantTypeOK, RunsAndRevocation, RunCopies, Revocations
  <2>5. \A q \in GrantRuns : runRecord'[q].status # "none" => allocation[q] > 0
    BY <1>0, <2>3 DEF SharesWithinTotal
  <2> QED BY <2>1, <2>2, <2>3, <2>4, <2>5, SharesKept DEF SharesInv
<1>4. ASSUME NEW r \in GrantRuns,
             \/ \E s \in {"failed", "succeeded", "paused"} : Ends(r, s)
             \/ Proceeds(r) \/ Resume(r) \/ Retry(r)
      PROVE  SharesInv'
  <2>1. /\ RunsAndRevocation' /\ \A q \in GrantRuns \ {r} : runRecord'[q] = runRecord[q]
        /\ runRecord[r].status # "none"
        /\ movedAhead' \subseteq movedAhead \cup {r} /\ late' \subseteq late \cup {r}
        /\ UNCHANGED <<grantState, allocation, creation, entitled>>
    BY <1>4, RunGoesOn DEF SharesInv
  <2>2. GrantTypeOK'
    BY <1>0, <2>1 DEF GrantTypeOK, RunsAndRevocation, RunCopies, Revocations
  <2> QED BY <1>0, <2>1, <2>2, SharesKept DEF SharesInv, SharesWithinTotal
<1>5. ASSUME NEW r \in GrantRuns, MarkRun(r) PROVE SharesInv'
  <2>1. /\ UNCHANGED <<grantState, allocation, creation, entitled, late, movedAhead>>
        /\ revocation' = [revocation EXCEPT !.runs = @ \ {r}]
    BY <1>5 DEF MarkRun
  <2>2. /\ runRecord' \in [GrantRuns -> RunCopies]
        /\ \A q \in GrantRuns : runRecord'[q].status # "none" => runRecord[q].status # "none"
    BY <1>5 DEF MarkRun, SharesInv, RunsAndRevocation, RunCopies, Unfinished, MarkedRevoked
  <2>3. RunsAndRevocation'
    BY <2>1, <2>2 DEF SharesInv, RunsAndRevocation, Revocations
  <2>4. GrantTypeOK'
    BY <1>0, <2>1, <2>3 DEF GrantTypeOK, RunsAndRevocation, RunCopies, Revocations
  <2> QED BY <2>1, <2>2, <2>3, <2>4, SharesKept DEF SharesInv, SharesWithinTotal
<1>6. CASE \/ Expire \/ Revoke \/ ListLastPage \/ RevokeDone \/ RevokeFails
           \/ \E page \in SUBSET GrantRuns : ListPage(page)
  <2>1. /\ UNCHANGED <<allocation, creation, runRecord, entitled>>
        /\ grantState' \in {"active", "revoked", "expired"}
        /\ late' \subseteq late /\ movedAhead' \subseteq movedAhead
    BY <1>0, <1>6 DEF Expire, Revoke, ListPage, ListLastPage, RevokeDone, RevokeFails, GrantTypeOK
  <2>2. revocation' \in Revocations
    <3>1. revocation \in Revocations /\ Unread \subseteq GrantRuns
          /\ \A page \in SUBSET Unread : Selected(page) \subseteq GrantRuns
      BY DEF SharesInv, RunsAndRevocation, Revocations, Unread, Selected
    <3>2. CASE Expire \/ Revoke \/ RevokeDone \/ RevokeFails
      BY <3>1, <3>2 DEF Expire, Revoke, RevokeDone, RevokeFails, NoRevocation, Revocations
    <3>3. CASE ListLastPage
      BY <3>1, <3>3 DEF ListLastPage, Revocations
    <3>4. ASSUME NEW page \in SUBSET GrantRuns, ListPage(page) PROVE revocation' \in Revocations
      BY <3>1, <3>4 DEF ListPage, Revocations
    <3> QED BY <1>6, <3>2, <3>3, <3>4
  <2>3. RunsAndRevocation'
    BY <2>1, <2>2 DEF SharesInv, RunsAndRevocation
  <2>4. GrantTypeOK'
    BY <1>0, <2>1, <2>3 DEF GrantTypeOK, RunsAndRevocation, RunCopies, Revocations
  <2> QED BY <2>1, <2>3, <2>4, SharesKept DEF SharesInv, SharesWithinTotal
<1>7. CASE GrantCrash
  <2>1. /\ UNCHANGED <<grantState, allocation, runRecord, entitled, late, movedAhead>>
        /\ creation' \in [GrantRuns -> [pc : {"none", "loaded", "allocated"}, budget : Nat]]
        /\ \A r \in GrantRuns : creation'[r].pc = "none"
        /\ RunsAndRevocation'
    BY <1>7 DEF GrantCrash, NotCreating, NoRevocation, SharesInv, RunsAndRevocation, Revocations
  <2>2. GrantTypeOK'
    BY <1>0, <2>1 DEF GrantTypeOK, RunsAndRevocation, RunCopies, Revocations
  <2> QED BY <2>1, <2>2, SharesKept DEF SharesInv, SharesWithinTotal
<1>8. CASE UNCHANGED grantVars
  <2>1. UNCHANGED <<grantState, allocation, creation, runRecord, revocation, entitled, late, movedAhead>>
    BY <1>8 DEF grantVars
  <2>2. GrantTypeOK'
    BY <1>0, <2>1 DEF GrantTypeOK
  <2> QED BY <2>1, <2>2, SharesKept DEF SharesInv, SharesWithinTotal, RunsAndRevocation
<1> QED BY <1>1, <1>2, <1>3, <1>4, <1>5, <1>6, <1>7, <1>8 DEF GrantNext

LEMMA SharesInvariant == GrantSpec => []SharesInv
<1> QED BY SharesStart, SharesStep, PTL DEF GrantSpec

\* The Runs' shares and what creating one asks for are numbers, and every step is known.
THEOREM GrantTypeCorrect == GrantSpec => []GrantTypeOK
<1>1. SharesInv => GrantTypeOK
  BY DEF SharesInv
<1> QED BY <1>1, SharesInvariant, PTL

\* The shares given out stay within the grant's budget and within what one Run may have,
\* and a stored Run has one, however many creations race for what is left.
THEOREM SharesStayWithinTotal == GrantSpec => []SharesWithinTotal
<1>1. SharesInv => SharesWithinTotal
  BY DEF SharesInv
<1> QED BY <1>1, SharesInvariant, PTL

-----------------------------------------------------------------------------
(* Delegations *)

LedgerStates == {"none", "reserved", "unknown", "settled", "rejected"}
FlowSteps == {"none", "admitted", "reserved", "answered", "lost", "settled"}

AgentTypes ==
    /\ ledger \in [calls : Nat, tokens : Nat, entry : [Delegations -> LedgerStates]]
    /\ decision \in [Delegations -> {"none", "authorized", "isolated"}]
    /\ flow \in [Channels -> [Delegations -> [pc : FlowSteps, cost : Costs \cup {0}]]]
    /\ submissions \in [Delegations -> Nat]
    /\ charged \in [Delegations -> Nat]
    /\ handed \in [Delegations -> SUBSET {"none", "authorized", "isolated"}]

Entered == {d \in Delegations : ledger.entry[d] # "none"}
CallsCounted == ledger.calls = Cardinality(Entered) /\ ledger.calls <= GrantCalls

\* The ledger's entry of a delegation tells how often it was sent, charged and decided.
DelegationSound(d) ==
    /\ submissions[d] <= 1
    /\ ledger.entry[d] = "none" => submissions[d] = 0
    /\ flow["submit"][d].pc = "reserved" => submissions[d] = 0
    /\ charged[d] \in Costs \cup {0}
    /\ ledger.entry[d] \notin {"settled", "rejected"} => charged[d] = 0
    /\ ledger.entry[d] = "settled" <=> decision[d] # "none"
    /\ handed[d] \subseteq {decision[d]} \ {"none"}

\* What a channel brings belongs to an entry, and what it hands over is decided.
FlowSound(c, d) ==
    /\ flow[c][d].pc \in {"reserved", "answered", "lost", "settled"} => ledger.entry[d] # "none"
    /\ flow[c][d].pc \in {"admitted", "reserved"} => c = "submit"
    /\ flow[c][d].pc = "settled" => decision[d] # "none"

AgentInv ==
    /\ AgentTypes /\ CallsCounted
    /\ \A d \in Delegations : DelegationSound(d)
    /\ \A c \in Channels, d \in Delegations : FlowSound(c, d)

LEMMA AgentStart == AgentInit => AgentInv
<1> SUFFICES ASSUME AgentInit PROVE AgentInv
  OBVIOUS
<1>1. AgentTypes
  BY DEF AgentInit, AgentTypes, LedgerStates, FlowSteps, Quiet
<1>2. CallsCounted
  <2>1. Entered = {}
    BY DEF AgentInit, Entered
  <2> QED BY <2>1, FS_EmptySet, AgentGrantAssumption DEF AgentInit, CallsCounted
<1>3. \A d \in Delegations : DelegationSound(d)
  BY DEF AgentInit, DelegationSound
<1>4. \A c \in Channels, d \in Delegations : FlowSound(c, d)
  BY DEF AgentInit, FlowSound, Quiet
<1> QED BY <1>1, <1>2, <1>3, <1>4 DEF AgentInv

\* A step that concerns one delegation alone.
LEMMA OneDelegation ==
    ASSUME AgentInv, AgentTypes', CallsCounted', NEW d \in Delegations,
           \A q \in Delegations \ {d} :
              /\ ledger'.entry[q] = ledger.entry[q] /\ decision'[q] = decision[q]
              /\ submissions'[q] = submissions[q] /\ charged'[q] = charged[q] /\ handed'[q] = handed[q],
           \A c \in Channels, q \in Delegations \ {d} : flow'[c][q] = flow[c][q],
           DelegationSound(d)', \A c \in Channels : FlowSound(c, d)'
    PROVE  AgentInv'
<1>1. ASSUME NEW q \in Delegations \ {d} PROVE DelegationSound(q)' /\ \A c \in Channels : FlowSound(c, q)'
  BY <1>1 DEF AgentInv, DelegationSound, FlowSound, Channels
<1> QED BY <1>1 DEF AgentInv

\* What a step of one channel for one delegation changes of the flows.
LEMMA FlowMoves ==
    ASSUME AgentTypes, NEW c \in Channels, NEW d \in Delegations, NEW step \in FlowSteps,
           \/ Moves(c, d, step)
           \/ \E k \in Costs : flow' = [flow EXCEPT ![c][d] = [pc |-> step, cost |-> k]]
           \/ step = "none" /\ flow' = [flow EXCEPT ![c][d] = Quiet]
    PROVE  /\ flow' \in [Channels -> [Delegations -> [pc : FlowSteps, cost : Costs \cup {0}]]]
           /\ \A x \in Channels, q \in Delegations \ {d} : flow'[x][q] = flow[x][q]
           /\ \A x \in Channels \ {c} : flow'[x][d] = flow[x][d]
           /\ flow'[c][d].pc = step
<1>1. CASE Moves(c, d, step)
  <2> DEFINE old == flow[c][d]
             new == [old EXCEPT !.pc = step]
             row == [flow[c] EXCEPT ![d] = new]
  <2>1. flow' = [flow EXCEPT ![c] = row]
    BY <1>1 DEF Moves
  <2>2. old \in [pc : FlowSteps, cost : Costs \cup {0}] /\ flow[c] \in [Delegations -> [pc : FlowSteps, cost : Costs \cup {0}]]
    BY DEF AgentTypes
  <2> HIDE DEF old
  <2>3. new \in [pc : FlowSteps, cost : Costs \cup {0}] /\ new.pc = step
    BY <2>2
  <2> HIDE DEF new
  <2>4. row \in [Delegations -> [pc : FlowSteps, cost : Costs \cup {0}]]
        /\ row[d] = new /\ \A q \in Delegations \ {d} : row[q] = flow[c][q]
    BY <2>2, <2>3
  <2> HIDE DEF row
  <2> QED BY <2>1, <2>3, <2>4 DEF AgentTypes
<1>2. ASSUME NEW k \in Costs \cup {0}, flow' = [flow EXCEPT ![c][d] = [pc |-> step, cost |-> k]]
      PROVE  /\ flow' \in [Channels -> [Delegations -> [pc : FlowSteps, cost : Costs \cup {0}]]]
             /\ \A x \in Channels, q \in Delegations \ {d} : flow'[x][q] = flow[x][q]
             /\ \A x \in Channels \ {c} : flow'[x][d] = flow[x][d]
             /\ flow'[c][d].pc = step
  BY <1>2 DEF AgentTypes
<1> QED BY <1>1, <1>2 DEF Quiet

\* A step that leaves the ledger and the histories alone, and readies nothing to be sent.
LEMMA DelegationKept ==
    ASSUME NEW d \in Delegations, DelegationSound(d),
           UNCHANGED <<ledger, decision, submissions, charged, handed>>,
           flow'["submit"][d].pc = "reserved" => flow["submit"][d].pc = "reserved"
    PROVE  DelegationSound(d)'
BY DEF DelegationSound

LEMMA AgentStep ==
    ASSUME AgentInv, [AgentNext]_agentVars
    PROVE  AgentInv'
<1>0. /\ AgentTypes /\ CallsCounted
      /\ \A d \in Delegations : DelegationSound(d)
      /\ \A c \in Channels, d \in Delegations : FlowSound(c, d)
  BY DEF AgentInv
<1>1. ASSUME NEW d \in Delegations, Delegate(d) PROVE AgentInv'
  <2>1. PICK step \in {"admitted"} :
           \/ Moves("submit", d, step)
           \/ \E k \in Costs : flow' = [flow EXCEPT !["submit"][d] = [pc |-> step, cost |-> k]]
           \/ step = "none" /\ flow' = [flow EXCEPT !["submit"][d] = Quiet]
    BY <1>1 DEF Delegate
  <2>2. /\ flow' \in [Channels -> [Delegations -> [pc : FlowSteps, cost : Costs \cup {0}]]]
        /\ \A x \in Channels, q \in Delegations \ {d} : flow'[x][q] = flow[x][q]
        /\ \A x \in Channels \ {"submit"} : flow'[x][d] = flow[x][d]
        /\ flow'["submit"][d].pc = step
    BY <1>0, <2>1, FlowMoves DEF Channels, FlowSteps
  <2>3. /\ \A q \in Delegations \ {d} :
           /\ ledger'.entry[q] = ledger.entry[q] /\ decision'[q] = decision[q]
           /\ submissions'[q] = submissions[q] /\ charged'[q] = charged[q] /\ handed'[q] = handed[q]
        /\ UNCHANGED <<ledger, decision, submissions, charged, handed>>
    BY <1>0, <1>1 DEF Delegate, AgentTypes
  <2>4. AgentTypes'
    BY <1>0, <1>1, <2>2, <2>3 DEF Delegate, AgentTypes, LedgerStates
  <2>5. Entered' = Entered /\ CallsCounted'
    <3>1. ledger'.calls = ledger.calls /\ \A q \in Delegations : ledger'.entry[q] = "none" <=> ledger.entry[q] = "none"
      BY <1>0, <2>3 DEF FlowSound, Channels
    <3> QED BY <1>0, <3>1 DEF Entered, CallsCounted
  <2>6. DelegationSound(d)' /\ \A x \in Channels : FlowSound(x, d)'
    <3>1. DelegationSound(d) /\ FlowSound("submit", d)
      BY <1>0 DEF Channels
    <3>2. DelegationSound(d)'
      <4>1. flow'["submit"][d].pc = "reserved" => flow["submit"][d].pc = "reserved"
        BY <2>1, <2>2 DEF Channels
      <4> QED BY <2>3, <3>1, <4>1, DelegationKept
    <3>3. ASSUME NEW x \in Channels PROVE FlowSound(x, d)'
      BY <1>0, <2>1, <2>2, <2>3, <3>3 DEF FlowSound, Channels, LedgerStates
    <3> QED BY <3>2, <3>3
  <2> QED BY <1>0, <2>2, <2>3, <2>4, <2>5, <2>6, OneDelegation
<1>2. ASSUME NEW c \in Channels, NEW d \in Delegations, EnsureUnknown(c, d) PROVE AgentInv'
  <2>1. PICK step \in {"answered", "lost"} :
           \/ Moves(c, d, step)
           \/ \E k \in Costs : flow' = [flow EXCEPT ![c][d] = [pc |-> step, cost |-> k]]
           \/ step = "none" /\ flow' = [flow EXCEPT ![c][d] = Quiet]
    BY <1>2 DEF EnsureUnknown
  <2>2. /\ flow' \in [Channels -> [Delegations -> [pc : FlowSteps, cost : Costs \cup {0}]]]
        /\ \A x \in Channels, q \in Delegations \ {d} : flow'[x][q] = flow[x][q]
        /\ \A x \in Channels \ {c} : flow'[x][d] = flow[x][d]
        /\ flow'[c][d].pc = step
    BY <1>0, <2>1, FlowMoves DEF Channels, FlowSteps
  <2>3. /\ \A q \in Delegations \ {d} :
           /\ ledger'.entry[q] = ledger.entry[q] /\ decision'[q] = decision[q]
           /\ submissions'[q] = submissions[q] /\ charged'[q] = charged[q] /\ handed'[q] = handed[q]
        /\ UNCHANGED <<ledger, decision, submissions, charged, handed>>
        /\ c # "submit" /\ ledger.entry[d] # "none"
    BY <1>0, <1>2 DEF EnsureUnknown, AgentTypes
  <2>4. AgentTypes'
    BY <1>0, <1>2, <2>2, <2>3 DEF EnsureUnknown, AgentTypes, LedgerStates
  <2>5. Entered' = Entered /\ CallsCounted'
    <3>1. ledger'.calls = ledger.calls /\ \A q \in Delegations : ledger'.entry[q] = "none" <=> ledger.entry[q] = "none"
      BY <1>0, <2>3 DEF FlowSound, Channels
    <3> QED BY <1>0, <3>1 DEF Entered, CallsCounted
  <2>6. DelegationSound(d)' /\ \A x \in Channels : FlowSound(x, d)'
    <3>1. DelegationSound(d) /\ FlowSound(c, d)
      BY <1>0 DEF Channels
    <3>2. DelegationSound(d)'
      <4>1. flow'["submit"][d].pc = "reserved" => flow["submit"][d].pc = "reserved"
        BY <2>1, <2>2 DEF Channels
      <4> QED BY <2>3, <3>1, <4>1, DelegationKept
    <3>3. ASSUME NEW x \in Channels PROVE FlowSound(x, d)'
      BY <1>0, <2>1, <2>2, <2>3, <3>3 DEF FlowSound, Channels, LedgerStates
    <3> QED BY <3>2, <3>3
  <2> QED BY <1>0, <2>2, <2>3, <2>4, <2>5, <2>6, OneDelegation
<1>3. ASSUME NEW c \in Channels, NEW d \in Delegations, SettleRefused(c, d) PROVE AgentInv'
  <2>1. PICK step \in {"lost"} :
           \/ Moves(c, d, step)
           \/ \E k \in Costs : flow' = [flow EXCEPT ![c][d] = [pc |-> step, cost |-> k]]
           \/ step = "none" /\ flow' = [flow EXCEPT ![c][d] = Quiet]
    BY <1>3 DEF SettleRefused
  <2>2. /\ flow' \in [Channels -> [Delegations -> [pc : FlowSteps, cost : Costs \cup {0}]]]
        /\ \A x \in Channels, q \in Delegations \ {d} : flow'[x][q] = flow[x][q]
        /\ \A x \in Channels \ {c} : flow'[x][d] = flow[x][d]
        /\ flow'[c][d].pc = step
    BY <1>0, <2>1, FlowMoves DEF Channels, FlowSteps
  <2>3. /\ \A q \in Delegations \ {d} :
           /\ ledger'.entry[q] = ledger.entry[q] /\ decision'[q] = decision[q]
           /\ submissions'[q] = submissions[q] /\ charged'[q] = charged[q] /\ handed'[q] = handed[q]
        /\ UNCHANGED <<ledger, decision, submissions, charged, handed>>
        /\ ledger.entry[d] # "none"
    BY <1>0, <1>3 DEF SettleRefused, AgentTypes
  <2>4. AgentTypes'
    BY <1>0, <1>3, <2>2, <2>3 DEF SettleRefused, AgentTypes, LedgerStates
  <2>5. Entered' = Entered /\ CallsCounted'
    <3>1. ledger'.calls = ledger.calls /\ \A q \in Delegations : ledger'.entry[q] = "none" <=> ledger.entry[q] = "none"
      BY <1>0, <2>3 DEF FlowSound, Channels
    <3> QED BY <1>0, <3>1 DEF Entered, CallsCounted
  <2>6. DelegationSound(d)' /\ \A x \in Channels : FlowSound(x, d)'
    <3>1. DelegationSound(d) /\ FlowSound(c, d)
      BY <1>0 DEF Channels
    <3>2. DelegationSound(d)'
      <4>1. flow'["submit"][d].pc = "reserved" => flow["submit"][d].pc = "reserved"
        BY <2>1, <2>2 DEF Channels
      <4> QED BY <2>3, <3>1, <4>1, DelegationKept
    <3>3. ASSUME NEW x \in Channels PROVE FlowSound(x, d)'
      BY <1>0, <2>1, <2>2, <2>3, <3>3 DEF FlowSound, Channels, LedgerStates
    <3> QED BY <3>2, <3>3
  <2> QED BY <1>0, <2>2, <2>3, <2>4, <2>5, <2>6, OneDelegation
<1>4. ASSUME NEW c \in Channels, NEW d \in Delegations, GiveUp(c, d) PROVE AgentInv'
  <2>1. PICK step \in {"none"} :
           \/ Moves(c, d, step)
           \/ \E k \in Costs : flow' = [flow EXCEPT ![c][d] = [pc |-> step, cost |-> k]]
           \/ step = "none" /\ flow' = [flow EXCEPT ![c][d] = Quiet]
    BY <1>4 DEF GiveUp
  <2>2. /\ flow' \in [Channels -> [Delegations -> [pc : FlowSteps, cost : Costs \cup {0}]]]
        /\ \A x \in Channels, q \in Delegations \ {d} : flow'[x][q] = flow[x][q]
        /\ \A x \in Channels \ {c} : flow'[x][d] = flow[x][d]
        /\ flow'[c][d].pc = step
    BY <1>0, <2>1, FlowMoves DEF Channels, FlowSteps
  <2>3. /\ \A q \in Delegations \ {d} :
           /\ ledger'.entry[q] = ledger.entry[q] /\ decision'[q] = decision[q]
           /\ submissions'[q] = submissions[q] /\ charged'[q] = charged[q] /\ handed'[q] = handed[q]
        /\ UNCHANGED <<ledger, decision, submissions, charged, handed>>
    BY <1>0, <1>4 DEF GiveUp, AgentTypes
  <2>4. AgentTypes'
    BY <1>0, <1>4, <2>2, <2>3 DEF GiveUp, AgentTypes, LedgerStates
  <2>5. Entered' = Entered /\ CallsCounted'
    <3>1. ledger'.calls = ledger.calls /\ \A q \in Delegations : ledger'.entry[q] = "none" <=> ledger.entry[q] = "none"
      BY <1>0, <2>3 DEF FlowSound, Channels
    <3> QED BY <1>0, <3>1 DEF Entered, CallsCounted
  <2>6. DelegationSound(d)' /\ \A x \in Channels : FlowSound(x, d)'
    <3>1. DelegationSound(d) /\ FlowSound(c, d)
      BY <1>0 DEF Channels
    <3>2. DelegationSound(d)'
      <4>1. flow'["submit"][d].pc = "reserved" => flow["submit"][d].pc = "reserved"
        BY <2>1, <2>2 DEF Channels
      <4> QED BY <2>3, <3>1, <4>1, DelegationKept
    <3>3. ASSUME NEW x \in Channels PROVE FlowSound(x, d)'
      BY <1>0, <2>1, <2>2, <2>3, <3>3 DEF FlowSound, Channels, LedgerStates
    <3> QED BY <3>2, <3>3
  <2> QED BY <1>0, <2>2, <2>3, <2>4, <2>5, <2>6, OneDelegation
<1>5. ASSUME NEW c \in Channels, NEW d \in Delegations, HandOver(c, d) PROVE AgentInv'
  <2>1. PICK step \in {"none"} :
           \/ Moves(c, d, step)
           \/ \E k \in Costs : flow' = [flow EXCEPT ![c][d] = [pc |-> step, cost |-> k]]
           \/ step = "none" /\ flow' = [flow EXCEPT ![c][d] = Quiet]
    BY <1>5 DEF HandOver
  <2>2. /\ flow' \in [Channels -> [Delegations -> [pc : FlowSteps, cost : Costs \cup {0}]]]
        /\ \A x \in Channels, q \in Delegations \ {d} : flow'[x][q] = flow[x][q]
        /\ \A x \in Channels \ {c} : flow'[x][d] = flow[x][d]
        /\ flow'[c][d].pc = step
    BY <1>0, <2>1, FlowMoves DEF Channels, FlowSteps
  <2>3. /\ \A q \in Delegations \ {d} :
           /\ ledger'.entry[q] = ledger.entry[q] /\ decision'[q] = decision[q]
           /\ submissions'[q] = submissions[q] /\ charged'[q] = charged[q] /\ handed'[q] = handed[q]
        /\ UNCHANGED <<ledger, decision, submissions, charged>>
        /\ flow[c][d].pc = "settled"
        /\ handed'[d] = handed[d] \cup {decision[d]}
    BY <1>0, <1>5 DEF HandOver, AgentTypes
  <2>4. AgentTypes'
    BY <1>0, <1>5, <2>2, <2>3 DEF HandOver, AgentTypes, LedgerStates
  <2>5. Entered' = Entered /\ CallsCounted'
    <3>1. ledger'.calls = ledger.calls /\ \A q \in Delegations : ledger'.entry[q] = "none" <=> ledger.entry[q] = "none"
      BY <1>0, <2>3 DEF FlowSound, Channels
    <3> QED BY <1>0, <3>1 DEF Entered, CallsCounted
  <2>6. DelegationSound(d)' /\ \A x \in Channels : FlowSound(x, d)'
    <3>1. DelegationSound(d) /\ FlowSound(c, d)
      BY <1>0 DEF Channels
    <3>2. DelegationSound(d)'
      <4>1. decision[d] # "none" /\ ledger.entry[d] = "settled"
        BY <2>3, <3>1 DEF DelegationSound, FlowSound
      <4>2. handed'[d] \subseteq {decision[d]} \ {"none"}
        BY <2>3, <3>1, <4>1 DEF DelegationSound
      <4>3. flow'["submit"][d].pc = "reserved" => submissions[d] = 0
        BY <2>1, <2>2, <3>1 DEF DelegationSound, Channels
      <4> QED BY <2>3, <3>1, <4>2, <4>3 DEF DelegationSound
    <3>3. ASSUME NEW x \in Channels PROVE FlowSound(x, d)'
      BY <1>0, <2>1, <2>2, <2>3, <3>3 DEF FlowSound, Channels, LedgerStates
    <3> QED BY <3>2, <3>3
  <2> QED BY <1>0, <2>2, <2>3, <2>4, <2>5, <2>6, OneDelegation
<1>6. ASSUME NEW c \in Channels, NEW d \in Delegations, MarkLost(c, d) PROVE AgentInv'
  <2>1. PICK step \in {"none"} :
           \/ Moves(c, d, step)
           \/ \E k \in Costs : flow' = [flow EXCEPT ![c][d] = [pc |-> step, cost |-> k]]
           \/ step = "none" /\ flow' = [flow EXCEPT ![c][d] = Quiet]
    BY <1>6 DEF MarkLost
  <2>2. /\ flow' \in [Channels -> [Delegations -> [pc : FlowSteps, cost : Costs \cup {0}]]]
        /\ \A x \in Channels, q \in Delegations \ {d} : flow'[x][q] = flow[x][q]
        /\ \A x \in Channels \ {c} : flow'[x][d] = flow[x][d]
        /\ flow'[c][d].pc = step
    BY <1>0, <2>1, FlowMoves DEF Channels, FlowSteps
  <2>3. /\ \A q \in Delegations \ {d} :
           /\ ledger'.entry[q] = ledger.entry[q] /\ decision'[q] = decision[q]
           /\ submissions'[q] = submissions[q] /\ charged'[q] = charged[q] /\ handed'[q] = handed[q]
        /\ UNCHANGED <<decision, submissions, charged, handed>>
        /\ flow[c][d].pc = "lost"
        /\ ledger'.calls = ledger.calls /\ ledger'.tokens = ledger.tokens
        /\ IF ledger.entry[d] \in {"settled", "rejected"} THEN ledger'.entry[d] = ledger.entry[d]
           ELSE ledger'.entry[d] = "unknown"
    BY <1>0, <1>6 DEF MarkLost, AgentTypes
  <2>4. AgentTypes'
    BY <1>0, <1>6, <2>2, <2>3 DEF MarkLost, AgentTypes, LedgerStates
  <2>5. Entered' = Entered /\ CallsCounted'
    <3>1. ledger'.calls = ledger.calls /\ \A q \in Delegations : ledger'.entry[q] = "none" <=> ledger.entry[q] = "none"
      BY <1>0, <2>3 DEF FlowSound, Channels
    <3> QED BY <1>0, <3>1 DEF Entered, CallsCounted
  <2>6. DelegationSound(d)' /\ \A x \in Channels : FlowSound(x, d)'
    <3>1. DelegationSound(d) /\ FlowSound(c, d)
      BY <1>0 DEF Channels
    <3>2. DelegationSound(d)'
      <4>1. ledger.entry[d] # "none" /\ ledger'.entry[d] # "none"
        BY <2>3, <3>1 DEF FlowSound
      <4>2. flow'["submit"][d].pc = "reserved" => submissions[d] = 0
        BY <2>1, <2>2, <3>1 DEF DelegationSound, Channels
      <4>3. ledger.entry[d] = "settled" <=> ledger'.entry[d] = "settled"
        BY <2>3
      <4>4. ledger'.entry[d] \notin {"settled", "rejected"} => ledger.entry[d] \notin {"settled", "rejected"}
        BY <2>3
      <4> QED BY <2>3, <3>1, <4>1, <4>2, <4>3, <4>4 DEF DelegationSound
    <3>3. ASSUME NEW x \in Channels PROVE FlowSound(x, d)'
      BY <1>0, <2>1, <2>2, <2>3, <3>3 DEF FlowSound, Channels, LedgerStates
    <3> QED BY <3>2, <3>3
  <2> QED BY <1>0, <2>2, <2>3, <2>4, <2>5, <2>6, OneDelegation
<1>7. ASSUME NEW d \in Delegations, Submit(d) PROVE AgentInv'
  <2>1. PICK step \in {"answered", "lost"} :
           \/ Moves("submit", d, step)
           \/ \E k \in Costs : flow' = [flow EXCEPT !["submit"][d] = [pc |-> step, cost |-> k]]
           \/ step = "none" /\ flow' = [flow EXCEPT !["submit"][d] = Quiet]
    BY <1>7 DEF Submit
  <2>2. /\ flow' \in [Channels -> [Delegations -> [pc : FlowSteps, cost : Costs \cup {0}]]]
        /\ \A x \in Channels, q \in Delegations \ {d} : flow'[x][q] = flow[x][q]
        /\ \A x \in Channels \ {"submit"} : flow'[x][d] = flow[x][d]
        /\ flow'["submit"][d].pc = step
    BY <1>0, <2>1, FlowMoves DEF Channels, FlowSteps
  <2>3. /\ \A q \in Delegations \ {d} :
           /\ ledger'.entry[q] = ledger.entry[q] /\ decision'[q] = decision[q]
           /\ submissions'[q] = submissions[q] /\ charged'[q] = charged[q] /\ handed'[q] = handed[q]
        /\ UNCHANGED <<ledger, decision, charged, handed>>
        /\ flow["submit"][d].pc = "reserved"
        /\ submissions'[d] = submissions[d] + 1
    BY <1>0, <1>7 DEF Submit, AgentTypes
  <2>4. AgentTypes'
    BY <1>0, <1>7, <2>2, <2>3 DEF Submit, AgentTypes, LedgerStates
  <2>5. Entered' = Entered /\ CallsCounted'
    <3>1. ledger'.calls = ledger.calls /\ \A q \in Delegations : ledger'.entry[q] = "none" <=> ledger.entry[q] = "none"
      BY <1>0, <2>3 DEF FlowSound, Channels
    <3> QED BY <1>0, <3>1 DEF Entered, CallsCounted
  <2>6. DelegationSound(d)' /\ \A x \in Channels : FlowSound(x, d)'
    <3>1. DelegationSound(d) /\ FlowSound("submit", d)
      BY <1>0 DEF Channels
    <3>2. DelegationSound(d)'
      BY <1>0, <2>1, <2>2, <2>3, <3>1 DEF DelegationSound, FlowSound, LedgerStates, AgentTypes
    <3>3. ASSUME NEW x \in Channels PROVE FlowSound(x, d)'
      BY <1>0, <2>1, <2>2, <2>3, <3>3 DEF FlowSound, Channels, LedgerStates
    <3> QED BY <3>2, <3>3
  <2> QED BY <1>0, <2>2, <2>3, <2>4, <2>5, <2>6, OneDelegation
<1>8. ASSUME NEW d \in Delegations, Reserve(d) PROVE AgentInv'
  <2>1. PICK step \in {"reserved", "none"} : Moves("submit", d, step)
    BY <1>8 DEF Reserve
  <2>2. /\ flow' \in [Channels -> [Delegations -> [pc : FlowSteps, cost : Costs \cup {0}]]]
        /\ \A x \in Channels, q \in Delegations \ {d} : flow'[x][q] = flow[x][q]
        /\ \A x \in Channels \ {"submit"} : flow'[x][d] = flow[x][d]
        /\ flow'["submit"][d].pc = step
    BY <1>0, <2>1, FlowMoves DEF Channels, FlowSteps
  <2>3. UNCHANGED <<decision, submissions, charged, handed>>
    BY <1>8 DEF Reserve
  <2>4. CASE ledger' = ledger
    <3>1. step = "none"
      <4>1. ~(Reservable(d) /\ ledger.calls < GrantCalls)
        <5> SUFFICES ASSUME ledger' = [ledger EXCEPT !.calls = @ + 1, !.entry[d] = "reserved"] PROVE FALSE
          BY <1>8 DEF Reserve
        <5> DEFINE before == ledger.calls
        <5>1. ledger'.calls = before + 1 /\ before \in Nat
          BY <1>0 DEF AgentTypes
        <5>2. ledger'.calls = before
          BY <2>4
        <5> HIDE DEF before
        <5> QED BY <5>1, <5>2
      <4>2. Moves("submit", d, "none")
        BY <1>8, <4>1 DEF Reserve
      <4>3. flow'["submit"][d].pc = "none"
        BY <1>0, <4>2, FlowMoves DEF Channels, FlowSteps
      <4> QED BY <2>2, <4>3
    <3>2. AgentTypes' /\ CallsCounted'
      BY <1>0, <2>2, <2>3, <2>4 DEF AgentTypes, CallsCounted, Entered
    <3>3. DelegationSound(d)' /\ \A x \in Channels : FlowSound(x, d)'
      BY <1>0, <2>2, <2>3, <2>4, <3>1 DEF DelegationSound, FlowSound, Channels
    <3> QED BY <1>0, <2>2, <2>3, <2>4, <3>2, <3>3, OneDelegation
  <2>5. CASE ledger' # ledger
    <3>1. /\ ledger.entry[d] = "none" /\ ledger.calls < GrantCalls
          /\ ledger' = [ledger EXCEPT !.calls = @ + 1, !.entry[d] = "reserved"]
      BY <1>8, <2>5 DEF Reserve, Reservable
    <3>2. /\ ledger' \in [calls : Nat, tokens : Nat, entry : [Delegations -> LedgerStates]]
          /\ ledger'.calls = ledger.calls + 1 /\ ledger'.entry[d] = "reserved"
          /\ \A q \in Delegations \ {d} : ledger'.entry[q] = ledger.entry[q]
      <4> DEFINE T == [calls : Nat, tokens : Nat, entry : [Delegations -> LedgerStates]]
                 one == [ledger EXCEPT !.calls = ledger.calls + 1]
                 row == [ledger.entry EXCEPT ![d] = "reserved"]
      <4>1. ledger \in T /\ ledger.calls \in Nat
        BY <1>0 DEF AgentTypes
      <4>2. one \in T /\ one.calls = ledger.calls + 1 /\ one.entry = ledger.entry
        BY <4>1
      <4>3. row \in [Delegations -> LedgerStates] /\ row[d] = "reserved"
            /\ \A q \in Delegations \ {d} : row[q] = ledger.entry[q]
        BY <4>1 DEF LedgerStates
      <4>4. ledger' = [one EXCEPT !.entry = row]
        BY <3>1, <4>1
      <4> HIDE DEF one, row
      <4> QED BY <4>2, <4>3, <4>4
    <3>3. AgentTypes'
      BY <1>0, <2>2, <2>3, <3>2 DEF AgentTypes
    <3>4. CallsCounted'
      <4>1. d \notin Entered /\ Entered' = Entered \cup {d}
        BY <3>1, <3>2 DEF Entered
      <4>2. IsFiniteSet(Entered)
        BY AgentGrantAssumption, FS_Subset DEF Entered
      <4>3. Cardinality(Entered') = Cardinality(Entered) + 1
        <5> DEFINE E == Entered
        <5>1. E' = E \cup {d}
          BY <4>1
        <5>2. IsFiniteSet(E) /\ d \notin E
          BY <4>1, <4>2
        <5> HIDE DEF E
        <5>3. Cardinality(E \cup {d}) = Cardinality(E) + 1
          BY <5>2, FS_AddElement
        <5> QED BY <5>1, <5>3 DEF E
      <4> QED BY <1>0, <3>1, <3>2, <4>3, AgentGrantAssumption DEF CallsCounted, AgentTypes
    <3>5. DelegationSound(d)' /\ \A x \in Channels : FlowSound(x, d)'
      <4>1. DelegationSound(d) /\ FlowSound("submit", d)
        BY <1>0 DEF Channels
      <4>2. DelegationSound(d)'
        BY <2>1, <2>2, <2>3, <3>1, <3>2, <4>1 DEF DelegationSound, FlowSound
      <4>3. ASSUME NEW x \in Channels PROVE FlowSound(x, d)'
        BY <1>0, <2>1, <2>2, <2>3, <3>1, <3>2, <4>3 DEF FlowSound, Channels
      <4> QED BY <4>2, <4>3
    <3> QED BY <1>0, <2>2, <2>3, <3>2, <3>3, <3>4, <3>5, OneDelegation
  <2> QED BY <2>4, <2>5
<1>9. ASSUME NEW c \in Channels, NEW d \in Delegations, Settle(c, d) PROVE AgentInv'
  <2>1. PICK step \in {"settled", "lost"} : Moves(c, d, step)
    BY <1>9 DEF Settle
  <2>2. /\ flow' \in [Channels -> [Delegations -> [pc : FlowSteps, cost : Costs \cup {0}]]]
        /\ \A x \in Channels, q \in Delegations \ {d} : flow'[x][q] = flow[x][q]
        /\ \A x \in Channels \ {c} : flow'[x][d] = flow[x][d]
        /\ flow'[c][d].pc = step
    BY <1>0, <2>1, FlowMoves DEF FlowSteps
  <2>3. /\ UNCHANGED <<submissions, handed>> /\ DelegationSound(d) /\ FlowSound(c, d)
        /\ flow[c][d].pc = "answered" /\ ledger.entry[d] \notin {"none", "rejected"}
    BY <1>0, <1>9 DEF Settle, FlowSound
  <2>4. CASE ledger.entry[d] = "settled"
    <3>1. UNCHANGED <<ledger, decision, charged>>
      BY <1>9, <2>4 DEF Settle, SettledBefore
    <3>2. AgentTypes' /\ CallsCounted'
      BY <1>0, <2>2, <2>3, <3>1 DEF AgentTypes, CallsCounted, Entered
    <3>3. DelegationSound(d)' /\ \A x \in Channels : FlowSound(x, d)'
      BY <1>0, <2>1, <2>2, <2>3, <2>4, <3>1 DEF DelegationSound, FlowSound, Channels
    <3> QED BY <1>0, <2>2, <2>3, <3>1, <3>2, <3>3, OneDelegation
  <2>5. CASE ledger.entry[d] # "settled"
    <3> DEFINE cost == flow[c][d].cost
               within == ledger.tokens + cost <= GrantTokens
    <3>1. /\ cost \in Costs \cup {0} /\ cost \in Nat /\ ledger.tokens \in Nat
          /\ charged[d] = 0
      <4>1. cost \in Costs \cup {0} /\ ledger.tokens \in Nat
        BY <1>0 DEF AgentTypes
      <4>2. cost \in Nat
        <5> HIDE DEF cost
        <5> QED BY <4>1, AgentGrantAssumption
      <4>3. charged[d] = 0
        BY <2>3, <2>5 DEF DelegationSound
      <4> QED BY <4>1, <4>2, <4>3
    <3>2. /\ ledger' = [ledger EXCEPT !.tokens = @ + cost,
                                      !.entry[d] = IF within THEN "settled" ELSE "rejected"]
          /\ charged' = [charged EXCEPT ![d] = @ + cost]
          /\ within => \E a \in {"authorized", "isolated"} : decision' = [decision EXCEPT ![d] = a]
          /\ ~within => decision' = decision
          /\ Moves(c, d, IF within THEN "settled" ELSE "lost")
      BY <1>9, <2>5 DEF Settle, SettledBefore
    <3>3. step = IF within THEN "settled" ELSE "lost"
      BY <1>0, <2>2, <3>2, FlowMoves DEF FlowSteps
    <3> HIDE DEF cost, within
    <3>4. /\ ledger' \in [calls : Nat, tokens : Nat, entry : [Delegations -> LedgerStates]]
          /\ ledger'.calls = ledger.calls
          /\ ledger'.entry[d] = IF within THEN "settled" ELSE "rejected"
          /\ \A q \in Delegations \ {d} : ledger'.entry[q] = ledger.entry[q]
      <4>1. ledger.tokens + cost \in Nat
        BY <3>1
      <4> QED BY <1>0, <3>2, <4>1 DEF AgentTypes, LedgerStates
    <3>5. /\ charged' \in [Delegations -> Nat] /\ charged'[d] = cost
          /\ \A q \in Delegations \ {d} : charged'[q] = charged[q]
      BY <1>0, <3>1, <3>2 DEF AgentTypes
    <3>6. /\ decision' \in [Delegations -> {"none", "authorized", "isolated"}]
          /\ \A q \in Delegations \ {d} : decision'[q] = decision[q]
          /\ within => decision'[d] # "none"
          /\ ~within => decision'[d] = decision[d]
      BY <1>0, <3>2 DEF AgentTypes
    <3>7. AgentTypes'
      BY <1>0, <2>2, <2>3, <3>4, <3>5, <3>6 DEF AgentTypes
    <3>8. Entered' = Entered /\ CallsCounted'
      <4>1. \A q \in Delegations : ledger'.entry[q] = "none" <=> ledger.entry[q] = "none"
        BY <2>3, <3>4
      <4> QED BY <1>0, <3>4, <4>1 DEF Entered, CallsCounted
    <3>9. DelegationSound(d)'
      <4>1. decision[d] = "none" /\ ledger.entry[d] \notin {"none", "settled", "rejected"}
        BY <2>3, <2>5 DEF DelegationSound
      <4>2. flow'["submit"][d].pc = "reserved" => submissions[d] = 0
        BY <2>1, <2>2, <2>3 DEF DelegationSound, Channels
      <4>3. handed[d] = {}
        BY <2>3, <4>1 DEF DelegationSound
      <4> QED BY <1>0, <2>3, <3>1, <3>4, <3>5, <3>6, <4>1, <4>2, <4>3 DEF DelegationSound
    <3>10. ASSUME NEW x \in Channels PROVE FlowSound(x, d)'
      <4>1. decision[d] = "none"
        BY <2>3, <2>5 DEF DelegationSound
      <4>2. CASE x = c
        BY <2>1, <2>2, <2>3, <3>3, <3>4, <3>6, <3>10, <4>2 DEF FlowSound
      <4>3. CASE x # c
        <5>1. flow'[x][d] = flow[x][d] /\ FlowSound(x, d)
          BY <1>0, <2>2, <3>10, <4>3
        <5>2. ledger'.entry[d] # "none" /\ flow[x][d].pc # "settled"
          BY <3>4, <4>1, <5>1 DEF FlowSound
        <5> QED BY <5>1, <5>2 DEF FlowSound
      <4> QED BY <4>2, <4>3
    <3> QED BY <1>0, <2>2, <2>3, <3>4, <3>5, <3>6, <3>7, <3>8, <3>9, <3>10, OneDelegation
  <2> QED BY <2>4, <2>5
<1>10. ASSUME NEW s \in {"revoked", "expired"}, GrantEnds(s) PROVE AgentInv'
  <2>1. UNCHANGED <<ledger, decision, flow, submissions, charged, handed>>
    BY <1>10 DEF GrantEnds
  <2>2. AgentTypes' /\ CallsCounted'
    BY <1>0, <2>1 DEF AgentTypes, CallsCounted, Entered
  <2>3. ASSUME NEW d \in Delegations PROVE DelegationSound(d)'
    BY <1>0, <2>1, <2>3, DelegationKept
  <2>4. ASSUME NEW c \in Channels, NEW d \in Delegations PROVE FlowSound(c, d)'
    BY <1>0, <2>1, <2>4 DEF FlowSound
  <2> QED BY <2>2, <2>3, <2>4 DEF AgentInv
<1>11. CASE GatewayCrash
  <2>1. /\ UNCHANGED <<ledger, decision, submissions, charged, handed>>
        /\ flow' \in [Channels -> [Delegations -> [pc : FlowSteps, cost : Costs \cup {0}]]]
        /\ \A c \in Channels, d \in Delegations : flow'[c][d].pc = "none"
    BY <1>11 DEF GatewayCrash, Quiet, FlowSteps
  <2>2. AgentTypes' /\ CallsCounted'
    BY <1>0, <2>1 DEF AgentTypes, CallsCounted, Entered
  <2>3. ASSUME NEW d \in Delegations PROVE DelegationSound(d)'
    <3>1. flow'["submit"][d].pc # "reserved"
      BY <2>1 DEF Channels
    <3> QED BY <1>0, <2>1, <2>3, <3>1, DelegationKept
  <2>4. ASSUME NEW c \in Channels, NEW d \in Delegations PROVE FlowSound(c, d)'
    BY <2>1, <2>4 DEF FlowSound
  <2> QED BY <2>2, <2>3, <2>4 DEF AgentInv
<1>12. CASE UNCHANGED agentVars
  BY <1>0, <1>12
  DEF agentVars, AgentInv, AgentTypes, CallsCounted, Entered, DelegationSound, FlowSound
<1> QED BY <1>1, <1>2, <1>3, <1>4, <1>5, <1>6, <1>7, <1>8, <1>9, <1>10, <1>11, <1>12
        DEF AgentNext, Channels

LEMMA AgentInvariant == AgentSpec => []AgentInv
<1> QED BY AgentStart, AgentStep, PTL DEF AgentSpec

\* A delegation is sent once and has one decision and one charge, and the calls of the grant
\* are those of its entries, for any number of delegations, channels and restarts.
THEOREM DelegationsDecidedOnce == AgentSpec => []OneDecisionPerDelegation
<1>1. AgentInv => OneDecisionPerDelegation
  BY DEF AgentInv, CallsCounted, Entered, DelegationSound, OneDecisionPerDelegation
<1> QED BY <1>1, AgentInvariant, PTL

-----------------------------------------------------------------------------
(* The account *)

Reservations == {k \in BudgetKeys : account.entry[k] \in Live}
Unaccounted == {k \in BudgetKeys : usage[k] = "missing" \/ (limited /\ account.entry[k] = "unknown")}
Once == ModelKeys \cup ConnectorKeys
Outcomes == {"reported", "missing"}
Entries == Live \cup {"none", "released"}
Accounts == [usedCalls : Nat, usedTokens : Nat, unreported : Nat, entry : [BudgetKeys -> Entries]]

\* What a caller may still have to do, before and after it has been answered.
Early == {<<"fence">>, <<"send">>, <<"release">>}
Late ==
    {<<>>, <<"mark">>}
      \cup {<<u, "settle", "completed">> : u \in Outcomes} \cup {<<u, "failed", "settle">> : u \in Outcomes}
      \cup {<<u, "unknown", "mark">> : u \in Outcomes}
      \cup {<<u, x>> : u \in Outcomes, x \in {"settle", "mark", "failed", "completed"}}

AccountTypes ==
    /\ limited \in BOOLEAN
    /\ account \in Accounts
    /\ usage \in [BudgetKeys -> Usages]
    /\ call \in [ModelKeys -> {"none", "started", "unknown", "failed", "completed"}]
    /\ boot \in {"up", "ensure", "record", "mark"}
    /\ sent \in [BudgetKeys -> Nat]
    /\ caller \in [Callers -> [key : BudgetKeys \cup {"none"}, todo : Early \cup Late]]

AccountCounts ==
    /\ IsFiniteSet(Reservations) /\ account.usedCalls = Cardinality(Reservations)
    /\ account.usedCalls <= CallLimit
    /\ IsFiniteSet(Unaccounted) /\ account.unreported = Cardinality(Unaccounted)

KeySound(k) ==
    /\ sent[k] > 0 => account.entry[k] \in Live
    /\ k \in Once => sent[k] <= 1
    /\ usage[k] # "none" => account.entry[k] \in {"settled", "rejected"}
    /\ k \in ModelKeys /\ call[k] # "none" => account.entry[k] \in Live

\* A caller with something to do works on a key that holds a reservation; nothing was sent
\* under it while the caller has yet to send.
CallerSound(c) ==
    caller[c].todo # <<>> =>
        /\ caller[c].key \in BudgetKeys /\ account.entry[caller[c].key] \in Live
        /\ caller[c].todo \in {<<"fence">>, <<"release">>} =>
             /\ caller[c].key \in ModelKeys /\ call[caller[c].key] = "none"
             /\ account.entry[caller[c].key] = "reserved" /\ sent[caller[c].key] = 0
        /\ caller[c].todo = <<"send">> /\ caller[c].key \in Once => sent[caller[c].key] = 0

\* Two callers never work on one model call or one lookup.
OneCaller ==
    \A c, b \in Callers :
        caller[c].todo # <<>> /\ caller[b].todo # <<>> /\ caller[c].key = caller[b].key
        /\ caller[c].key \in Once => c = b

BudgetInv ==
    /\ AccountTypes /\ AccountCounts /\ OneCaller
    /\ \A k \in BudgetKeys : KeySound(k)
    /\ \A c \in Callers : CallerSound(c)

-----------------------------------------------------------------------------
(* What the operations on an account change *)

\* Two finite sets that differ at most in x.
LEMMA Counted ==
    ASSUME NEW S, NEW T, NEW x, IsFiniteSet(S), T \ {x} = S \ {x}
    PROVE  /\ IsFiniteSet(T) /\ Cardinality(S) \in Nat /\ Cardinality(T) \in Nat
           /\ Cardinality(T) = Cardinality(S) + (IF x \in T THEN 1 ELSE 0) - (IF x \in S THEN 1 ELSE 0)
<1> DEFINE R == S \ {x}
<1>1. IsFiniteSet(R) /\ x \notin R /\ R = T \ {x}
  BY FS_Subset
<1>2. S = IF x \in S THEN R \cup {x} ELSE R
  OBVIOUS
<1>3. T = IF x \in T THEN R \cup {x} ELSE R
  BY <1>1
<1> HIDE DEF R
<1>4. /\ IsFiniteSet(R \cup {x}) /\ Cardinality(R \cup {x}) = Cardinality(R) + 1
      /\ Cardinality(R) \in Nat /\ Cardinality(R \cup {x}) \in Nat
  BY <1>1, FS_AddElement, FS_CardinalityType
<1>5. CASE x \in S /\ x \in T
  <2>1. S = R \cup {x} /\ T = R \cup {x}
    BY <1>2, <1>3, <1>5
  <2> QED BY <1>4, <1>5, <2>1
<1>6. CASE x \in S /\ x \notin T
  <2>1. S = R \cup {x} /\ T = R
    BY <1>2, <1>3, <1>6
  <2> QED BY <1>1, <1>4, <1>6, <2>1
<1>7. CASE x \notin S /\ x \in T
  <2>1. S = R /\ T = R \cup {x}
    BY <1>2, <1>3, <1>7
  <2> QED BY <1>1, <1>4, <1>7, <2>1
<1>8. CASE x \notin S /\ x \notin T
  BY <1>1, <1>2, <1>3, <1>4, <1>8
<1> QED BY <1>5, <1>6, <1>7, <1>8

LEMMA ReservedIs ==
    ASSUME NEW a \in Accounts, NEW k \in BudgetKeys
    PROVE  /\ Reserved(a, k) \in Accounts
           /\ Reserved(a, k).usedCalls = a.usedCalls + 1 /\ Reserved(a, k).unreported = a.unreported
           /\ Reserved(a, k).entry = [a.entry EXCEPT ![k] = "reserved"]
<1> DEFINE one == [a EXCEPT !.usedCalls = a.usedCalls + 1]
           row == [a.entry EXCEPT ![k] = "reserved"]
<1>1. /\ one \in Accounts /\ one.usedCalls = a.usedCalls + 1 /\ one.unreported = a.unreported
      /\ one.entry = a.entry
  BY DEF Accounts
<1>2. row \in [BudgetKeys -> Entries]
  BY DEF Accounts, Entries, Live
<1>3. Reserved(a, k) = [one EXCEPT !.entry = row]
  BY DEF Reserved, Accounts
<1> SUFFICES /\ Reserved(a, k) \in Accounts
             /\ Reserved(a, k).usedCalls = a.usedCalls + 1 /\ Reserved(a, k).unreported = a.unreported
             /\ Reserved(a, k).entry = row
  OBVIOUS
<1> HIDE DEF one, row
<1> QED BY <1>1, <1>2, <1>3 DEF Accounts

LEMMA ReleasedIs ==
    ASSUME NEW a \in Accounts, NEW k \in BudgetKeys, a.usedCalls > 0
    PROVE  /\ Released(a, k) \in Accounts
           /\ Released(a, k).usedCalls = a.usedCalls - 1 /\ Released(a, k).unreported = a.unreported
           /\ Released(a, k).entry = [a.entry EXCEPT ![k] = "released"]
<1> DEFINE one == [a EXCEPT !.usedCalls = a.usedCalls - 1]
           row == [a.entry EXCEPT ![k] = "released"]
<1>1. /\ one \in Accounts /\ one.usedCalls = a.usedCalls - 1 /\ one.unreported = a.unreported
      /\ one.entry = a.entry
  <2>1. a.usedCalls - 1 \in Nat
    BY DEF Accounts
  <2> QED BY <2>1 DEF Accounts
<1>2. row \in [BudgetKeys -> Entries]
  BY DEF Accounts, Entries, Live
<1>3. Released(a, k) = [one EXCEPT !.entry = row]
  BY DEF Released, Accounts
<1> SUFFICES /\ Released(a, k) \in Accounts
             /\ Released(a, k).usedCalls = a.usedCalls - 1 /\ Released(a, k).unreported = a.unreported
             /\ Released(a, k).entry = row
  OBVIOUS
<1> HIDE DEF one, row
<1> QED BY <1>1, <1>2, <1>3 DEF Accounts

LEMMA MarkedIs ==
    ASSUME NEW a \in Accounts, NEW k \in BudgetKeys, a.entry[k] = "reserved"
    PROVE  /\ Marked(a, k) \in Accounts
           /\ Marked(a, k).usedCalls = a.usedCalls
           /\ Marked(a, k).unreported = IF limited THEN a.unreported + 1 ELSE a.unreported
           /\ Marked(a, k).entry = [a.entry EXCEPT ![k] = "unknown"]
<1> DEFINE count == IF limited THEN a.unreported + 1 ELSE a.unreported
           row == [a.entry EXCEPT ![k] = "unknown"]
           one == [a EXCEPT !.entry = row]
<1>1. row \in [BudgetKeys -> Entries] /\ count \in Nat
  BY DEF Accounts, Entries, Live
<1>2. Marked(a, k) = [one EXCEPT !.unreported = count]
  BY DEF Marked, Accounts
<1> SUFFICES /\ Marked(a, k) \in Accounts
             /\ Marked(a, k).usedCalls = a.usedCalls
             /\ Marked(a, k).unreported = count /\ Marked(a, k).entry = row
  OBVIOUS
<1> HIDE DEF count, row
<1>3. one \in Accounts /\ one.usedCalls = a.usedCalls /\ one.entry = row
  BY <1>1 DEF Accounts
<1> HIDE DEF one
<1> QED BY <1>1, <1>2, <1>3 DEF Accounts

LEMMA SettledIs ==
    ASSUME NEW a \in Accounts, NEW k \in BudgetKeys, NEW u \in Outcomes, Settleable(a, k)
    PROVE  /\ Settled(a, k, u) \in Accounts
           /\ Settled(a, k, u).usedCalls = a.usedCalls
           /\ Settled(a, k, u).unreported =
                 a.unreported - (IF a.entry[k] = "unknown" /\ limited /\ a.unreported > 0 THEN 1 ELSE 0)
                              + (IF u = "missing" THEN 1 ELSE 0)
           /\ \E x \in {"settled", "rejected"} : Settled(a, k, u).entry = [a.entry EXCEPT ![k] = x]
<1> DEFINE returned == IF a.entry[k] = "unknown" /\ limited /\ a.unreported > 0 THEN 1 ELSE 0
           tokens == a.usedTokens + (IF u = "reported" THEN CallTokens ELSE 0)
           count == a.unreported - returned + (IF u = "missing" THEN 1 ELSE 0)
           x == IF limited /\ (tokens > TokenLimit \/ u = "missing") THEN "rejected" ELSE "settled"
           row == [a.entry EXCEPT ![k] = x]
           one == [a EXCEPT !.usedTokens = tokens]
           two == [one EXCEPT !.unreported = count]
<1>1. tokens \in Nat /\ count \in Nat /\ x \in {"settled", "rejected"}
  BY BudgetAssumption DEF Accounts
<1>2. Settled(a, k, u) = [two EXCEPT !.entry = row]
  BY DEF Settled, Accounts
<1> SUFFICES /\ Settled(a, k, u) \in Accounts
             /\ Settled(a, k, u).usedCalls = a.usedCalls
             /\ Settled(a, k, u).unreported = count
             /\ Settled(a, k, u).entry = [a.entry EXCEPT ![k] = x]
  BY <1>1
<1> HIDE DEF returned, tokens, count, x
<1>3. row \in [BudgetKeys -> Entries]
  BY <1>1 DEF Accounts, Entries, Live
<1> SUFFICES /\ Settled(a, k, u) \in Accounts
             /\ Settled(a, k, u).usedCalls = a.usedCalls
             /\ Settled(a, k, u).unreported = count
             /\ Settled(a, k, u).entry = row
  OBVIOUS
<1> HIDE DEF row
<1>4. one \in Accounts /\ one.usedCalls = a.usedCalls /\ one.unreported = a.unreported
  BY <1>1 DEF Accounts
<1> HIDE DEF one
<1>5. two \in Accounts /\ two.usedCalls = a.usedCalls /\ two.unreported = count
  BY <1>1, <1>4 DEF Accounts
<1> HIDE DEF two
<1> QED BY <1>2, <1>3, <1>5 DEF Accounts

\* The counters after a step that concerns one key alone.
LEMMA CountsKept ==
    ASSUME AccountCounts, NEW k \in BudgetKeys, limited' = limited,
           \A q \in BudgetKeys \ {k} : account'.entry[q] = account.entry[q] /\ usage'[q] = usage[q],
           account'.usedCalls = account.usedCalls + (IF k \in Reservations' THEN 1 ELSE 0)
                                                  - (IF k \in Reservations THEN 1 ELSE 0),
           account'.usedCalls <= CallLimit,
           account'.unreported = account.unreported + (IF k \in Unaccounted' THEN 1 ELSE 0)
                                                    - (IF k \in Unaccounted THEN 1 ELSE 0)
    PROVE  AccountCounts'
<1> DEFINE R == Reservations
           U == Unaccounted
<1>1. R' \ {k} = R \ {k}
  BY DEF Reservations
<1>2. U' \ {k} = U \ {k}
  BY DEF Unaccounted
<1>3. IsFiniteSet(R) /\ IsFiniteSet(U)
  BY DEF AccountCounts
<1>4. PICK R2, U2 : R2 = R' /\ U2 = U'
  OBVIOUS
<1> HIDE DEF R, U
<1>5. /\ IsFiniteSet(R2)
      /\ Cardinality(R2) = Cardinality(R) + (IF k \in R2 THEN 1 ELSE 0) - (IF k \in R THEN 1 ELSE 0)
  BY <1>1, <1>3, <1>4, Counted
<1>6. /\ IsFiniteSet(U2)
      /\ Cardinality(U2) = Cardinality(U) + (IF k \in U2 THEN 1 ELSE 0) - (IF k \in U THEN 1 ELSE 0)
  BY <1>2, <1>3, <1>4, Counted
<1> QED BY <1>4, <1>5, <1>6 DEF AccountCounts, R, U

-----------------------------------------------------------------------------
(* The steps of a caller *)

\* A step that concerns one key alone.
LEMMA OneKey ==
    ASSUME BudgetInv, AccountTypes', AccountCounts', OneCaller', NEW k \in BudgetKeys,
           \A q \in BudgetKeys \ {k} :
              account'.entry[q] = account.entry[q] /\ usage'[q] = usage[q] /\ sent'[q] = sent[q],
           \A q \in ModelKeys \ {k} : call'[q] = call[q],
           KeySound(k)',
           \A c \in Callers : \/ caller'[c].todo = <<>>
                              \/ caller'[c] = caller[c] /\ caller[c].key # k
                              \/ CallerSound(c)'
    PROVE  BudgetInv'
<1>1. ASSUME NEW q \in BudgetKeys \ {k} PROVE KeySound(q)'
  <2>1. KeySound(q)
    BY DEF BudgetInv
  <2> QED BY <1>1, <2>1 DEF KeySound
<1>2. ASSUME NEW c \in Callers PROVE CallerSound(c)'
  <2>1. CASE caller'[c] = caller[c] /\ caller[c].key # k
    <3>1. CallerSound(c)
      BY DEF BudgetInv
    <3> QED BY <2>1, <3>1 DEF CallerSound, BudgetKeys
  <2>2. CASE caller'[c].todo = <<>>
    BY <2>2 DEF CallerSound
  <2> QED BY <1>2, <2>1, <2>2
<1> QED BY <1>1, <1>2 DEF BudgetInv

\* A step of one caller, which goes on with its key, takes up a key or is done.
LEMMA OneTurn ==
    ASSUME BudgetInv, AccountTypes', AccountCounts', NEW c \in Callers, NEW k \in BudgetKeys,
           \A q \in BudgetKeys \ {k} :
              account'.entry[q] = account.entry[q] /\ usage'[q] = usage[q] /\ sent'[q] = sent[q],
           \A q \in ModelKeys \ {k} : call'[q] = call[q],
           \A b \in Callers \ {c} : caller'[b] = caller[b],
           \A b \in Callers \ {c} : caller[b].todo # <<>> /\ caller[b].key = k => k \notin Once,
           caller'[c].todo # <<>> => caller'[c].key = k,
           account'.entry[k] \in Live, KeySound(k)', CallerSound(c)'
    PROVE  BudgetInv'
<1>1. OneCaller'
  BY DEF BudgetInv, OneCaller
<1>2. ASSUME NEW b \in Callers, b # c, caller[b].key = k PROVE CallerSound(b)'
  <2>1. CallerSound(b) /\ caller'[b] = caller[b]
    BY <1>2 DEF BudgetInv
  <2> QED BY <1>2, <2>1 DEF CallerSound, Once
<1>3. ASSUME NEW b \in Callers
      PROVE  \/ caller'[b].todo = <<>>
             \/ caller'[b] = caller[b] /\ caller[b].key # k
             \/ CallerSound(b)'
  BY <1>2, <1>3
<1> QED BY <1>1, <1>3, OneKey

\* Who else works on the key of a caller.
LEMMA Shared ==
    ASSUME BudgetInv, NEW c \in Callers, caller[c].todo # <<>>
    PROVE  /\ caller[c].key \in BudgetKeys /\ account.entry[caller[c].key] \in Live
           /\ \A b \in Callers \ {c} :
                 caller[b].todo # <<>> /\ caller[b].key = caller[c].key => caller[c].key \notin Once
BY DEF BudgetInv, CallerSound, OneCaller

\* A caller takes up a key.
LEMMA Begun ==
    ASSUME AccountTypes, NEW c \in Callers, NEW k \in BudgetKeys, NEW steps \in Early \cup Late, Begins(c, k, steps)
    PROVE  /\ caller' \in [Callers -> [key : BudgetKeys \cup {"none"}, todo : Early \cup Late]]
           /\ caller'[c].key = k /\ caller'[c].todo = steps
           /\ \A b \in Callers \ {c} : caller'[b] = caller[b]
BY DEF AccountTypes, Begins

\* A caller is done.
LEMMA Done ==
    ASSUME AccountTypes, NEW c \in Callers, caller' = [caller EXCEPT ![c] = NoCall]
    PROVE  /\ caller' \in [Callers -> [key : BudgetKeys \cup {"none"}, todo : Early \cup Late]]
           /\ caller'[c].todo = <<>>
           /\ \A b \in Callers \ {c} : caller'[b] = caller[b]
BY DEF AccountTypes, NoCall, Late

LEMMA Prefixed ==
    ASSUME NEW u, NEW x, NEW y
    PROVE  <<u>> \o <<x>> = <<u, x>> /\ <<u>> \o <<x, y>> = <<u, x, y>>
<1> DEFINE S == {u, x, y}
           p == <<u>>
           q == <<x>>
           r == <<x, y>>
           pq == <<u, x>>
           pr == <<u, x, y>>
<1>1. /\ p \in Seq(S) /\ Len(p) = 1 /\ p[1] = u
      /\ q \in Seq(S) /\ Len(q) = 1 /\ q[1] = x
      /\ r \in Seq(S) /\ Len(r) = 2 /\ r[1] = x /\ r[2] = y
      /\ pq \in Seq(S) /\ Len(pq) = 2 /\ pq[1] = u /\ pq[2] = x
      /\ pr \in Seq(S) /\ Len(pr) = 3 /\ pr[1] = u /\ pr[2] = x /\ pr[3] = y
  OBVIOUS
<1> HIDE DEF S, p, q, r, pq, pr
<1>2. p \o q = pq
  <2>1. /\ p \o q \in Seq(S) /\ Len(p \o q) = 2
        /\ \A i \in 1 .. 2 : (p \o q)[i] = IF i <= 1 THEN p[i] ELSE q[i - 1]
    <3>1. /\ p \o q \in Seq(S) /\ Len(p \o q) = Len(p) + Len(q)
          /\ \A i \in 1 .. Len(p) + Len(q) :
                (p \o q)[i] = IF i <= Len(p) THEN p[i] ELSE q[i - Len(p)]
      <4>1. p \in Seq(S) /\ q \in Seq(S)
        BY <1>1
      <4> QED BY <4>1, ConcatProperties
    <3>2. Len(p) = 1 /\ Len(q) = 1
      BY <1>1
    <3> QED BY <3>1, <3>2
  <2>2. \A i \in 1 .. 2 : (p \o q)[i] = pq[i]
    BY <1>1, <2>1
  <2> QED BY <1>1, <2>1, <2>2, SeqEqual
<1>3. p \o r = pr
  <2>1. /\ p \o r \in Seq(S) /\ Len(p \o r) = 3
        /\ \A i \in 1 .. 3 : (p \o r)[i] = IF i <= 1 THEN p[i] ELSE r[i - 1]
    <3>1. /\ p \o r \in Seq(S) /\ Len(p \o r) = Len(p) + Len(r)
          /\ \A i \in 1 .. Len(p) + Len(r) :
                (p \o r)[i] = IF i <= Len(p) THEN p[i] ELSE r[i - Len(p)]
      <4>1. p \in Seq(S) /\ r \in Seq(S)
        BY <1>1
      <4> QED BY <4>1, ConcatProperties
    <3>2. Len(p) = 1 /\ Len(r) = 2
      BY <1>1
    <3> QED BY <3>1, <3>2
  <2>2. \A i \in 1 .. 3 : (p \o r)[i] = pr[i]
    BY <1>1, <2>1
  <2> QED BY <1>1, <2>1, <2>2, SeqEqual
<1> QED BY <1>2, <1>3 DEF p, q, r, pq, pr

\* What follows a step of a caller that has been answered.
LEMMA LateSteps ==
    ASSUME NEW t \in Early \cup Late, Len(t) > 1
    PROVE  /\ t \in Late /\ Head(t) \in Outcomes
           /\ Tail(Tail(t)) # <<>> => <<Head(t)>> \o Tail(Tail(t)) \in Late
           /\ t[2] = "settle" => <<Head(t), "failed">> \in Late
           /\ t # <<>>
<1>1. t \in Late
  BY DEF Early
<1>2. PICK u \in Outcomes :
         \/ t = <<u, "settle", "completed">> \/ t = <<u, "failed", "settle">> \/ t = <<u, "unknown", "mark">>
         \/ \E x \in {"settle", "mark", "failed", "completed"} : t = <<u, x>>
  <2> DEFINE InFull == {<<u, "settle", "completed">> : u \in Outcomes}
             WithError == {<<u, "failed", "settle">> : u \in Outcomes}
             Undecided == {<<u, "unknown", "mark">> : u \in Outcomes}
             OneLeft == {<<u, x>> : u \in Outcomes, x \in {"settle", "mark", "failed", "completed"}}
  <2>1. t # <<>> /\ t # <<"mark">>
    <3>1. t # <<>>
      OBVIOUS
    <3>2. t # <<"mark">>
      OBVIOUS
    <3> QED BY <3>1, <3>2
  <2>2. CASE t \in InFull
    BY ONLY <2>2
  <2>3. CASE t \in WithError
    BY ONLY <2>3
  <2>4. CASE t \in Undecided
    BY ONLY <2>4
  <2>5. CASE t \in OneLeft
    BY ONLY <2>5
  <2>6. Late = {<<>>, <<"mark">>} \cup InFull \cup WithError \cup Undecided \cup OneLeft
    BY ONLY DEF Late
  <2> HIDE DEF InFull, WithError, Undecided, OneLeft
  <2> QED BY <1>1, <2>1, <2>2, <2>3, <2>4, <2>5, <2>6
<1>3. Head(t) = u
  BY <1>2
<1>4. <<u, "failed">> \in Late
  BY DEF Late
<1>5. Tail(Tail(t)) # <<>> => <<u>> \o Tail(Tail(t)) \in Late
  <2>1. CASE t = <<u, "settle", "completed">>
    <3>1. Tail(Tail(t)) = <<"completed">>
      BY <2>1
    <3>2. <<u>> \o <<"completed">> = <<u, "completed">>
      BY Prefixed
    <3>3. <<u, "completed">> \in Late
      BY DEF Late
    <3> QED BY <3>1, <3>2, <3>3
  <2>2. CASE t = <<u, "failed", "settle">>
    <3>1. Tail(Tail(t)) = <<"settle">>
      BY <2>2
    <3>2. <<u>> \o <<"settle">> = <<u, "settle">>
      BY Prefixed
    <3>3. <<u, "settle">> \in Late
      BY DEF Late
    <3> QED BY <3>1, <3>2, <3>3
  <2>3. CASE t = <<u, "unknown", "mark">>
    <3>1. Tail(Tail(t)) = <<"mark">>
      BY <2>3
    <3>2. <<u>> \o <<"mark">> = <<u, "mark">>
      BY Prefixed
    <3>3. <<u, "mark">> \in Late
      BY DEF Late
    <3> QED BY <3>1, <3>2, <3>3
  <2>4. CASE \E x \in {"settle", "mark", "failed", "completed"} : t = <<u, x>>
    BY <2>4
  <2> QED BY <1>2, <2>1, <2>2, <2>3, <2>4
<1> QED BY <1>1, <1>2, <1>3, <1>4, <1>5

LEMMA LateIsNotEarly ==
    ASSUME NEW t \in Late
    PROVE  t # <<"fence">> /\ t # <<"release">> /\ t # <<"send">>
BY DEF Late

\* A caller that has been answered goes on, or is done.
LEMMA Gone ==
    ASSUME AccountTypes, NEW c \in Callers, NEW steps \in Late, Goes(c, steps)
    PROVE  /\ caller' \in [Callers -> [key : BudgetKeys \cup {"none"}, todo : Early \cup Late]]
           /\ caller'[c].todo \in Late
           /\ caller'[c].todo # <<>> => caller'[c].key = caller[c].key
           /\ \A b \in Callers \ {c} : caller'[b] = caller[b]
<1> DEFINE new == IF steps = <<>> THEN NoCall ELSE [caller[c] EXCEPT !.todo = steps]
<1>1. caller[c] \in [key : BudgetKeys \cup {"none"}, todo : Early \cup Late]
  BY DEF AccountTypes
<1>2. /\ new \in [key : BudgetKeys \cup {"none"}, todo : Early \cup Late] /\ new.todo \in Late
      /\ new.todo # <<>> => new.key = caller[c].key
  BY <1>1 DEF NoCall, Late
<1>3. caller' = [caller EXCEPT ![c] = new]
  BY DEF Goes
<1> HIDE DEF new
<1> QED BY <1>2, <1>3 DEF AccountTypes

\* A reservation of a key that has none.
LEMMA Reserves ==
    ASSUME BudgetInv, NEW k \in BudgetKeys, account.entry[k] = "none", Admits(account),
           account' = Reserved(account, k), UNCHANGED <<limited, usage>>
    PROVE  /\ account' \in Accounts /\ AccountCounts' /\ account'.entry[k] = "reserved"
           /\ \A q \in BudgetKeys \ {k} : account'.entry[q] = account.entry[q]
           /\ sent[k] = 0 /\ usage[k] = "none" /\ (k \in ModelKeys => call[k] = "none")
           /\ \A c \in Callers : caller[c].todo # <<>> => caller[c].key # k
<1>1. AccountTypes /\ AccountCounts /\ KeySound(k) /\ account \in Accounts
  BY DEF BudgetInv, AccountTypes
<1>2. /\ account' \in Accounts
      /\ account'.usedCalls = account.usedCalls + 1 /\ account'.unreported = account.unreported
      /\ account'.entry = [account.entry EXCEPT ![k] = "reserved"]
  BY <1>1, ReservedIs
<1>3. /\ account'.entry[k] = "reserved"
      /\ \A q \in BudgetKeys \ {k} : account'.entry[q] = account.entry[q]
  BY <1>1, <1>2 DEF Accounts
<1>4. sent[k] = 0 /\ usage[k] = "none" /\ (k \in ModelKeys => call[k] = "none")
  BY <1>1 DEF KeySound, Live, AccountTypes
<1>5. \A c \in Callers : caller[c].todo # <<>> => caller[c].key # k
  BY DEF BudgetInv, CallerSound, Live
<1>6. /\ k \notin Reservations /\ k \in Reservations' /\ k \notin Unaccounted /\ k \notin Unaccounted'
  BY <1>3, <1>4 DEF Reservations, Unaccounted, Live
<1>7. AccountCounts'
  <2>1. account.usedCalls < CallLimit /\ account.usedCalls \in Nat /\ account.unreported \in Nat
    BY <1>1 DEF Admits, Accounts
  <2>2. /\ account'.usedCalls = account.usedCalls + 1 - 0 /\ account'.usedCalls <= CallLimit
        /\ account'.unreported = account.unreported + 0 - 0
    BY <1>2, <2>1, BudgetAssumption
  <2> QED BY <1>1, <1>3, <1>6, <2>2, CountsKept
<1> QED BY <1>2, <1>3, <1>4, <1>5, <1>7

\* Marking an entry, which is left as it is unless it is reserved.
LEMMA Marks ==
    ASSUME BudgetInv, NEW k \in BudgetKeys, account' = Marked(account, k), UNCHANGED <<limited, usage>>
    PROVE  /\ account' \in Accounts /\ AccountCounts'
           /\ account'.entry[k] \in Live <=> account.entry[k] \in Live
           /\ account.entry[k] # "reserved" => account' = account
           /\ \A q \in BudgetKeys \ {k} : account'.entry[q] = account.entry[q]
<1>1. AccountTypes /\ AccountCounts /\ KeySound(k) /\ account \in Accounts
  BY DEF BudgetInv, AccountTypes
<1>2. CASE account.entry[k] # "reserved"
  <2>1. account' = account
    BY <1>2 DEF Marked
  <2> QED BY <1>1, <1>2, <2>1 DEF AccountCounts, Reservations, Unaccounted
<1>3. CASE account.entry[k] = "reserved"
  <2>1. /\ account' \in Accounts /\ account'.usedCalls = account.usedCalls
        /\ account'.unreported = IF limited THEN account.unreported + 1 ELSE account.unreported
        /\ account'.entry = [account.entry EXCEPT ![k] = "unknown"]
    BY <1>1, <1>3, MarkedIs
  <2>2. /\ account'.entry[k] = "unknown"
        /\ \A q \in BudgetKeys \ {k} : account'.entry[q] = account.entry[q]
    BY <1>1, <2>1 DEF Accounts
  <2>3. usage[k] = "none"
    BY <1>1, <1>3 DEF KeySound
  <2>4. /\ k \in Reservations /\ k \in Reservations' /\ k \notin Unaccounted
        /\ k \in Unaccounted' <=> limited
    BY <1>3, <2>2, <2>3 DEF Reservations, Unaccounted, Live
  <2>5. AccountCounts'
    <3>1. account.usedCalls \in Nat /\ account.unreported \in Nat /\ account.usedCalls <= CallLimit
      BY <1>1 DEF Accounts, AccountCounts
    <3>2. /\ account'.usedCalls = account.usedCalls + 1 - 1 /\ account'.usedCalls <= CallLimit
          /\ account'.unreported = account.unreported + (IF k \in Unaccounted' THEN 1 ELSE 0) - 0
      BY <2>1, <2>4, <3>1
    <3> QED BY <1>1, <2>2, <2>4, <3>2, CountsKept
  <2> QED BY <1>3, <2>1, <2>2, <2>5 DEF Live
<1> QED BY <1>2, <1>3

\* Settling an entry that is reserved or unknown.
LEMMA Settles ==
    ASSUME BudgetInv, NEW k \in BudgetKeys, NEW u \in Outcomes, Settleable(account, k),
           account' = Settled(account, k, u), usage' = [usage EXCEPT ![k] = u], UNCHANGED limited
    PROVE  /\ account' \in Accounts /\ AccountCounts' /\ usage' \in [BudgetKeys -> Usages]
           /\ account'.entry[k] \in {"settled", "rejected"}
           /\ \A q \in BudgetKeys \ {k} : account'.entry[q] = account.entry[q] /\ usage'[q] = usage[q]
<1>1. AccountTypes /\ AccountCounts /\ KeySound(k) /\ account \in Accounts
  BY DEF BudgetInv, AccountTypes
<1>2. /\ account' \in Accounts /\ account'.usedCalls = account.usedCalls
      /\ account'.unreported =
            account.unreported - (IF account.entry[k] = "unknown" /\ limited /\ account.unreported > 0 THEN 1 ELSE 0)
                               + (IF u = "missing" THEN 1 ELSE 0)
      /\ \E x \in {"settled", "rejected"} : account'.entry = [account.entry EXCEPT ![k] = x]
  BY <1>1, SettledIs
<1>3. /\ account'.entry[k] \in {"settled", "rejected"}
      /\ \A q \in BudgetKeys \ {k} : account'.entry[q] = account.entry[q]
  BY <1>1, <1>2 DEF Accounts
<1>4. usage' \in [BudgetKeys -> Usages] /\ usage'[k] = u
      /\ \A q \in BudgetKeys \ {k} : usage'[q] = usage[q]
  BY <1>1 DEF AccountTypes, Usages, Outcomes
<1>5. usage[k] = "none" /\ account.entry[k] \in {"reserved", "unknown"}
  BY <1>1 DEF KeySound, Settleable, AccountTypes, Usages
<1>6. /\ k \in Reservations /\ k \in Reservations'
      /\ k \in Unaccounted <=> (limited /\ account.entry[k] = "unknown")
      /\ k \in Unaccounted' <=> u = "missing"
  BY <1>3, <1>4, <1>5 DEF Reservations, Unaccounted, Live
<1>7. k \in Unaccounted => account.unreported > 0
  <2> DEFINE U == Unaccounted
  <2>1. IsFiniteSet(U) /\ account.unreported = Cardinality(U) /\ account.unreported \in Nat
    BY <1>1 DEF AccountCounts, Accounts
  <2> HIDE DEF U
  <2>2. k \in U => Cardinality(U) # 0
    BY <2>1, FS_EmptySet
  <2> QED BY <2>1, <2>2 DEF U
<1>8. AccountCounts'
  <2>1. account.usedCalls \in Nat /\ account.unreported \in Nat /\ account.usedCalls <= CallLimit
    BY <1>1 DEF Accounts, AccountCounts
  <2>2. /\ account'.usedCalls = account.usedCalls + 1 - 1 /\ account'.usedCalls <= CallLimit
        /\ account'.unreported = account.unreported + (IF k \in Unaccounted' THEN 1 ELSE 0)
                                                    - (IF k \in Unaccounted THEN 1 ELSE 0)
    BY <1>2, <1>6, <1>7, <2>1
  <2> QED BY <1>1, <1>3, <1>4, <1>6, <2>2, CountsKept
<1> QED BY <1>2, <1>3, <1>4, <1>8

\* Giving a reservation back.
LEMMA Releases ==
    ASSUME BudgetInv, NEW k \in BudgetKeys, account.entry[k] = "reserved",
           account' = Released(account, k), UNCHANGED <<limited, usage>>
    PROVE  /\ account' \in Accounts /\ AccountCounts' /\ account'.entry[k] = "released"
           /\ \A q \in BudgetKeys \ {k} : account'.entry[q] = account.entry[q]
           /\ usage[k] = "none"
<1>1. AccountTypes /\ AccountCounts /\ KeySound(k) /\ account \in Accounts
  BY DEF BudgetInv, AccountTypes
<1>2. k \in Reservations
  BY DEF Reservations, Live
<1>3. account.usedCalls > 0
  <2> DEFINE R == Reservations
  <2>1. IsFiniteSet(R) /\ account.usedCalls = Cardinality(R) /\ account.usedCalls \in Nat /\ k \in R
    BY <1>1, <1>2 DEF AccountCounts, Accounts
  <2> HIDE DEF R
  <2>2. Cardinality(R) # 0
    BY <2>1, FS_EmptySet
  <2> QED BY <2>1, <2>2
<1>4. /\ account' \in Accounts
      /\ account'.usedCalls = account.usedCalls - 1 /\ account'.unreported = account.unreported
      /\ account'.entry = [account.entry EXCEPT ![k] = "released"]
  BY <1>1, <1>3, ReleasedIs
<1>5. /\ account'.entry[k] = "released"
      /\ \A q \in BudgetKeys \ {k} : account'.entry[q] = account.entry[q]
  BY <1>1, <1>4 DEF Accounts
<1>6. usage[k] = "none"
  BY <1>1 DEF KeySound
<1>7. k \notin Reservations' /\ k \notin Unaccounted /\ k \notin Unaccounted'
  BY <1>5, <1>6 DEF Reservations, Unaccounted, Live
<1>8. AccountCounts'
  <2>1. account.usedCalls \in Nat /\ account.unreported \in Nat /\ account.usedCalls <= CallLimit
    BY <1>1 DEF Accounts, AccountCounts
  <2>2. /\ account'.usedCalls = account.usedCalls + 0 - 1 /\ account'.usedCalls <= CallLimit
        /\ account'.unreported = account.unreported + 0 - 0
    BY <1>4, <2>1, BudgetAssumption
  <2> QED BY <1>1, <1>2, <1>5, <1>7, <2>2, CountsKept
<1> QED BY <1>4, <1>5, <1>6, <1>8

-----------------------------------------------------------------------------
(* The account through every step *)

LEMMA BudgetStart == BudgetInit => BudgetInv
<1> SUFFICES ASSUME BudgetInit PROVE BudgetInv
  OBVIOUS
<1>1. account \in Accounts /\ account.usedCalls = 0 /\ account.unreported = 0
      /\ \A k \in BudgetKeys : account.entry[k] = "none"
  BY DEF BudgetInit, Accounts, Entries
<1>2. AccountTypes
  BY <1>1 DEF BudgetInit, AccountTypes, NoCall, Late, Usages
<1>3. AccountCounts
  <2>1. Reservations = {} /\ Unaccounted = {}
    BY <1>1 DEF BudgetInit, Reservations, Unaccounted, Live
  <2> QED BY <1>1, <2>1, FS_EmptySet, BudgetAssumption DEF AccountCounts
<1>4. OneCaller /\ \A c \in Callers : CallerSound(c)
  BY DEF BudgetInit, OneCaller, CallerSound, NoCall
<1>5. \A k \in BudgetKeys : KeySound(k)
  BY DEF BudgetInit, KeySound
<1> QED BY <1>2, <1>3, <1>4, <1>5 DEF BudgetInv

\* A step that leaves the account alone.
LEMMA SameCounts ==
    ASSUME AccountCounts, UNCHANGED <<limited, account, usage>>
    PROVE  AccountCounts'
BY DEF AccountCounts, Reservations, Unaccounted

\* Reserving a call and taking it up.
LEMMA ReservingStep ==
    ASSUME BudgetInv, NEW c \in Callers, NEW k \in BudgetKeys, NEW steps \in {<<"fence">>, <<"send">>},
           account.entry[k] = "none", Admits(account), account' = Reserved(account, k),
           Begins(c, k, steps), steps = <<"fence">> => k \in ModelKeys,
           UNCHANGED <<limited, usage, call, boot, sent>>
    PROVE  BudgetInv'
<1>1. /\ account' \in Accounts /\ AccountCounts' /\ account'.entry[k] = "reserved"
      /\ \A q \in BudgetKeys \ {k} : account'.entry[q] = account.entry[q]
      /\ sent[k] = 0 /\ usage[k] = "none" /\ (k \in ModelKeys => call[k] = "none")
      /\ \A b \in Callers : caller[b].todo # <<>> => caller[b].key # k
  BY Reserves
<1>2. AccountTypes
  BY DEF BudgetInv
<1>3. /\ caller' \in [Callers -> [key : BudgetKeys \cup {"none"}, todo : Early \cup Late]]
      /\ caller'[c].key = k /\ caller'[c].todo = steps
      /\ \A b \in Callers \ {c} : caller'[b] = caller[b]
  BY <1>2, Begun DEF Early
<1>4. AccountTypes'
  BY <1>1, <1>2, <1>3 DEF AccountTypes
<1>5. KeySound(k)'
  BY <1>1 DEF KeySound, Live
<1>6. CallerSound(c)'
  BY <1>1, <1>3 DEF CallerSound, Live
<1>7. account'.entry[k] \in Live
  BY <1>1 DEF Live
<1> QED BY <1>1, <1>3, <1>4, <1>5, <1>6, <1>7, OneTurn

LEMMA BudgetStep ==
    ASSUME BudgetInv, [BudgetNext]_budgetVars
    PROVE  BudgetInv'
<1>0. /\ AccountTypes /\ AccountCounts /\ OneCaller
      /\ \A k \in BudgetKeys : KeySound(k)
      /\ \A c \in Callers : CallerSound(c)
  BY DEF BudgetInv
<1>1. ASSUME NEW c \in Callers, NEW k \in ModelKeys, ReserveModel(c, k) PROVE BudgetInv'
  BY <1>1, ReservingStep DEF ReserveModel, BudgetKeys
<1>2. ASSUME NEW c \in Callers, NEW k \in ConnectorKeys, ReserveConnector(c, k) PROVE BudgetInv'
  BY <1>2, ReservingStep DEF ReserveConnector, ConnectorProceeds, BudgetKeys
<1>3. ASSUME NEW c \in Callers, NEW k \in OwnerKeys, ReserveOwner(c, k) PROVE BudgetInv'
  <2>1. CASE account.entry[k] = "none" /\ Admits(account) /\ account' = Reserved(account, k)
    BY <1>3, <2>1, ReservingStep DEF ReserveOwner, BudgetKeys
  <2>2. CASE account.entry[k] = "reserved" /\ UNCHANGED account
    <3>1. UNCHANGED <<limited, account, usage, call, boot, sent>> /\ Begins(c, k, <<"send">>)
      BY <1>3, <2>2 DEF ReserveOwner
    <3>2. k \in BudgetKeys /\ k \notin Once
      BY BudgetAssumption DEF BudgetKeys, Once
    <3>3. /\ caller' \in [Callers -> [key : BudgetKeys \cup {"none"}, todo : Early \cup Late]]
          /\ caller'[c].key = k /\ caller'[c].todo = <<"send">>
          /\ \A b \in Callers \ {c} : caller'[b] = caller[b]
      BY <1>0, <3>1, <3>2, Begun DEF Early
    <3>4. AccountTypes' /\ AccountCounts'
      BY <1>0, <3>1, <3>3, SameCounts DEF AccountTypes
    <3>5. KeySound(k)'
      BY <1>0, <3>1, <3>2 DEF KeySound
    <3>6. CallerSound(c)' /\ account'.entry[k] \in Live
      BY <2>2, <3>2, <3>3 DEF CallerSound, Live
    <3> QED BY <3>1, <3>2, <3>3, <3>4, <3>5, <3>6, OneTurn
  <2> QED BY <1>3, <2>1, <2>2 DEF ReserveOwner
<1>4. ASSUME NEW c \in Callers, Fence(c) PROVE BudgetInv'
  <2>0. PICK k : k = caller[c].key
    OBVIOUS
  <2>1. /\ caller[c].todo = <<"fence">> /\ caller[c].todo # <<>>
        /\ UNCHANGED <<limited, account, usage, boot, sent>>
    BY <2>0, <1>4 DEF Fence
  <2>2. /\ k \in BudgetKeys /\ account.entry[k] \in Live
        /\ \A b \in Callers \ {c} : caller[b].todo # <<>> /\ caller[b].key = k => k \notin Once
    BY <2>0, <2>1, Shared
  <2>3. k \in ModelKeys /\ call[k] = "none" /\ account.entry[k] = "reserved" /\ sent[k] = 0 /\ KeySound(k)
    BY <2>0, <1>0, <2>1, <2>2 DEF CallerSound
  <2>4. \/ call' = [call EXCEPT ![k] = "started"] /\ Begins(c, k, <<"send">>)
        \/ call' = call /\ Begins(c, k, <<"release">>)
    BY <2>0, <1>4 DEF Fence
  <2>5. /\ call' \in [ModelKeys -> {"none", "started", "unknown", "failed", "completed"}]
        /\ \A q \in ModelKeys \ {k} : call'[q] = call[q]
        /\ Begins(c, k, <<"send">>) \/ (Begins(c, k, <<"release">>) /\ call' = call)
    BY <2>0, <1>0, <2>3, <2>4 DEF AccountTypes
  <2>6. /\ caller' \in [Callers -> [key : BudgetKeys \cup {"none"}, todo : Early \cup Late]]
        /\ caller'[c].key = k
        /\ caller'[c].todo = <<"send">> \/ (caller'[c].todo = <<"release">> /\ call' = call)
        /\ \A b \in Callers \ {c} : caller'[b] = caller[b]
    BY <2>0, <1>0, <2>2, <2>5, Begun DEF Early
  <2>7. AccountTypes' /\ AccountCounts'
    BY <2>0, <1>0, <2>1, <2>5, <2>6, SameCounts DEF AccountTypes
  <2>8. KeySound(k)'
    BY <2>0, <2>1, <2>2, <2>3 DEF KeySound
  <2>9. CallerSound(c)' /\ account'.entry[k] \in Live
    BY <2>0, <2>1, <2>2, <2>3, <2>6 DEF CallerSound
  <2> QED BY <2>0, <2>1, <2>2, <2>5, <2>6, <2>7, <2>8, <2>9, OneTurn
<1>5. ASSUME NEW c \in Callers, Release(c) PROVE BudgetInv'
  <2>0. PICK k : k = caller[c].key
    OBVIOUS
  <2>1. /\ caller[c].todo = <<"release">> /\ caller[c].todo # <<>>
        /\ account' = Released(account, k) /\ caller' = [caller EXCEPT ![c] = NoCall]
        /\ UNCHANGED <<limited, usage, call, boot, sent>>
    BY <2>0, <1>5 DEF Release
  <2>2. /\ k \in BudgetKeys
        /\ \A b \in Callers \ {c} : caller[b].todo # <<>> /\ caller[b].key = k => k \notin Once
    BY <2>0, <2>1, Shared
  <2>3. k \in ModelKeys /\ call[k] = "none" /\ account.entry[k] = "reserved" /\ sent[k] = 0 /\ k \in Once
    BY <2>0, <1>0, <2>1, <2>2 DEF CallerSound, Once
  <2>4. /\ account' \in Accounts /\ AccountCounts' /\ account'.entry[k] = "released"
        /\ \A q \in BudgetKeys \ {k} : account'.entry[q] = account.entry[q]
        /\ usage[k] = "none"
    BY <2>0, <2>1, <2>2, <2>3, Releases
  <2>5. /\ caller' \in [Callers -> [key : BudgetKeys \cup {"none"}, todo : Early \cup Late]]
        /\ caller'[c].todo = <<>>
        /\ \A b \in Callers \ {c} : caller'[b] = caller[b]
    BY <2>0, <1>0, <2>1, Done
  <2>6. AccountTypes'
    BY <2>0, <1>0, <2>1, <2>4, <2>5 DEF AccountTypes
  <2>7. OneCaller'
    BY <2>0, <1>0, <2>5 DEF OneCaller
  <2>8. KeySound(k)'
    BY <2>0, <2>1, <2>3, <2>4 DEF KeySound
  <2>9. ASSUME NEW b \in Callers
        PROVE  \/ caller'[b].todo = <<>>
               \/ caller'[b] = caller[b] /\ caller[b].key # k
               \/ CallerSound(b)'
    BY <2>0, <2>2, <2>3, <2>5, <2>9
  <2> QED BY <2>0, <2>1, <2>2, <2>4, <2>6, <2>7, <2>8, <2>9, OneKey
<1>6. ASSUME NEW c \in Callers, NEW outcome \in {"answer", "rejected", "unknown", "error"},
             NEW u \in Outcomes, Send(c, outcome, u)
      PROVE  BudgetInv'
  <2>0. PICK k : k = caller[c].key
    OBVIOUS
  <2> DEFINE next == IF k \in OwnerKeys /\ u = "missing" /\ limited /\ outcome # "unknown"
                     THEN <<"mark">> ELSE <<u>> \o Accounting(k, outcome)
  <2>1. /\ caller[c].todo = <<"send">> /\ caller[c].todo # <<>>
        /\ sent' = [sent EXCEPT ![k] = @ + 1] /\ Begins(c, k, next)
        /\ UNCHANGED <<limited, account, usage, call, boot>>
    BY <2>0, <1>6 DEF Send
  <2>2. /\ k \in BudgetKeys /\ account.entry[k] \in Live
        /\ \A b \in Callers \ {c} : caller[b].todo # <<>> /\ caller[b].key = k => k \notin Once
    BY <2>0, <2>1, Shared
  <2>3. (k \in Once => sent[k] = 0) /\ KeySound(k)
    BY <2>0, <1>0, <2>1, <2>2 DEF CallerSound
  <2>4. next \in Late
    <3>1. \/ \E x \in {"settle", "mark", "failed"} : Accounting(k, outcome) = <<x>>
          \/ Accounting(k, outcome) = <<"settle", "completed">>
          \/ Accounting(k, outcome) = <<"failed", "settle">>
          \/ Accounting(k, outcome) = <<"unknown", "mark">>
      <4>1. CASE k \in ModelKeys
        BY <2>0, <1>6, <4>1 DEF Accounting
      <4>2. CASE k \in ConnectorKeys
        BY <2>0, <1>6, <4>2, BudgetAssumption DEF Accounting
      <4>3. CASE k \in OwnerKeys
        BY <2>0, <1>6, <4>3, BudgetAssumption DEF Accounting
      <4> QED BY <2>2, <4>1, <4>2, <4>3 DEF BudgetKeys
    <3>2. <<u>> \o Accounting(k, outcome) \in Late
      <4>1. CASE \E x \in {"settle", "mark", "failed"} : Accounting(k, outcome) = <<x>>
        <5>1. PICK x \in {"settle", "mark", "failed"} : Accounting(k, outcome) = <<x>>
          BY <2>0, <4>1
        <5>2. <<u>> \o Accounting(k, outcome) = <<u, x>>
          BY <2>0, <5>1, Prefixed
        <5> QED BY <5>2 DEF Late
      <4>2. CASE Accounting(k, outcome) = <<"settle", "completed">>
        <5>1. <<u>> \o Accounting(k, outcome) = <<u, "settle", "completed">>
          BY <2>0, <4>2, Prefixed
        <5> QED BY <5>1 DEF Late
      <4>3. CASE Accounting(k, outcome) = <<"failed", "settle">>
        <5>1. <<u>> \o Accounting(k, outcome) = <<u, "failed", "settle">>
          BY <2>0, <4>3, Prefixed
        <5> QED BY <5>1 DEF Late
      <4>4. CASE Accounting(k, outcome) = <<"unknown", "mark">>
        <5>1. <<u>> \o Accounting(k, outcome) = <<u, "unknown", "mark">>
          BY <2>0, <4>4, Prefixed
        <5> QED BY <5>1 DEF Late
      <4> QED BY <3>1, <4>1, <4>2, <4>3, <4>4
    <3> QED BY <3>2 DEF Late
  <2> HIDE DEF next
  <2>5. /\ caller' \in [Callers -> [key : BudgetKeys \cup {"none"}, todo : Early \cup Late]]
        /\ caller'[c].key = k /\ caller'[c].todo \in Late
        /\ \A b \in Callers \ {c} : caller'[b] = caller[b]
    BY <2>0, <1>0, <2>1, <2>2, <2>4, Begun
  <2>6. /\ sent' \in [BudgetKeys -> Nat] /\ sent'[k] = sent[k] + 1
        /\ \A q \in BudgetKeys \ {k} : sent'[q] = sent[q]
    BY <2>0, <1>0, <2>1, <2>2 DEF AccountTypes
  <2>7. AccountTypes' /\ AccountCounts'
    BY <2>0, <1>0, <2>1, <2>5, <2>6, SameCounts DEF AccountTypes
  <2>8. KeySound(k)'
    BY <2>0, <2>1, <2>2, <2>3, <2>6 DEF KeySound
  <2>9. CallerSound(c)' /\ account'.entry[k] \in Live
    <3>1. /\ caller'[c].todo # <<"fence">> /\ caller'[c].todo # <<"release">>
          /\ caller'[c].todo # <<"send">>
      BY <2>0, <2>5, LateIsNotEarly
    <3> QED BY <2>1, <2>2, <2>5, <3>1 DEF CallerSound
  <2> QED BY <2>0, <2>1, <2>2, <2>5, <2>6, <2>7, <2>8, <2>9, OneTurn
<1>7. ASSUME NEW c \in Callers, SettleInAccount(c) PROVE BudgetInv'
  <2>0. PICK k : k = caller[c].key
    OBVIOUS
  <2> DEFINE t == caller[c].todo
             u == Head(t)
  <2>1. /\ t \in Early \cup Late /\ Len(t) > 1 /\ t[2] = "settle"
        /\ UNCHANGED <<limited, call, boot, sent>>
    BY <2>0, <1>0, <1>7 DEF SettleInAccount, NextStep, AccountTypes
  <2>2. PICK steps \in Late : Goes(c, steps)
    <3>1. /\ <<>> \in Late
          /\ Rest(c) # <<>> => <<Reports(c)>> \o Rest(c) \in Late
          /\ <<Reports(c), "failed">> \in Late
      <4>1. <<>> \in Late
        BY DEF Late
      <4> QED BY <2>1, <4>1, LateSteps DEF Rest, Reports
    <3> QED BY <1>7, <3>1 DEF SettleInAccount
  <2>3. u \in Outcomes /\ caller[c].todo # <<>>
    BY <2>0, <2>1, LateSteps
  <2>4. /\ account' = IF Settleable(account, k) THEN Settled(account, k, u) ELSE account
        /\ usage' = IF Settleable(account, k) THEN [usage EXCEPT ![k] = u] ELSE usage
    BY <2>0, <1>7 DEF SettleInAccount, Reports
  <2>5. /\ k \in BudgetKeys /\ account.entry[k] \in Live
        /\ \A b \in Callers \ {c} : caller[b].todo # <<>> /\ caller[b].key = k => k \notin Once
    BY <2>0, <2>3, Shared
  <2>6. KeySound(k)
    BY <2>0, <1>0, <2>5
  <2>7. /\ caller' \in [Callers -> [key : BudgetKeys \cup {"none"}, todo : Early \cup Late]]
        /\ caller'[c].todo \in Late /\ (caller'[c].todo # <<>> => caller'[c].key = k)
        /\ \A b \in Callers \ {c} : caller'[b] = caller[b]
    BY <2>0, <1>0, <2>2, Gone
  <2> HIDE DEF t, u
  <2>8. /\ account' \in Accounts /\ AccountCounts' /\ usage' \in [BudgetKeys -> Usages]
        /\ account'.entry[k] \in Live
        /\ usage'[k] # "none" => account'.entry[k] \in {"settled", "rejected"}
        /\ \A q \in BudgetKeys \ {k} : account'.entry[q] = account.entry[q] /\ usage'[q] = usage[q]
    <3>1. CASE Settleable(account, k)
      BY <2>0, <2>1, <2>3, <2>4, <2>5, <3>1, Settles DEF Live
    <3>2. CASE ~Settleable(account, k)
      BY <2>0, <1>0, <2>1, <2>4, <2>5, <2>6, <3>2, SameCounts DEF AccountTypes, KeySound
    <3> QED BY <3>1, <3>2
  <2>9. AccountTypes'
    BY <2>0, <1>0, <2>1, <2>7, <2>8 DEF AccountTypes
  <2>10. KeySound(k)'
    BY <2>0, <2>1, <2>5, <2>6, <2>8 DEF KeySound
  <2>11. CallerSound(c)'
    <3>1. /\ caller'[c].todo # <<"fence">> /\ caller'[c].todo # <<"release">>
          /\ caller'[c].todo # <<"send">>
      BY <2>0, <2>7, LateIsNotEarly
    <3> QED BY <2>5, <2>7, <2>8, <3>1 DEF CallerSound
  <2> QED BY <2>0, <2>1, <2>5, <2>7, <2>8, <2>9, <2>10, <2>11, OneTurn
<1>8. ASSUME NEW c \in Callers, NEW state \in {"completed", "failed", "unknown"}, RecordCall(c, state)
      PROVE  BudgetInv'
  <2>0. PICK k : k = caller[c].key
    OBVIOUS
  <2> DEFINE t == caller[c].todo
  <2>1. /\ t \in Early \cup Late /\ Len(t) > 1
        /\ call' = [call EXCEPT ![k] = state]
        /\ UNCHANGED <<limited, account, usage, boot, sent>>
    BY <2>0, <1>0, <1>8 DEF RecordCall, NextStep, AccountTypes
  <2>2. PICK steps \in Late : Goes(c, steps)
    <3>1. <<>> \in Late /\ (Rest(c) # <<>> => <<Reports(c)>> \o Rest(c) \in Late)
      <4>1. <<>> \in Late
        BY DEF Late
      <4> QED BY <2>1, <4>1, LateSteps DEF Rest, Reports
    <3> QED BY <1>8, <3>1 DEF RecordCall
  <2>3. caller[c].todo # <<>>
    BY <2>0, <2>1, LateSteps
  <2>4. /\ k \in BudgetKeys /\ account.entry[k] \in Live
        /\ \A b \in Callers \ {c} : caller[b].todo # <<>> /\ caller[b].key = k => k \notin Once
    BY <2>0, <2>3, Shared
  <2>5. /\ caller' \in [Callers -> [key : BudgetKeys \cup {"none"}, todo : Early \cup Late]]
        /\ caller'[c].todo \in Late /\ (caller'[c].todo # <<>> => caller'[c].key = k)
        /\ \A b \in Callers \ {c} : caller'[b] = caller[b]
    BY <2>0, <1>0, <2>2, Gone
  <2> HIDE DEF t
  <2>6. /\ call' \in [ModelKeys -> {"none", "started", "unknown", "failed", "completed"}]
        /\ \A q \in ModelKeys \ {k} : call'[q] = call[q]
    BY <2>0, <1>0, <2>1 DEF AccountTypes
  <2>7. AccountTypes' /\ AccountCounts'
    BY <2>0, <1>0, <2>1, <2>5, <2>6, SameCounts DEF AccountTypes
  <2>8. KeySound(k)'
    BY <2>0, <1>0, <2>1, <2>4 DEF KeySound
  <2>9. CallerSound(c)' /\ account'.entry[k] \in Live
    <3>1. /\ caller'[c].todo # <<"fence">> /\ caller'[c].todo # <<"release">>
          /\ caller'[c].todo # <<"send">>
      BY <2>0, <2>5, LateIsNotEarly
    <3> QED BY <2>1, <2>4, <2>5, <3>1 DEF CallerSound
  <2> QED BY <2>0, <2>1, <2>4, <2>5, <2>6, <2>7, <2>8, <2>9, OneTurn
<1>9. ASSUME NEW c \in Callers, MarkUnknown(c) PROVE BudgetInv'
  <2>0. PICK k : k = caller[c].key
    OBVIOUS
  <2>1. /\ caller[c].todo # <<>> /\ account' = Marked(account, k)
        /\ caller' = [caller EXCEPT ![c] = NoCall]
        /\ UNCHANGED <<limited, usage, call, boot, sent>>
    BY <2>0, <1>9 DEF MarkUnknown
  <2>2. /\ k \in BudgetKeys /\ account.entry[k] \in Live
        /\ \A b \in Callers \ {c} : caller[b].todo # <<>> /\ caller[b].key = k => k \notin Once
    BY <2>0, <2>1, Shared
  <2>3. KeySound(k)
    BY <2>0, <1>0, <2>2
  <2>4. /\ account' \in Accounts /\ AccountCounts' /\ account'.entry[k] \in Live
        /\ account.entry[k] # "reserved" => account' = account
        /\ \A q \in BudgetKeys \ {k} : account'.entry[q] = account.entry[q]
    BY <2>0, <2>1, <2>2, Marks
  <2>5. /\ caller' \in [Callers -> [key : BudgetKeys \cup {"none"}, todo : Early \cup Late]]
        /\ caller'[c].todo = <<>>
        /\ \A b \in Callers \ {c} : caller'[b] = caller[b]
    BY <2>0, <1>0, <2>1, Done
  <2>6. AccountTypes'
    BY <2>0, <1>0, <2>1, <2>4, <2>5 DEF AccountTypes
  <2>7. KeySound(k)'
    BY <2>0, <2>1, <2>2, <2>3, <2>4 DEF KeySound
  <2>8. CallerSound(c)'
    BY <2>0, <2>5 DEF CallerSound
  <2> QED BY <2>0, <2>1, <2>2, <2>4, <2>5, <2>6, <2>7, <2>8, OneTurn
<1>10. CASE BudgetCrash
  <2>1. /\ UNCHANGED <<limited, account, usage, call, sent>> /\ boot' = "ensure"
        /\ caller' = [c \in Callers |-> NoCall]
    BY <1>10 DEF BudgetCrash
  <2>2. AccountTypes' /\ AccountCounts'
    BY <1>0, <2>1, SameCounts DEF AccountTypes, NoCall, Late
  <2>3. OneCaller' /\ \A c \in Callers : CallerSound(c)'
    BY <2>1 DEF OneCaller, CallerSound, NoCall
  <2>4. ASSUME NEW k \in BudgetKeys PROVE KeySound(k)'
    BY <1>0, <2>1, <2>4 DEF KeySound
  <2> QED BY <2>2, <2>3, <2>4 DEF BudgetInv
<1>11. CASE EnsureInAccount
  <2>1. \A k \in ModelKeys : ~(call[k] = "started" /\ account.entry[k] = "none")
    BY <1>0 DEF KeySound, BudgetKeys, Live
  <2>2. /\ UNCHANGED <<limited, usage, call, caller, sent>> /\ boot' = "record"
        /\ account' = [account EXCEPT
              !.usedCalls = @ + Cardinality({}),
              !.unreported = IF limited THEN @ + Cardinality({}) ELSE @,
              !.entry = [k \in BudgetKeys |-> IF k \in {} THEN "unknown" ELSE @[k]]]
    <3>1. {k \in ModelKeys : call[k] = "started" /\ account.entry[k] = "none"} = {}
      BY <2>1
    <3> QED BY <1>11, <3>1 DEF EnsureInAccount
  <2>3. account' = account
    <3>1. Cardinality({}) = 0
      BY FS_EmptySet
    <3>2. [k \in BudgetKeys |-> IF k \in {} THEN "unknown" ELSE account.entry[k]] = account.entry
      BY <1>0 DEF AccountTypes, Accounts
    <3>3. /\ account.usedCalls + Cardinality({}) = account.usedCalls
          /\ (IF limited THEN account.unreported + Cardinality({}) ELSE account.unreported) = account.unreported
      BY <1>0, <3>1 DEF AccountTypes, Accounts
    <3>4. account' = [account EXCEPT !.usedCalls = account.usedCalls, !.unreported = account.unreported,
                                     !.entry = account.entry]
      BY <2>2, <3>2, <3>3
    <3> QED BY <1>0, <3>4 DEF AccountTypes, Accounts
  <2>4. AccountTypes' /\ AccountCounts'
    BY <1>0, <2>2, <2>3, SameCounts DEF AccountTypes
  <2>5. OneCaller' /\ (\A c \in Callers : CallerSound(c)') /\ \A k \in BudgetKeys : KeySound(k)'
    BY <1>0, <2>2, <2>3 DEF OneCaller, CallerSound, KeySound
  <2> QED BY <2>4, <2>5 DEF BudgetInv
<1>12. CASE RecordInterrupted
  <2>1. /\ UNCHANGED <<limited, account, usage, caller, sent>> /\ boot' = "mark"
        /\ call' = [k \in ModelKeys |-> IF call[k] = "started" THEN "unknown" ELSE call[k]]
    BY <1>12 DEF RecordInterrupted
  <2>2. /\ call' \in [ModelKeys -> {"none", "started", "unknown", "failed", "completed"}]
        /\ \A k \in ModelKeys : call'[k] = "none" <=> call[k] = "none"
    BY <1>0, <2>1 DEF AccountTypes
  <2>3. AccountTypes' /\ AccountCounts'
    BY <1>0, <2>1, <2>2, SameCounts DEF AccountTypes
  <2>4. OneCaller'
    BY <1>0, <2>1 DEF OneCaller
  <2>5. ASSUME NEW c \in Callers PROVE CallerSound(c)'
    BY <1>0, <2>1, <2>2, <2>5 DEF CallerSound
  <2>6. ASSUME NEW k \in BudgetKeys PROVE KeySound(k)'
    BY <1>0, <2>1, <2>2, <2>6 DEF KeySound
  <2> QED BY <2>3, <2>4, <2>5, <2>6 DEF BudgetInv
<1>13. CASE MarkInterrupted
  <2>1. CASE account' = account
    <3>1. UNCHANGED <<limited, account, usage, call, caller, sent>> /\ boot' \in {"up", "mark"}
      BY <1>13, <2>1 DEF MarkInterrupted
    <3>2. AccountTypes' /\ AccountCounts'
      BY <1>0, <3>1, SameCounts DEF AccountTypes
    <3>3. OneCaller' /\ (\A c \in Callers : CallerSound(c)') /\ \A k \in BudgetKeys : KeySound(k)'
      BY <1>0, <3>1 DEF OneCaller, CallerSound, KeySound
    <3> QED BY <3>2, <3>3 DEF BudgetInv
  <2>2. CASE account' # account
    <3>1. PICK k \in ModelKeys : call[k] = "unknown" /\ account' = Marked(account, k)
      BY <1>13, <2>2 DEF MarkInterrupted
    <3>2. UNCHANGED <<limited, usage, call, caller, boot, sent>> /\ k \in BudgetKeys
      BY <1>13, <2>2 DEF MarkInterrupted, BudgetKeys
    <3>3. KeySound(k) /\ account.entry[k] \in Live
      BY <1>0, <3>1, <3>2 DEF KeySound
    <3>4. /\ account' \in Accounts /\ AccountCounts' /\ account'.entry[k] \in Live
          /\ account.entry[k] = "reserved"
          /\ \A q \in BudgetKeys \ {k} : account'.entry[q] = account.entry[q]
      BY <2>2, <3>1, <3>2, <3>3, Marks
    <3>5. AccountTypes'
      BY <1>0, <3>2, <3>4 DEF AccountTypes
    <3>6. OneCaller'
      BY <1>0, <3>2 DEF OneCaller
    <3>7. KeySound(k)'
      BY <3>2, <3>3, <3>4 DEF KeySound
    <3>8. ASSUME NEW b \in Callers, caller[b].key = k PROVE CallerSound(b)'
      <4>1. CallerSound(b)
        BY <1>0
      <4> QED BY <3>1, <3>2, <3>4, <3>8, <4>1 DEF CallerSound
    <3>9. ASSUME NEW b \in Callers
          PROVE  \/ caller'[b].todo = <<>>
                 \/ caller'[b] = caller[b] /\ caller[b].key # k
                 \/ CallerSound(b)'
      BY <3>2, <3>8, <3>9
    <3> QED BY <3>2, <3>4, <3>5, <3>6, <3>7, <3>9, OneKey
  <2> QED BY <2>1, <2>2
<1>14. ASSUME NEW k \in ModelKeys, ReconcileLedger(k) PROVE BudgetInv'
  <2>1. PICK u \in Outcomes : account' = Settled(account, k, u) /\ usage' = [usage EXCEPT ![k] = u]
    BY <1>14 DEF ReconcileLedger, Outcomes
  <2>2. /\ call[k] = "unknown" /\ account.entry[k] = "unknown" /\ k \in BudgetKeys
        /\ UNCHANGED <<limited, call, caller, boot, sent>> /\ Settleable(account, k)
    BY <1>14 DEF ReconcileLedger, Settleable, BudgetKeys
  <2>3. KeySound(k)
    BY <1>0, <2>2
  <2>4. /\ account' \in Accounts /\ AccountCounts' /\ usage' \in [BudgetKeys -> Usages]
        /\ account'.entry[k] \in {"settled", "rejected"}
        /\ \A q \in BudgetKeys \ {k} : account'.entry[q] = account.entry[q] /\ usage'[q] = usage[q]
    BY <2>1, <2>2, Settles
  <2>5. AccountTypes'
    BY <1>0, <2>2, <2>4 DEF AccountTypes
  <2>6. OneCaller'
    BY <1>0, <2>2 DEF OneCaller
  <2>7. KeySound(k)'
    BY <2>2, <2>3, <2>4 DEF KeySound, Live
  <2>8. ASSUME NEW b \in Callers, caller[b].key = k PROVE CallerSound(b)'
    <3>1. CallerSound(b) /\ account'.entry[k] \in Live
      BY <1>0, <2>4 DEF Live
    <3> QED BY <2>2, <2>8, <3>1 DEF CallerSound
  <2>9. ASSUME NEW b \in Callers
        PROVE  \/ caller'[b].todo = <<>>
               \/ caller'[b] = caller[b] /\ caller[b].key # k
               \/ CallerSound(b)'
    BY <2>2, <2>8, <2>9
  <2> QED BY <2>2, <2>4, <2>5, <2>6, <2>7, <2>9, OneKey
<1>15. ASSUME NEW k \in ModelKeys, ReconcileCall(k) PROVE BudgetInv'
  <2>1. /\ call[k] = "unknown" /\ account.entry[k] = "settled" /\ k \in BudgetKeys
        /\ UNCHANGED <<limited, account, usage, caller, boot, sent>>
    BY <1>15 DEF ReconcileCall, BudgetKeys
  <2>2. /\ call' \in [ModelKeys -> {"none", "started", "unknown", "failed", "completed"}]
        /\ call'[k] # "none" /\ \A q \in ModelKeys \ {k} : call'[q] = call[q]
    BY <1>0, <1>15 DEF ReconcileCall, AccountTypes
  <2>3. AccountTypes' /\ AccountCounts'
    BY <1>0, <2>1, <2>2, SameCounts DEF AccountTypes
  <2>4. OneCaller'
    BY <1>0, <2>1 DEF OneCaller
  <2>5. KeySound(k)'
    BY <1>0, <2>1 DEF KeySound, Live
  <2>6. ASSUME NEW b \in Callers, caller[b].key = k PROVE CallerSound(b)'
    <3>1. CallerSound(b)
      BY <1>0
    <3> QED BY <2>1, <2>6, <3>1 DEF CallerSound
  <2>7. ASSUME NEW b \in Callers
        PROVE  \/ caller'[b].todo = <<>>
               \/ caller'[b] = caller[b] /\ caller[b].key # k
               \/ CallerSound(b)'
    BY <2>1, <2>6, <2>7
  <2> QED BY <2>1, <2>2, <2>3, <2>4, <2>5, <2>7, OneKey
<1>16. CASE UNCHANGED budgetVars
  <2>1. UNCHANGED <<limited, account, usage, call, caller, boot, sent>>
    BY <1>16 DEF budgetVars
  <2>2. AccountTypes' /\ AccountCounts'
    BY <1>0, <2>1, SameCounts DEF AccountTypes
  <2>3. OneCaller' /\ (\A c \in Callers : CallerSound(c)') /\ \A k \in BudgetKeys : KeySound(k)'
    BY <1>0, <2>1 DEF OneCaller, CallerSound, KeySound
  <2> QED BY <2>2, <2>3 DEF BudgetInv
<1> QED BY <1>1, <1>2, <1>3, <1>4, <1>5, <1>6, <1>7, <1>8, <1>9, <1>10, <1>11, <1>12, <1>13, <1>14,
           <1>15, <1>16 DEF BudgetNext, Outcomes

LEMMA BudgetInvariant == BudgetSpec => []BudgetInv
<1> QED BY BudgetStart, BudgetStep, PTL DEF BudgetSpec

\* The account counts the calls that hold a reservation and those whose usage is missing, and a
\* model call or a lookup is sent once, under its own reservation, for any number of keys,
\* callers and restarts.
THEOREM AccountTrue == BudgetSpec => []SentUnderReservation
<1>1. BudgetInv => SentUnderReservation
  <2> SUFFICES ASSUME BudgetInv PROVE SentUnderReservation
    OBVIOUS
  <2>1. AccountCounts /\ \A k \in BudgetKeys : KeySound(k)
    BY DEF BudgetInv
  <2>2. \A k \in BudgetKeys : sent[k] > 0 => account.entry[k] \in Live
    BY <2>1 DEF KeySound
  <2>3. \A k \in ModelKeys \cup ConnectorKeys : sent[k] <= 1
    BY <2>1 DEF KeySound, Once, BudgetKeys
  <2> QED BY <2>1, <2>2, <2>3 DEF AccountCounts, Reservations, Unaccounted, SentUnderReservation
<1> QED BY <1>1, BudgetInvariant, PTL

-----------------------------------------------------------------------------
(* The starts of a routine *)

Attending == {"claim", "start", "mark", "last"}
WorkerSteps == {"idle", "due", "add", "todo", "insert", "refuse"} \cup Attending
Rows == [state : {"absent", "pending", "started", "failed"}, missed : Nat, attempts : Nat, leased : BOOLEAN]
SomeDelivery == DeliveryIds \cup {NoDelivery}
Places == [at : WorkerSteps, pass : {"none", "schedule", "sweep"}, id : SomeDelivery, missed : Nat,
           attempts : Nat, seen : SomeDelivery, clear : BOOLEAN, todo : SUBSET DeliveryIds]
ScheduledIds == {Scheduled(t) : t \in 1..Horizon}

RoutineTypes ==
    /\ trigger \in {"schedule", "webhook"}
    /\ now \in 0..Horizon /\ givenUp \in Nat
    /\ routine \in [status : {"active", "paused"}, nextDueAt : Nat, pendingDueAt : Nat, pendingMissed : Nat,
                    lastRun : SomeDelivery]
    /\ rows \in [DeliveryIds -> Rows]
    /\ worker \in [Workers -> Places]

\* The calendar is counted up to now, and what waits is a start it has come to.
ScheduleOnCourse ==
    /\ 1 <= routine.nextDueAt /\ routine.nextDueAt <= now + 1
    /\ routine.pendingDueAt < routine.nextDueAt
    /\ routine.pendingDueAt = 0 => routine.pendingMissed = 0

Adds(w, t) == worker[w].at = "add" /\ worker[w].id = Scheduled(t)

\* A start the schedule has come to is waiting, in the hands of one pass, or stored: never two of them.
EachStartOnce ==
    \A t \in 1..Horizon :
        /\ rows[Scheduled(t)].state # "absent" =>
               t < routine.nextDueAt /\ routine.pendingDueAt # t /\ \A w \in Workers : ~Adds(w, t)
        /\ \A w \in Workers : Adds(w, t) =>
               t < routine.nextDueAt /\ routine.pendingDueAt # t /\ \A v \in Workers : Adds(v, t) => v = w

\* What a worker attends to: a stored delivery, or one of the requests' own.
WorkersOnCourse ==
    \A w \in Workers :
        /\ worker[w].at = "add" => worker[w].id \in ScheduledIds
        /\ worker[w].at \in Attending => worker[w].id \in DeliveryIds
        /\ worker[w].at \in {"start", "mark", "last"} => rows[worker[w].id].state # "absent"
        /\ worker[w].at \in {"insert", "refuse"} => worker[w].id \in DeliveryIds \ ScheduledIds

\* What each stored scheduled delivery, and each worker, accounts for.
Stored(rs) == [d \in ScheduledIds |-> IF rs[d].state = "absent" THEN 0 ELSE 1 + rs[d].missed]
Held(ws) == [w \in Workers |-> IF ws[w].at = "add" THEN 1 + ws[w].missed ELSE 0]

Accounted ==
    routine.nextDueAt - 1 = SumOf(Stored(rows), ScheduledIds) + SumOf(Held(worker), Workers) + Waiting + givenUp

RoutineInv == RoutineTypes /\ ScheduleOnCourse /\ EachStartOnce /\ WorkersOnCourse /\ Accounted

LEMMA ScheduledIdsFinite == IsFiniteSet(ScheduledIds) /\ ScheduledIds \subseteq DeliveryIds
<1>1. IsFiniteSet(1..Horizon)
  <2>1. 1 \in Int /\ Horizon \in Int
    BY RoutineAssumption
  <2> QED BY <2>1, FS_Interval
<1>2. IsFiniteSet({Scheduled(t) : t \in 1..Horizon})
  <2> DEFINE F == [t \in 1..Horizon |-> Scheduled(t)]
  <2>1. F \in Surjection(1..Horizon, ScheduledIds)
    BY DEF Surjection, ScheduledIds
  <2> HIDE DEF F
  <2>2. IsFiniteSet(ScheduledIds)
    BY <1>1, <2>1, FS_Surjection
  <2> QED BY <2>2 DEF ScheduledIds
<1> QED BY <1>2 DEF ScheduledIds, DeliveryIds

\* The code's two sums, as sums.
LEMMA StoredAddUp ==
    ASSUME NEW rs \in [DeliveryIds -> Rows]
    PROVE  FoldSet(LAMBDA d, n : n + (IF rs[d].state = "absent" THEN 0 ELSE 1 + rs[d].missed), 0, ScheduledIds)
               = SumOf(Stored(rs), ScheduledIds)
<1> DEFINE one(s) == CHOOSE x \in s : TRUE
           f == Stored(rs)
           c == [s \in SUBSET ScheduledIds |-> SumOf(f, s)]
           E(g) == g = [s \in SUBSET ScheduledIds |->
                           IF s = {} THEN 0
                           ELSE g[s \ {one(s)}]
                                    + (IF rs[one(s)].state = "absent" THEN 0 ELSE 1 + rs[one(s)].missed)]
<1>1. IsFiniteSet(ScheduledIds) /\ \A d \in ScheduledIds : rs[d] \in Rows
  BY ScheduledIdsFinite
<1>2. \A d \in ScheduledIds : f[d] \in Nat /\ f[d] = IF rs[d].state = "absent" THEN 0 ELSE 1 + rs[d].missed
  BY <1>1 DEF Stored, Rows
<1> HIDE DEF f
<1>3. ASSUME NEW s \in SUBSET ScheduledIds
      PROVE  c[s] = IF s = {} THEN 0
                    ELSE c[s \ {one(s)}] + (IF rs[one(s)].state = "absent" THEN 0 ELSE 1 + rs[one(s)].missed)
  <2>1. CASE s = {}
    <3>1. SumOf(f, s) = 0
      BY <2>1, NoSum
    <3> QED BY <2>1, <3>1
  <2>2. CASE s # {}
    <3>1. one(s) \in s /\ s \ {one(s)} \in SUBSET ScheduledIds
      BY <2>2
    <3> HIDE DEF one
    <3>2. f[one(s)] \in Nat /\ IsFiniteSet(Tokens(f, s \ {one(s)}))
      BY <1>1, <1>2, <3>1, TokensFinite
    <3>3. SumOf(f, s) = f[one(s)] + SumOf(f, s \ {one(s)}) /\ SumOf(f, s \ {one(s)}) \in Nat
      BY <3>1, <3>2, OneMore
    <3>4. f[one(s)] = IF rs[one(s)].state = "absent" THEN 0 ELSE 1 + rs[one(s)].missed
      BY <1>2, <3>1
    <3>5. SumOf(f, s) = SumOf(f, s \ {one(s)})
                            + (IF rs[one(s)].state = "absent" THEN 0 ELSE 1 + rs[one(s)].missed)
      BY <3>2, <3>3, <3>4
    <3> QED BY <2>2, <3>1, <3>5
  <2> QED BY <2>1, <2>2
<1>4. E(c)
  <2> HIDE DEF one
  <2>1. \A s \in SUBSET ScheduledIds :
            c[s] = IF s = {} THEN 0
                   ELSE c[s \ {one(s)}] + (IF rs[one(s)].state = "absent" THEN 0 ELSE 1 + rs[one(s)].missed)
    BY <1>3
  <2> QED BY <2>1
<1>5. \E g : E(g) /\ FoldSet(LAMBDA d, n : n + (IF rs[d].state = "absent" THEN 0 ELSE 1 + rs[d].missed),
                              0, ScheduledIds) = g[ScheduledIds]
  BY <1>4 DEF FoldSet, MapThenFoldSet
<1>6. PICK g : E(g) /\ FoldSet(LAMBDA d, n : n + (IF rs[d].state = "absent" THEN 0 ELSE 1 + rs[d].missed),
                                0, ScheduledIds) = g[ScheduledIds]
  BY <1>5
<1>7. ASSUME NEW s \in SUBSET ScheduledIds
      PROVE  IF s = {} THEN g[s] = 0
             ELSE \E x \in s : g[s] = f[x] + g[s \ {x}] \/ g[s] = g[s \ {x}] + f[x]
  <2>1. s # {} => one(s) \in s
    OBVIOUS
  <2> HIDE DEF one
  <2>2. g[s] = IF s = {} THEN 0
               ELSE g[s \ {one(s)}] + (IF rs[one(s)].state = "absent" THEN 0 ELSE 1 + rs[one(s)].missed)
    BY <1>6
  <2>3. s # {} => f[one(s)] = IF rs[one(s)].state = "absent" THEN 0 ELSE 1 + rs[one(s)].missed
    BY <1>2, <2>1
  <2> QED BY <2>1, <2>2, <2>3
<1>8. g[ScheduledIds] = SumOf(f, ScheduledIds)
  <2>1. \A x \in ScheduledIds : f[x] \in Nat
    BY <1>2
  <2>2. \A s \in SUBSET ScheduledIds : IF s = {} THEN g[s] = 0
                            ELSE \E x \in s : g[s] = f[x] + g[s \ {x}] \/ g[s] = g[s \ {x}] + f[x]
    BY <1>7
  <2>3. \A s \in SUBSET ScheduledIds : g[s] = SumOf(f, s) /\ g[s] \in Nat
    BY <1>1, <2>1, <2>2, FoldIsSum
  <2> QED BY <2>3
<1> QED BY <1>6, <1>8 DEF f

LEMMA HeldAddUp ==
    ASSUME NEW ws \in [Workers -> Places]
    PROVE  FoldSet(LAMBDA w, n : n + (IF ws[w].at = "add" THEN 1 + ws[w].missed ELSE 0), 0, Workers)
               = SumOf(Held(ws), Workers)
<1> DEFINE one(s) == CHOOSE x \in s : TRUE
           f == Held(ws)
           c == [s \in SUBSET Workers |-> SumOf(f, s)]
           E(g) == g = [s \in SUBSET Workers |->
                           IF s = {} THEN 0
                           ELSE g[s \ {one(s)}] + (IF ws[one(s)].at = "add" THEN 1 + ws[one(s)].missed ELSE 0)]
<1>1. IsFiniteSet(Workers) /\ \A w \in Workers : ws[w] \in Places
  BY RoutineAssumption
<1>2. \A w \in Workers : f[w] \in Nat /\ f[w] = IF ws[w].at = "add" THEN 1 + ws[w].missed ELSE 0
  BY <1>1 DEF Held, Places
<1> HIDE DEF f
<1>3. ASSUME NEW s \in SUBSET Workers
      PROVE  c[s] = IF s = {} THEN 0
                    ELSE c[s \ {one(s)}] + (IF ws[one(s)].at = "add" THEN 1 + ws[one(s)].missed ELSE 0)
  <2>1. CASE s = {}
    <3>1. SumOf(f, s) = 0
      BY <2>1, NoSum
    <3> QED BY <2>1, <3>1
  <2>2. CASE s # {}
    <3>1. one(s) \in s /\ s \ {one(s)} \in SUBSET Workers
      BY <2>2
    <3> HIDE DEF one
    <3>2. f[one(s)] \in Nat
      BY <1>2, <3>1
    <3>3. SumOf(f, s) = f[one(s)] + SumOf(f, s \ {one(s)}) /\ SumOf(f, s \ {one(s)}) \in Nat
      <4>1. PICK x \in s : x = one(s)
        BY <3>1
      <4>2. \A y \in Workers : f[y] \in Nat
        BY <1>2
      <4>3. SumOf(f, s) = f[x] + SumOf(f, s \ {x}) /\ SumOf(f, s \ {x}) \in Nat
        BY <1>1, <4>2, OneOff
      <4> QED BY <4>1, <4>3
    <3>4. f[one(s)] = IF ws[one(s)].at = "add" THEN 1 + ws[one(s)].missed ELSE 0
      BY <1>2, <3>1
    <3>5. SumOf(f, s) = SumOf(f, s \ {one(s)}) + (IF ws[one(s)].at = "add" THEN 1 + ws[one(s)].missed ELSE 0)
      BY <3>2, <3>3, <3>4
    <3> QED BY <2>2, <3>1, <3>5
  <2> QED BY <2>1, <2>2
<1>4. E(c)
  <2> HIDE DEF one
  <2>1. \A s \in SUBSET Workers :
            c[s] = IF s = {} THEN 0
                   ELSE c[s \ {one(s)}] + (IF ws[one(s)].at = "add" THEN 1 + ws[one(s)].missed ELSE 0)
    BY <1>3
  <2> QED BY <2>1
<1>5. \E g : E(g) /\ FoldSet(LAMBDA w, n : n + (IF ws[w].at = "add" THEN 1 + ws[w].missed ELSE 0), 0, Workers)
                         = g[Workers]
  BY <1>4 DEF FoldSet, MapThenFoldSet
<1>6. PICK g : E(g) /\ FoldSet(LAMBDA w, n : n + (IF ws[w].at = "add" THEN 1 + ws[w].missed ELSE 0), 0, Workers)
                           = g[Workers]
  BY <1>5
<1>7. ASSUME NEW s \in SUBSET Workers
      PROVE  IF s = {} THEN g[s] = 0
             ELSE \E x \in s : g[s] = f[x] + g[s \ {x}] \/ g[s] = g[s \ {x}] + f[x]
  <2>1. s # {} => one(s) \in s
    OBVIOUS
  <2> HIDE DEF one
  <2>2. g[s] = IF s = {} THEN 0
               ELSE g[s \ {one(s)}] + (IF ws[one(s)].at = "add" THEN 1 + ws[one(s)].missed ELSE 0)
    BY <1>6
  <2>3. s # {} => f[one(s)] = IF ws[one(s)].at = "add" THEN 1 + ws[one(s)].missed ELSE 0
    BY <1>2, <2>1
  <2> QED BY <2>1, <2>2, <2>3
<1>8. g[Workers] = SumOf(f, Workers)
  <2>1. \A x \in Workers : f[x] \in Nat
    BY <1>2
  <2>2. \A s \in SUBSET Workers : IF s = {} THEN g[s] = 0
                            ELSE \E x \in s : g[s] = f[x] + g[s \ {x}] \/ g[s] = g[s \ {x}] + f[x]
    BY <1>7
  <2>3. \A s \in SUBSET Workers : g[s] = SumOf(f, s) /\ g[s] \in Nat
    BY <1>1, <2>1, <2>2, FoldIsSum
  <2> QED BY <2>3
<1> QED BY <1>6, <1>8 DEF f

LEMMA AccountedIs == RoutineTypes => (StartsAccountedFor <=> Accounted)
<1> SUFFICES ASSUME RoutineTypes PROVE StartsAccountedFor <=> Accounted
  OBVIOUS
<1>1. FoldSet(LAMBDA d, n : n + (IF rows[d].state = "absent" THEN 0 ELSE 1 + rows[d].missed), 0, ScheduledIds)
          = SumOf(Stored(rows), ScheduledIds)
  BY StoredAddUp DEF RoutineTypes
<1>2. FoldSet(LAMBDA w, n : n + (IF worker[w].at = "add" THEN 1 + worker[w].missed ELSE 0), 0, Workers)
          = SumOf(Held(worker), Workers)
  BY HeldAddUp DEF RoutineTypes
<1> QED BY <1>1, <1>2 DEF StartsAccountedFor, Accounted, ScheduledIds, InHand

LEMMA RoutineStart == RoutinesInit => RoutineInv
<1> SUFFICES ASSUME RoutinesInit PROVE RoutineInv
  OBVIOUS
<1> USE RoutineAssumption
<1>1. NotBusy \in Places /\ NoRow \in Rows /\ NotBusy.at = "idle" /\ NoRow.state = "absent"
  BY DEF NotBusy, Places, NoRow, Rows, SomeDelivery, WorkerSteps
<1>2. RoutineTypes
  BY <1>1 DEF RoutinesInit, RoutineTypes, SomeDelivery
<1>3. /\ \A w \in Workers : worker[w] = NotBusy
      /\ \A d \in DeliveryIds : rows[d] = NoRow
  BY DEF RoutinesInit
<1>4. ScheduleOnCourse /\ WorkersOnCourse
  BY <1>1, <1>3 DEF RoutinesInit, ScheduleOnCourse, WorkersOnCourse, Attending
<1>5. EachStartOnce
  BY <1>1, <1>3, ScheduledIdsFinite DEF EachStartOnce, Adds, ScheduledIds
<1>6. SumOf(Stored(rows), ScheduledIds) = 0
  <2>1. \A d \in ScheduledIds : Stored(rows)[d] = 0
    BY <1>1, <1>3, ScheduledIdsFinite DEF Stored
  <2> QED BY <2>1, NoSum
<1>7. SumOf(Held(worker), Workers) = 0
  <2>1. \A w \in Workers : Held(worker)[w] = 0
    BY <1>1, <1>3 DEF Held
  <2> QED BY <2>1, NoSum
<1>8. Waiting = 0 /\ givenUp = 0 /\ routine.nextDueAt = 1
  BY DEF RoutinesInit, Waiting
<1>9. Accounted
  BY <1>6, <1>7, <1>8 DEF Accounted
<1> QED BY <1>2, <1>4, <1>5, <1>9 DEF RoutineInv

\* The sums are numbers.
LEMMA SumsAreNumbers ==
    ASSUME RoutineTypes
    PROVE  SumOf(Stored(rows), ScheduledIds) \in Nat /\ SumOf(Held(worker), Workers) \in Nat /\ Waiting \in Nat
<1>1. Waiting \in Nat
  BY DEF RoutineTypes, Waiting
<1>2. SumOf(Stored(rows), ScheduledIds) \in Nat
  <2>1. \A d \in ScheduledIds : Stored(rows)[d] \in Nat
    BY ScheduledIdsFinite DEF RoutineTypes, Rows, Stored
  <2> QED BY <2>1, ScheduledIdsFinite, SumIsNumber
<1>3. SumOf(Held(worker), Workers) \in Nat
  <2>1. \A w \in Workers : Held(worker)[w] \in Nat
    BY DEF RoutineTypes, Places, Held
  <2> QED BY <2>1, RoutineAssumption, SumIsNumber
<1> QED BY <1>1, <1>2, <1>3

\* A step that leaves the schedule alone, stores no start and takes none in hand.
LEMMA NothingTaken ==
    ASSUME RoutineInv, RoutineTypes', WorkersOnCourse',
           UNCHANGED givenUp, now <= now',
           routine'.nextDueAt = routine.nextDueAt, routine'.pendingDueAt = routine.pendingDueAt,
           routine'.pendingMissed = routine.pendingMissed,
           \A d \in ScheduledIds : /\ rows'[d].state = "absent" <=> rows[d].state = "absent"
                                   /\ rows'[d].missed = rows[d].missed,
           \A w \in Workers : worker[w].at = "add" \/ worker'[w].at = "add" => worker'[w] = worker[w]
    PROVE  RoutineInv'
<1>1. Waiting' = Waiting
  BY DEF Waiting
<1>2. ScheduleOnCourse'
  BY DEF RoutineInv, RoutineTypes, ScheduleOnCourse
<1>3. EachStartOnce'
  <2>1. \A t \in 1..Horizon : Scheduled(t) \in ScheduledIds
    BY DEF ScheduledIds
  <2>2. \A w \in Workers, t \in 1..Horizon : Adds(w, t)' => Adds(w, t)
    BY DEF Adds
  <2> QED BY <2>1, <2>2 DEF RoutineInv, EachStartOnce
<1>4. SumOf(Stored(rows'), ScheduledIds) = SumOf(Stored(rows), ScheduledIds)
  <2>1. \A d \in ScheduledIds : Stored(rows')[d] = Stored(rows)[d]
    BY DEF Stored
  <2> QED BY <2>1, SameSum
<1>5. SumOf(Held(worker'), Workers) = SumOf(Held(worker), Workers)
  <2>1. \A w \in Workers : Held(worker')[w] = Held(worker)[w]
    BY DEF Held
  <2> QED BY <2>1, SameSum
<1>6. Accounted'
  BY <1>1, <1>4, <1>5 DEF RoutineInv, Accounted
<1> QED BY <1>2, <1>3, <1>6 DEF RoutineInv

\* The same, when one worker turns to something else and a delivery that is not scheduled,
\* or a scheduled one that is stored, may be written.
LEMMA WorkerTurns ==
    ASSUME RoutineInv, NEW w \in Workers, NEW new \in Places, TurnsTo(w, new),
           worker[w].at # "add", new.at # "add",
           new.at \in Attending => new.id \in DeliveryIds,
           new.at \in {"start", "mark", "last"} => rows'[new.id].state # "absent",
           new.at \in {"insert", "refuse"} => new.id \in DeliveryIds \ ScheduledIds,
           rows' \in [DeliveryIds -> Rows],
           \A d \in DeliveryIds : rows'[d].state = "absent" => rows[d].state = "absent",
           \A d \in ScheduledIds : /\ rows'[d].state = "absent" <=> rows[d].state = "absent"
                                   /\ rows'[d].missed = rows[d].missed,
           UNCHANGED <<trigger, now, givenUp>>,
           \/ UNCHANGED routine
           \/ /\ new.at \in {"idle", "todo"} /\ worker[w].id \in DeliveryIds
              /\ routine' = [routine EXCEPT !.lastRun = worker[w].id]
    PROVE  RoutineInv'
<1>1. RoutineTypes
  BY DEF RoutineInv
<1>2. /\ worker' \in [Workers -> Places] /\ worker'[w] = new
      /\ \A v \in Workers \ {w} : worker'[v] = worker[v]
  BY <1>1 DEF TurnsTo, RoutineTypes
<1>3. /\ routine' \in [status : {"active", "paused"}, nextDueAt : Nat, pendingDueAt : Nat, pendingMissed : Nat,
                      lastRun : SomeDelivery]
      /\ routine'.nextDueAt = routine.nextDueAt /\ routine'.pendingDueAt = routine.pendingDueAt
      /\ routine'.pendingMissed = routine.pendingMissed
  BY <1>1 DEF RoutineTypes, SomeDelivery
<1>4. RoutineTypes'
  BY <1>1, <1>2, <1>3 DEF RoutineTypes
<1>5. WorkersOnCourse'
  <2> SUFFICES ASSUME NEW v \in Workers
               PROVE  /\ worker'[v].at = "add" => worker'[v].id \in ScheduledIds
                      /\ worker'[v].at \in Attending => worker'[v].id \in DeliveryIds
                      /\ worker'[v].at \in {"start", "mark", "last"} => rows'[worker'[v].id].state # "absent"
                      /\ worker'[v].at \in {"insert", "refuse"} => worker'[v].id \in DeliveryIds \ ScheduledIds
    BY DEF WorkersOnCourse
  <2>1. CASE v = w
    BY <1>2, <2>1
  <2>2. CASE v # w
    BY <1>2, <2>2 DEF RoutineInv, WorkersOnCourse, Attending
  <2> QED BY <2>1, <2>2
<1>6. now <= now'
  BY <1>1, RoutineAssumption DEF RoutineTypes
<1>7. \A v \in Workers : worker[v].at = "add" \/ worker'[v].at = "add" => worker'[v] = worker[v]
  BY <1>2
<1> QED BY <1>3, <1>4, <1>5, <1>6, <1>7, NothingTaken

\* Where a worker goes on to.
LEMMA OnwardIs ==
    ASSUME RoutineTypes, NEW w \in Workers
    PROVE  Onward(w) \in Places /\ Onward(w).at \in {"idle", "todo"}
<1>1. ASSUME NEW todo \in SUBSET DeliveryIds PROVE Sweep(todo) \in Places /\ Sweep(todo).at \in {"idle", "todo"}
  BY DEF Sweep, NotBusy, Places, SomeDelivery, WorkerSteps
<1>2. NotBusy \in Places /\ NotBusy.at = "idle"
  BY DEF NotBusy, Places, SomeDelivery, WorkerSteps
<1>3. worker[w].todo \in SUBSET DeliveryIds /\ PendingBut(worker[w].id) \in SUBSET DeliveryIds
  BY DEF RoutineTypes, Places, PendingBut
<1>4. Onward(w) \in {Sweep(PendingBut(worker[w].id)), Sweep(worker[w].todo), NotBusy}
  BY DEF Onward
<1> QED BY <1>1, <1>2, <1>3, <1>4

\* Writing a row of a delivery that is stored, or of one no schedule asked for.
LEMMA RowWritten ==
    ASSUME RoutineTypes, NEW d \in DeliveryIds, NEW row \in Rows, Puts(d, row), row.state # "absent",
           d \in ScheduledIds => rows[d].state # "absent" /\ row.missed = rows[d].missed
    PROVE  /\ rows' \in [DeliveryIds -> Rows]
           /\ rows'[d].state # "absent"
           /\ \A e \in DeliveryIds : rows'[e].state = "absent" => rows[e].state = "absent"
           /\ \A e \in ScheduledIds : /\ rows'[e].state = "absent" <=> rows[e].state = "absent"
                                      /\ rows'[e].missed = rows[e].missed
<1>1. /\ rows' \in [DeliveryIds -> Rows] /\ rows'[d] = row
      /\ \A e \in DeliveryIds \ {d} : rows'[e] = rows[e]
  BY DEF Puts, RoutineTypes
<1> QED BY <1>1, ScheduledIdsFinite

\* Leaving the rows alone keeps them.
LEMMA RowsLeft ==
    ASSUME RoutineTypes, UNCHANGED rows
    PROVE  /\ rows' \in [DeliveryIds -> Rows]
           /\ \A e \in DeliveryIds : rows'[e].state = "absent" => rows[e].state = "absent"
           /\ \A e \in ScheduledIds : /\ rows'[e].state = "absent" <=> rows[e].state = "absent"
                                      /\ rows'[e].missed = rows[e].missed
<1> QED BY DEF RoutineTypes

LEMMA NotScheduled ==
    /\ \A n \in 1..MaxByHand : ByHand(n) \in DeliveryIds \ ScheduledIds
    /\ \A n \in 1..MaxDeliveries : Webhook(n) \in DeliveryIds \ ScheduledIds
<1> QED BY DEF ByHand, Webhook, Scheduled, DeliveryIds, ScheduledIds

LEMMA PassesAndRequests ==
    ASSUME RoutineInv, NEW w \in Workers,
           \/ BeginPass(w) \/ TakePending(w)
           \/ \E n \in 1..MaxByHand : RunNow(w, n)
           \/ \E n \in 1..MaxDeliveries : ReceiveWebhook(w, n)
    PROVE  RoutineInv'
<1>1. RoutineTypes /\ worker[w] \in Places /\ routine.lastRun \in SomeDelivery
  BY DEF RoutineInv, RoutineTypes
<1>2. /\ NotBusy \in Places /\ NotBusy.at = "idle"
      /\ \A todo \in SUBSET DeliveryIds : Sweep(todo) \in Places /\ Sweep(todo).at \in {"idle", "todo"}
  BY DEF Sweep, NotBusy, Places, SomeDelivery, WorkerSteps
<1>3. CASE BeginPass(w)
  <2>1. /\ worker[w].at = "idle" /\ UNCHANGED <<trigger, now, routine, rows, givenUp>>
        /\ \/ TurnsTo(w, [NotBusy EXCEPT !.at = "due", !.pass = "schedule", !.seen = routine.lastRun,
                                          !.clear = ~RunActive(routine.lastRun)])
           \/ TurnsTo(w, Sweep(PendingBut(NoDelivery)))
    BY <1>2, <1>3 DEF BeginPass
  <2>2. PICK new \in Places : TurnsTo(w, new) /\ new.at \in {"idle", "todo", "due"}
    <3>1. CASE TurnsTo(w, [NotBusy EXCEPT !.at = "due", !.pass = "schedule", !.seen = routine.lastRun,
                                           !.clear = ~RunActive(routine.lastRun)])
      <4> DEFINE clear == ~RunActive(routine.lastRun)
                 new == [NotBusy EXCEPT !.at = "due", !.pass = "schedule", !.seen = routine.lastRun,
                                        !.clear = clear]
      <4>1. clear \in BOOLEAN
        BY DEF RunActive
      <4>2. TurnsTo(w, new)
        BY <3>1
      <4> HIDE DEF clear
      <4>3. new \in Places /\ new.at = "due"
        BY <1>1, <4>1 DEF NotBusy, Places, SomeDelivery, WorkerSteps
      <4> HIDE DEF new
      <4> QED BY <4>2, <4>3
    <3>2. CASE TurnsTo(w, Sweep(PendingBut(NoDelivery)))
      <4>1. PendingBut(NoDelivery) \in SUBSET DeliveryIds
        BY DEF PendingBut
      <4> QED BY <1>2, <3>2, <4>1
    <3> QED BY <2>1, <3>1, <3>2
  <2>3. new.at \notin Attending /\ new.at # "add" /\ new.at \notin {"insert", "refuse"}
    BY <2>2 DEF Attending
  <2> QED BY <1>1, <2>1, <2>2, <2>3, RowsLeft, WorkerTurns DEF Attending
<1>4. CASE TakePending(w)
  <2>1. PICK d \in worker[w].todo : TurnsTo(w, [worker[w] EXCEPT !.at = "claim", !.id = d, !.todo = @ \ {d}])
    BY <1>4 DEF TakePending
  <2>2. worker[w].at = "todo" /\ UNCHANGED <<trigger, now, routine, rows, givenUp>>
    BY <1>4 DEF TakePending
  <2>3. d \in DeliveryIds
    BY <1>1 DEF Places
  <2>4. PICK new \in Places : TurnsTo(w, new) /\ new.at = "claim" /\ new.id = d
    <3> DEFINE new == [worker[w] EXCEPT !.at = "claim", !.id = d, !.todo = @ \ {d}]
    <3>1. new \in Places /\ new.at = "claim" /\ new.id = d
      BY <1>1, <2>3 DEF Places, SomeDelivery, WorkerSteps, Attending
    <3>2. TurnsTo(w, new)
      BY <2>1
    <3> HIDE DEF new
    <3> QED BY <3>1, <3>2
  <2> QED BY <1>1, <2>2, <2>3, <2>4, RowsLeft, WorkerTurns
<1>5. ASSUME (\E n \in 1..MaxByHand : RunNow(w, n)) \/ (\E n \in 1..MaxDeliveries : ReceiveWebhook(w, n))
      PROVE  RoutineInv'
  <2>1. PICK d \in DeliveryIds \ ScheduledIds, clear \in BOOLEAN :
            TurnsTo(w, [NotBusy EXCEPT !.at = "insert", !.id = d, !.clear = clear])
    <3>1. CASE \E n \in 1..MaxByHand : RunNow(w, n)
      BY <3>1, NotScheduled DEF RunNow
    <3>2. CASE \E n \in 1..MaxDeliveries : ReceiveWebhook(w, n)
      <4>1. PICK n \in 1..MaxDeliveries : ReceiveWebhook(w, n)
        BY <3>2
      <4> DEFINE clear == (routine.status = "active")
      <4>2. clear \in BOOLEAN /\ TurnsTo(w, [NotBusy EXCEPT !.at = "insert", !.id = Webhook(n), !.clear = clear])
        BY <4>1 DEF ReceiveWebhook
      <4> HIDE DEF clear
      <4> QED BY <4>2, NotScheduled
    <3> QED BY <1>5, <3>1, <3>2
  <2>2. worker[w].at = "idle" /\ UNCHANGED <<trigger, now, routine, rows, givenUp>>
    BY <1>2, <1>5 DEF RunNow, ReceiveWebhook
  <2>3. PICK new \in Places : TurnsTo(w, new) /\ new.at = "insert" /\ new.id = d
    <3> DEFINE new == [NotBusy EXCEPT !.at = "insert", !.id = d, !.clear = clear]
    <3>1. new \in Places /\ new.at = "insert" /\ new.id = d
      BY DEF NotBusy, Places, SomeDelivery, WorkerSteps
    <3>2. TurnsTo(w, new)
      BY <2>1
    <3> HIDE DEF new
    <3> QED BY <3>1, <3>2
  <2> QED BY <1>1, <2>2, <2>3, RowsLeft, WorkerTurns DEF Attending
<1> QED BY <1>3, <1>4, <1>5

LEMMA Attempts ==
    ASSUME RoutineInv, NEW w \in Workers,
           \/ InsertRequested(w) \/ RefusePaused(w) \/ Claim(w) \/ StartRun(w) \/ MarkStarted(w) \/ SetLastRun(w)
           \/ \E made \in BOOLEAN : StartFails(w, made)
    PROVE  RoutineInv'
<1>1. RoutineTypes /\ worker[w] \in Places
  BY DEF RoutineInv, RoutineTypes
<1>2. NotBusy \in Places /\ NotBusy.at = "idle"
  BY DEF NotBusy, Places, SomeDelivery, WorkerSteps
<1>3. PICK onward \in Places : onward = Onward(w) /\ onward.at \in {"idle", "todo"}
  BY <1>1, OnwardIs
<1>4. PICK d : d = worker[w].id
  OBVIOUS
<1>5. PICK at : at = worker[w].at
  OBVIOUS
<1>6. ASSUME d \in DeliveryIds PROVE rows[d] \in Rows
  BY <1>1, <1>6 DEF RoutineTypes
<1>7. CASE InsertRequested(w)
  <2>1. d \in DeliveryIds \ ScheduledIds /\ at = "insert"
    BY <1>4, <1>5, <1>7 DEF InsertRequested, RoutineInv, WorkersOnCourse
  <2>2. UNCHANGED <<trigger, now, routine, givenUp>>
    BY <1>7 DEF InsertRequested
  <2>3. CASE rows[d].state = "absent"
    <3> DEFINE row == [NoRow EXCEPT !.state = "pending"]
               next == IF worker[w].clear THEN "claim" ELSE "refuse"
               new == [worker[w] EXCEPT !.at = next]
    <3>1. Puts(d, row) /\ TurnsTo(w, new)
      BY <1>4, <1>7, <2>3, Zenon DEF InsertRequested
    <3>2. next \in {"claim", "refuse"}
      OBVIOUS
    <3> HIDE DEF next
    <3>3. row \in Rows /\ row.state # "absent"
      BY DEF NoRow, Rows
    <3>4. new \in Places /\ new.at = next /\ new.id = d
      BY <1>1, <1>4, <3>2 DEF Places, WorkerSteps, Attending
    <3> HIDE DEF row, new
    <3>5. /\ rows' \in [DeliveryIds -> Rows]
          /\ rows'[d].state # "absent"
          /\ \A e \in DeliveryIds : rows'[e].state = "absent" => rows[e].state = "absent"
          /\ \A e \in ScheduledIds : /\ rows'[e].state = "absent" <=> rows[e].state = "absent"
                                     /\ rows'[e].missed = rows[e].missed
      BY <1>1, <2>1, <3>1, <3>3, RowWritten
    <3> QED BY <1>5, <2>1, <2>2, <3>1, <3>2, <3>4, <3>5, WorkerTurns
  <2>4. CASE rows[d].state # "absent"
    <3>1. UNCHANGED rows /\ TurnsTo(w, NotBusy)
      BY <1>4, <1>7, <2>4, Zenon DEF InsertRequested
    <3> QED BY <1>1, <1>2, <1>5, <2>1, <2>2, <3>1, RowsLeft, WorkerTurns DEF Attending
  <2> QED BY <2>3, <2>4
<1>8. CASE RefusePaused(w)
  <2>1. d \in DeliveryIds \ ScheduledIds /\ at = "refuse"
    BY <1>4, <1>5, <1>8 DEF RefusePaused, RoutineInv, WorkersOnCourse
  <2>2. UNCHANGED <<trigger, now, routine, givenUp>> /\ TurnsTo(w, NotBusy)
    BY <1>8 DEF RefusePaused
  <2> DEFINE row == [NoRow EXCEPT !.state = "failed"]
  <2>3. Puts(d, row)
    BY <1>4, <1>8 DEF RefusePaused
  <2>4. row \in Rows /\ row.state # "absent"
    BY DEF NoRow, Rows
  <2> HIDE DEF row
  <2>5. /\ rows' \in [DeliveryIds -> Rows]
        /\ \A e \in DeliveryIds : rows'[e].state = "absent" => rows[e].state = "absent"
        /\ \A e \in ScheduledIds : /\ rows'[e].state = "absent" <=> rows[e].state = "absent"
                                   /\ rows'[e].missed = rows[e].missed
    BY <1>1, <2>1, <2>3, <2>4, RowWritten
  <2> QED BY <1>2, <1>5, <2>1, <2>2, <2>5, WorkerTurns DEF Attending
<1>9. CASE Claim(w)
  <2>1. d \in DeliveryIds /\ at = "claim"
    BY <1>4, <1>5, <1>9 DEF Claim, RoutineInv, WorkersOnCourse, Attending
  <2>2. UNCHANGED <<trigger, now, routine, givenUp>>
    BY <1>9 DEF Claim
  <2>3. CASE rows[d].state = "pending" /\ ~rows[d].leased
    <3> DEFINE row == [rows[d] EXCEPT !.leased = TRUE]
               new == [worker[w] EXCEPT !.at = "start", !.attempts = rows[d].attempts]
    <3>1. Puts(d, row) /\ TurnsTo(w, new)
      BY <1>4, <1>9, <2>3 DEF Claim
    <3>2. row \in Rows /\ row.state = rows[d].state /\ row.missed = rows[d].missed
      BY <1>6, <2>1 DEF Rows
    <3>3. new \in Places /\ new.at = "start" /\ new.id = d
      BY <1>1, <1>4, <1>6, <2>1 DEF Places, WorkerSteps, Attending, Rows
    <3> HIDE DEF row, new
    <3>4. /\ rows' \in [DeliveryIds -> Rows]
          /\ rows'[d].state # "absent"
          /\ \A e \in DeliveryIds : rows'[e].state = "absent" => rows[e].state = "absent"
          /\ \A e \in ScheduledIds : /\ rows'[e].state = "absent" <=> rows[e].state = "absent"
                                     /\ rows'[e].missed = rows[e].missed
      BY <1>1, <2>1, <2>3, <3>1, <3>2, RowWritten
    <3> QED BY <1>5, <2>1, <2>2, <3>1, <3>3, <3>4, WorkerTurns
  <2>4. CASE ~(rows[d].state = "pending" /\ ~rows[d].leased)
    <3>1. UNCHANGED rows /\ TurnsTo(w, onward)
      BY <1>3, <1>4, <1>9, <2>4, Zenon DEF Claim
    <3> QED BY <1>1, <1>3, <1>5, <2>1, <2>2, <3>1, RowsLeft, WorkerTurns DEF Attending
  <2> QED BY <2>3, <2>4
<1>10. CASE StartRun(w)
  <2>1. d \in DeliveryIds /\ at = "start" /\ rows[d].state # "absent"
    BY <1>4, <1>5, <1>10 DEF StartRun, RoutineInv, WorkersOnCourse, Attending
  <2>2. UNCHANGED <<trigger, now, routine, rows, givenUp>>
    BY <1>10 DEF StartRun
  <2> DEFINE new == [worker[w] EXCEPT !.at = "mark"]
  <2>3. TurnsTo(w, new)
    BY <1>10 DEF StartRun
  <2>4. new \in Places /\ new.at = "mark" /\ new.id = d
    BY <1>1, <1>4 DEF Places, WorkerSteps, Attending
  <2> HIDE DEF new
  <2> QED BY <1>1, <1>5, <2>1, <2>2, <2>3, <2>4, RowsLeft, WorkerTurns
<1>11. CASE MarkStarted(w)
  <2>1. d \in DeliveryIds /\ at = "mark" /\ rows[d].state # "absent"
    BY <1>4, <1>5, <1>11 DEF MarkStarted, RoutineInv, WorkersOnCourse, Attending
  <2>2. UNCHANGED <<trigger, now, routine, givenUp>>
    BY <1>11 DEF MarkStarted
  <2> DEFINE tried == worker[w].attempts + 1
             row == [rows[d] EXCEPT !.state = "started", !.attempts = tried, !.leased = FALSE]
             new == [worker[w] EXCEPT !.at = "last"]
  <2>3. Puts(d, row) /\ TurnsTo(w, new)
    BY <1>4, <1>11 DEF MarkStarted
  <2>4. tried \in Nat
    BY <1>1 DEF Places
  <2> HIDE DEF tried
  <2>5. row \in Rows /\ row.state = "started" /\ row.missed = rows[d].missed
    BY <1>6, <2>1, <2>4 DEF Rows
  <2>6. new \in Places /\ new.at = "last" /\ new.id = d
    BY <1>1, <1>4 DEF Places, WorkerSteps, Attending
  <2> HIDE DEF row, new
  <2>7. /\ rows' \in [DeliveryIds -> Rows]
        /\ rows'[d].state # "absent"
        /\ \A e \in DeliveryIds : rows'[e].state = "absent" => rows[e].state = "absent"
        /\ \A e \in ScheduledIds : /\ rows'[e].state = "absent" <=> rows[e].state = "absent"
                                   /\ rows'[e].missed = rows[e].missed
    BY <1>1, <2>1, <2>3, <2>5, RowWritten
  <2> QED BY <1>5, <2>1, <2>2, <2>3, <2>6, <2>7, WorkerTurns
<1>12. CASE SetLastRun(w)
  <2>1. d \in DeliveryIds /\ at = "last"
    BY <1>4, <1>5, <1>12 DEF SetLastRun, RoutineInv, WorkersOnCourse, Attending
  <2>2. /\ UNCHANGED <<trigger, now, rows, givenUp>> /\ TurnsTo(w, onward)
        /\ routine' = [routine EXCEPT !.lastRun = worker[w].id]
    BY <1>3, <1>12 DEF SetLastRun
  <2> QED BY <1>1, <1>3, <1>4, <1>5, <2>1, <2>2, RowsLeft, WorkerTurns DEF Attending
<1>13. CASE \E made \in BOOLEAN : StartFails(w, made)
  <2>1. d \in DeliveryIds /\ at \in {"start", "last"} /\ rows[d].state # "absent"
    BY <1>4, <1>5, <1>13 DEF StartFails, RoutineInv, WorkersOnCourse, Attending
  <2> DEFINE tried == worker[w].attempts + 1
             state == IF tried >= MaxDeliveryAttempts THEN "failed" ELSE "pending"
             row == [rows[d] EXCEPT !.state = state, !.attempts = tried, !.leased = FALSE]
  <2>2. UNCHANGED <<trigger, now, routine, givenUp>> /\ TurnsTo(w, onward) /\ Puts(d, row)
    BY <1>3, <1>4, <1>13 DEF StartFails
  <2>3. tried \in Nat /\ state \in {"failed", "pending"}
    BY <1>1 DEF Places
  <2> HIDE DEF tried, state
  <2>4. row \in Rows /\ row.state # "absent" /\ row.missed = rows[d].missed
    BY <1>6, <2>1, <2>3 DEF Rows
  <2> HIDE DEF row
  <2>5. /\ rows' \in [DeliveryIds -> Rows]
        /\ \A e \in DeliveryIds : rows'[e].state = "absent" => rows[e].state = "absent"
        /\ \A e \in ScheduledIds : /\ rows'[e].state = "absent" <=> rows[e].state = "absent"
                                   /\ rows'[e].missed = rows[e].missed
    BY <1>1, <2>1, <2>2, <2>4, RowWritten
  <2> QED BY <1>3, <1>5, <2>1, <2>2, <2>5, WorkerTurns DEF Attending
<1> QED BY <1>7, <1>8, <1>9, <1>10, <1>11, <1>12, <1>13

WaitingIn(r) == IF r.pendingDueAt = 0 THEN 0 ELSE 1 + r.pendingMissed

\* Counting the calendar up to now: what it passes is what waits more than before.
LEMMA AdvancedIs ==
    ASSUME RoutineTypes, ScheduleOnCourse
    PROVE  /\ Advanced \in [status : {"active", "paused"}, nextDueAt : Nat, pendingDueAt : Nat,
                            pendingMissed : Nat, lastRun : SomeDelivery]
           /\ routine.nextDueAt <= Advanced.nextDueAt /\ Advanced.nextDueAt <= now + 1
           /\ Advanced.pendingDueAt < Advanced.nextDueAt
           /\ Advanced.pendingDueAt = 0 => Advanced.pendingMissed = 0
           /\ \/ Advanced.pendingDueAt = routine.pendingDueAt
              \/ Advanced.pendingDueAt = routine.nextDueAt
           /\ Advanced.nextDueAt - routine.nextDueAt = WaitingIn(Advanced) - Waiting
<1> DEFINE passed == IF routine.nextDueAt <= now THEN now + 1 - routine.nextDueAt ELSE 0
           waits == routine.pendingDueAt # 0
           next == routine.nextDueAt + passed
           due == IF ~waits /\ passed > 0 THEN routine.nextDueAt ELSE routine.pendingDueAt
           missed == routine.pendingMissed + (IF waits \/ passed = 0 THEN passed ELSE passed - 1)
<1>1. /\ routine \in [status : {"active", "paused"}, nextDueAt : Nat, pendingDueAt : Nat,
                      pendingMissed : Nat, lastRun : SomeDelivery]
      /\ now \in Nat
  BY RoutineAssumption DEF RoutineTypes
<1>2. /\ routine.nextDueAt \in Nat /\ routine.pendingDueAt \in Nat /\ routine.pendingMissed \in Nat
      /\ 1 <= routine.nextDueAt /\ routine.nextDueAt <= now + 1
      /\ routine.pendingDueAt < routine.nextDueAt
      /\ routine.pendingDueAt = 0 => routine.pendingMissed = 0
  BY <1>1 DEF ScheduleOnCourse
<1>3. Advanced = [routine EXCEPT !.nextDueAt = next, !.pendingDueAt = due, !.pendingMissed = missed]
  BY DEF Advanced
<1>4. passed \in Nat /\ (passed > 0 => routine.nextDueAt + passed = now + 1)
  BY <1>1, <1>2
<1>5. /\ next \in Nat /\ due \in Nat /\ missed \in Nat
      /\ routine.nextDueAt <= next /\ next <= now + 1 /\ due < next
      /\ due = 0 => missed = 0
      /\ due = routine.pendingDueAt \/ due = routine.nextDueAt
      /\ next - routine.nextDueAt = (IF due = 0 THEN 0 ELSE 1 + missed)
                                        - (IF routine.pendingDueAt = 0 THEN 0 ELSE 1 + routine.pendingMissed)
  <2> HIDE DEF passed
  <2> QED BY <1>1, <1>2, <1>4
<1> HIDE DEF next, due, missed
<1>6. /\ Advanced.nextDueAt = next /\ Advanced.pendingDueAt = due /\ Advanced.pendingMissed = missed
      /\ Advanced \in [status : {"active", "paused"}, nextDueAt : Nat, pendingDueAt : Nat,
                       pendingMissed : Nat, lastRun : SomeDelivery]
  BY <1>1, <1>3, <1>5
<1> QED BY <1>5, <1>6 DEF WaitingIn, Waiting

\* What has not changed hands: a step of the schedule with the workers and rows left alone, or of
\* a worker that takes no start.
LEMMA ScheduleMoves ==
    ASSUME RoutineInv, RoutineTypes', ScheduleOnCourse', WorkersOnCourse', UNCHANGED rows,
           routine.nextDueAt <= routine'.nextDueAt,
           \/ routine'.pendingDueAt \in {0, routine.pendingDueAt}
           \/ routine'.pendingDueAt = routine.nextDueAt,
           \A w \in Workers : worker[w].at = "add" \/ worker'[w].at = "add" => worker'[w] = worker[w],
           routine'.nextDueAt - routine.nextDueAt = Waiting' - Waiting + (givenUp' - givenUp)
    PROVE  RoutineInv'
<1>1. EachStartOnce'
  <2>1. /\ routine.nextDueAt \in Nat /\ routine'.nextDueAt \in Nat /\ routine'.pendingDueAt \in Nat
        /\ routine.pendingDueAt \in Nat
    BY DEF RoutineInv, RoutineTypes
  <2>2. \A w \in Workers, t \in 1..Horizon : Adds(w, t)' => Adds(w, t)
    BY DEF Adds
  <2>3. \A t \in 1..Horizon : t < routine.nextDueAt => t < routine'.nextDueAt
    BY <2>1, RoutineAssumption
  <2>4. \A t \in 1..Horizon : t < routine.nextDueAt /\ routine.pendingDueAt # t => routine'.pendingDueAt # t
    BY <2>1, RoutineAssumption
  <2> QED BY <2>2, <2>3, <2>4 DEF RoutineInv, EachStartOnce
<1>2. SumOf(Held(worker'), Workers) = SumOf(Held(worker), Workers)
  <2>1. \A w \in Workers : Held(worker')[w] = Held(worker)[w]
    BY DEF Held
  <2> QED BY <2>1, SameSum
<1>3. Accounted'
  <2>1. /\ SumOf(Stored(rows), ScheduledIds) \in Nat /\ SumOf(Held(worker), Workers) \in Nat /\ Waiting \in Nat
        /\ routine.nextDueAt \in Nat /\ givenUp \in Nat
    BY SumsAreNumbers DEF RoutineInv, RoutineTypes
  <2>2. Waiting' \in Nat /\ routine'.nextDueAt \in Nat /\ givenUp' \in Nat
    BY DEF RoutineTypes, Waiting
  <2>3. routine.nextDueAt - 1
            = SumOf(Stored(rows), ScheduledIds) + SumOf(Held(worker), Workers) + Waiting + givenUp
    BY DEF RoutineInv, Accounted
  <2>4. routine'.nextDueAt - 1
            = SumOf(Stored(rows), ScheduledIds) + SumOf(Held(worker), Workers) + Waiting' + givenUp'
    <3>1. PICK n, m, g, h, x, y, z, u \in Nat :
              /\ n = routine.nextDueAt /\ m = routine'.nextDueAt /\ g = givenUp /\ h = givenUp'
              /\ x = Waiting /\ y = Waiting'
              /\ z = SumOf(Stored(rows), ScheduledIds) /\ u = SumOf(Held(worker), Workers)
      BY <2>1, <2>2
    <3>2. m - n = y - x + (h - g)
      BY <3>1
    <3>3. n - 1 = z + u + x + g
      BY <2>3, <3>1
    <3>4. m - 1 = z + u + y + h
      BY <3>2, <3>3
    <3> QED BY <3>1, <3>4
  <2> QED BY <1>2, <2>4 DEF Accounted
<1> QED BY <1>1, <1>3 DEF RoutineInv

LEMMA ScheduleAdvances ==
    ASSUME RoutineInv, NEW w \in Workers, AdvanceSchedule(w)
    PROVE  RoutineInv'
<1>1. /\ RoutineTypes /\ ScheduleOnCourse /\ worker[w] \in Places /\ worker[w].at = "due"
      /\ UNCHANGED <<trigger, now, rows, givenUp>>
  BY DEF RoutineInv, RoutineTypes, AdvanceSchedule
<1>2. PICK after : after = Advanced
  OBVIOUS
<1>3. /\ after \in [status : {"active", "paused"}, nextDueAt : Nat, pendingDueAt : Nat,
                    pendingMissed : Nat, lastRun : SomeDelivery]
      /\ routine.nextDueAt <= after.nextDueAt /\ after.nextDueAt <= now + 1
      /\ after.pendingDueAt < after.nextDueAt
      /\ after.pendingDueAt = 0 => after.pendingMissed = 0
      /\ after.pendingDueAt = routine.pendingDueAt \/ after.pendingDueAt = routine.nextDueAt
      /\ after.nextDueAt - routine.nextDueAt = WaitingIn(after) - Waiting
  BY <1>1, <1>2, AdvancedIs
<1>4. /\ now \in Nat /\ now <= Horizon /\ Horizon \in Nat /\ routine.nextDueAt \in Nat /\ routine.pendingDueAt \in Nat
      /\ 1 <= routine.nextDueAt /\ routine.nextDueAt <= now + 1 /\ givenUp \in Nat
  BY <1>1, RoutineAssumption DEF RoutineTypes, ScheduleOnCourse
<1>5. \/ /\ after.pendingDueAt # 0
         /\ routine' = [after EXCEPT !.pendingDueAt = 0, !.pendingMissed = 0]
         /\ TurnsTo(w, [worker[w] EXCEPT !.at = "add", !.id = Scheduled(after.pendingDueAt),
                                         !.missed = after.pendingMissed])
      \/ /\ routine' = after \/ routine' = routine
         /\ TurnsTo(w, Onward(w))
  BY <1>2, Zenon DEF AdvanceSchedule
<1>6. CASE /\ after.pendingDueAt # 0
           /\ routine' = [after EXCEPT !.pendingDueAt = 0, !.pendingMissed = 0]
           /\ TurnsTo(w, [worker[w] EXCEPT !.at = "add", !.id = Scheduled(after.pendingDueAt),
                                           !.missed = after.pendingMissed])
  <2>1. PICK due, missed : due = after.pendingDueAt /\ missed = after.pendingMissed
    OBVIOUS
  <2>2. due \in 1..Horizon /\ missed \in Nat
    BY <1>3, <1>4, <1>6, <2>1
  <2>3. Scheduled(due) \in ScheduledIds /\ Scheduled(due) \in DeliveryIds
    BY <2>2 DEF ScheduledIds, DeliveryIds
  <2> DEFINE new == [worker[w] EXCEPT !.at = "add", !.id = Scheduled(due), !.missed = missed]
  <2>4. TurnsTo(w, new)
    BY <1>6, <2>1
  <2>5. new \in Places /\ new.at = "add" /\ new.id = Scheduled(due) /\ new.missed = missed
    BY <1>1, <2>2, <2>3 DEF Places, SomeDelivery, WorkerSteps
  <2> HIDE DEF new
  <2>6. /\ worker' \in [Workers -> Places] /\ worker'[w] = new
        /\ \A v \in Workers \ {w} : worker'[v] = worker[v]
    BY <1>1, <2>4, <2>5 DEF TurnsTo, RoutineTypes
  <2>7. /\ routine' \in [status : {"active", "paused"}, nextDueAt : Nat, pendingDueAt : Nat,
                         pendingMissed : Nat, lastRun : SomeDelivery]
        /\ routine'.nextDueAt = after.nextDueAt /\ routine'.pendingDueAt = 0 /\ routine'.pendingMissed = 0
    BY <1>3, <1>6
  <2>8. RoutineTypes'
    BY <1>1, <2>6, <2>7 DEF RoutineTypes
  <2>9. ScheduleOnCourse'
    BY <1>1, <1>3, <1>4, <2>7 DEF ScheduleOnCourse
  <2>10. WorkersOnCourse'
    <3> SUFFICES ASSUME NEW v \in Workers
                 PROVE  /\ worker'[v].at = "add" => worker'[v].id \in ScheduledIds
                        /\ worker'[v].at \in Attending => worker'[v].id \in DeliveryIds
                        /\ worker'[v].at \in {"start", "mark", "last"} => rows'[worker'[v].id].state # "absent"
                        /\ worker'[v].at \in {"insert", "refuse"} => worker'[v].id \in DeliveryIds \ ScheduledIds
      BY DEF WorkersOnCourse
    <3>1. CASE v = w
      BY <2>3, <2>5, <2>6, <3>1 DEF Attending
    <3>2. CASE v # w
      BY <1>1, <2>6, <3>2 DEF RoutineInv, WorkersOnCourse
    <3> QED BY <3>1, <3>2
  <2>11. /\ rows[Scheduled(due)].state = "absent" /\ (\A v \in Workers : ~Adds(v, due))
    <3>1. due = routine.pendingDueAt \/ due = routine.nextDueAt
      BY <1>3, <2>1
    <3>2. ~(due < routine.nextDueAt /\ routine.pendingDueAt # due)
      BY <1>4, <3>1
    <3> QED BY <2>2, <3>2 DEF RoutineInv, EachStartOnce
  <2>12. EachStartOnce'
    <3> SUFFICES ASSUME NEW t \in 1..Horizon
                 PROVE  /\ rows'[Scheduled(t)].state # "absent" =>
                              /\ t < routine'.nextDueAt /\ routine'.pendingDueAt # t
                              /\ \A v \in Workers : ~Adds(v, t)'
                        /\ \A v \in Workers : Adds(v, t)' =>
                              /\ t < routine'.nextDueAt /\ routine'.pendingDueAt # t
                              /\ \A u \in Workers : Adds(u, t)' => u = v
      BY DEF EachStartOnce
    <3>1. Scheduled(t) = Scheduled(due) => t = due
      BY DEF Scheduled
    <3>2. t # 0 /\ t \in Nat
      BY <1>4
    <3>3. CASE t = due
      <4>1. \A v \in Workers : Adds(v, t)' => v = w
        BY <2>6, <2>11, <3>3 DEF Adds
      <4>2. rows'[Scheduled(t)].state = "absent"
        BY <1>1, <2>11, <3>3
      <4>3. t < routine'.nextDueAt /\ routine'.pendingDueAt # t
        BY <1>3, <2>1, <2>7, <3>2, <3>3
      <4> QED BY <4>1, <4>2, <4>3
    <3>4. CASE t # due
      <4>1. \A v \in Workers : Adds(v, t)' => Adds(v, t)
        BY <2>5, <2>6, <3>1, <3>4 DEF Adds
      <4>2. t < routine.nextDueAt => t < routine'.nextDueAt /\ routine'.pendingDueAt # t
        BY <1>3, <1>4, <2>7, <3>2
      <4> QED BY <1>1, <4>1, <4>2 DEF RoutineInv, EachStartOnce
    <3> QED BY <3>3, <3>4
  <2>13. SumOf(Held(worker'), Workers) = SumOf(Held(worker), Workers) + 1 + missed
    <3>1. PICK f, g : f = Held(worker) /\ g = Held(worker')
      OBVIOUS
    <3>2. /\ \A v \in Workers : f[v] \in Nat /\ g[v] \in Nat
          /\ \A v \in Workers \ {w} : g[v] = f[v]
          /\ f[w] = 0 /\ g[w] = 1 + missed
      BY <1>1, <2>2, <2>5, <2>6, <3>1 DEF RoutineTypes, Places, Held
    <3>3. IsFiniteSet(Workers)
      BY RoutineAssumption
    <3>4. SumOf(g, Workers) + f[w] = SumOf(f, Workers) + g[w]
      BY <3>2, <3>3, OneChanges
    <3>5. SumOf(g, Workers) \in Nat /\ SumOf(f, Workers) \in Nat
      BY <3>2, <3>3, SumIsNumber
    <3>6. SumOf(g, Workers) = SumOf(f, Workers) + 1 + missed
      BY <2>2, <3>2, <3>4, <3>5
    <3> QED BY <3>1, <3>6
  <2>14. Accounted'
    <3>1. /\ SumOf(Stored(rows), ScheduledIds) \in Nat /\ SumOf(Held(worker), Workers) \in Nat /\ Waiting \in Nat
      BY <1>1, SumsAreNumbers
    <3>2. routine.nextDueAt - 1
              = SumOf(Stored(rows), ScheduledIds) + SumOf(Held(worker), Workers) + Waiting + givenUp
      BY DEF RoutineInv, Accounted
    <3>3. WaitingIn(after) = 1 + missed /\ Waiting' = 0
      BY <1>6, <2>1, <2>7 DEF WaitingIn, Waiting
    <3>4. after.nextDueAt - 1
              = SumOf(Stored(rows), ScheduledIds) + (SumOf(Held(worker), Workers) + 1 + missed) + 0 + givenUp
      BY <1>3, <1>4, <2>2, <3>1, <3>2, <3>3
    <3> QED BY <1>1, <2>7, <2>13, <3>3, <3>4 DEF Accounted
  <2> QED BY <2>8, <2>9, <2>10, <2>12, <2>14 DEF RoutineInv
<1>7. CASE (routine' = after \/ routine' = routine) /\ TurnsTo(w, Onward(w))
  <2>1. PICK new \in Places : new = Onward(w) /\ new.at \in {"idle", "todo"}
    BY <1>1, OnwardIs
  <2>2. /\ worker' \in [Workers -> Places] /\ worker'[w] = new
        /\ \A v \in Workers \ {w} : worker'[v] = worker[v]
    BY <1>1, <1>7, <2>1 DEF TurnsTo, RoutineTypes
  <2>3. /\ routine' \in [status : {"active", "paused"}, nextDueAt : Nat, pendingDueAt : Nat,
                         pendingMissed : Nat, lastRun : SomeDelivery]
        /\ routine.nextDueAt <= routine'.nextDueAt
        /\ routine'.pendingDueAt \in {0, routine.pendingDueAt} \/ routine'.pendingDueAt = routine.nextDueAt
    BY <1>1, <1>3, <1>4, <1>7 DEF RoutineTypes
  <2>4. RoutineTypes'
    BY <1>1, <2>2, <2>3 DEF RoutineTypes
  <2>5. ScheduleOnCourse'
    BY <1>1, <1>3, <1>4, <1>7 DEF ScheduleOnCourse
  <2>6. WorkersOnCourse'
    <3> SUFFICES ASSUME NEW v \in Workers
                 PROVE  /\ worker'[v].at = "add" => worker'[v].id \in ScheduledIds
                        /\ worker'[v].at \in Attending => worker'[v].id \in DeliveryIds
                        /\ worker'[v].at \in {"start", "mark", "last"} => rows'[worker'[v].id].state # "absent"
                        /\ worker'[v].at \in {"insert", "refuse"} => worker'[v].id \in DeliveryIds \ ScheduledIds
      BY DEF WorkersOnCourse
    <3>1. CASE v = w
      BY <2>1, <2>2, <3>1 DEF Attending
    <3>2. CASE v # w
      BY <1>1, <2>2, <3>2 DEF RoutineInv, WorkersOnCourse
    <3> QED BY <3>1, <3>2
  <2>7. \A v \in Workers : worker[v].at = "add" \/ worker'[v].at = "add" => worker'[v] = worker[v]
    BY <1>1, <2>1, <2>2
  <2>8. routine'.nextDueAt - routine.nextDueAt = Waiting' - Waiting + (givenUp' - givenUp)
    <3>1. Waiting \in Nat /\ Waiting' \in Nat /\ routine'.nextDueAt \in Nat
      BY <1>1, <2>3 DEF RoutineTypes, Waiting
    <3>2. givenUp' - givenUp = 0
      BY <1>1, <1>4
    <3>3. CASE routine' = after
      <4>1. Waiting' = WaitingIn(after)
        BY <3>3 DEF Waiting, WaitingIn
      <4> QED BY <1>3, <3>1, <3>2, <3>3, <4>1
    <3>4. CASE routine' = routine
      <4>1. Waiting' = Waiting
        BY <3>4 DEF Waiting
      <4> QED BY <1>4, <3>1, <3>2, <3>4, <4>1
    <3> QED BY <1>7, <3>3, <3>4
  <2> QED BY <1>1, <2>3, <2>4, <2>5, <2>6, <2>7, <2>8, ScheduleMoves
<1> QED BY <1>5, <1>6, <1>7

LEMMA StartStored ==
    ASSUME RoutineInv, NEW w \in Workers, AddScheduled(w)
    PROVE  RoutineInv'
<1>1. /\ RoutineTypes /\ worker[w] \in Places /\ worker[w].at = "add" /\ worker[w].missed \in Nat
      /\ UNCHANGED <<trigger, now, routine, givenUp>>
  BY DEF RoutineInv, RoutineTypes, AddScheduled, Places
<1>2. PICK t \in 1..Horizon : worker[w].id = Scheduled(t)
  BY <1>1 DEF RoutineInv, WorkersOnCourse, ScheduledIds
<1>3. PICK d : d = Scheduled(t)
  OBVIOUS
<1>4. PICK missed \in Nat : missed = worker[w].missed
  BY <1>1
<1>5. d \in ScheduledIds /\ d \in DeliveryIds
  BY <1>3 DEF ScheduledIds, DeliveryIds
<1>6. /\ rows[d].state = "absent" /\ t < routine.nextDueAt /\ routine.pendingDueAt # t
      /\ \A v \in Workers : Adds(v, t) => v = w
  BY <1>1, <1>2, <1>3 DEF RoutineInv, EachStartOnce, Adds
<1> DEFINE row == [NoRow EXCEPT !.state = "pending", !.missed = missed]
           new == [worker[w] EXCEPT !.at = "claim"]
<1>7. Puts(d, row) /\ TurnsTo(w, new)
  BY <1>2, <1>3, <1>4, <1>6 DEF AddScheduled
<1>8. /\ row \in Rows /\ row.state = "pending" /\ row.missed = missed
      /\ new \in Places /\ new.at = "claim" /\ new.id = d
  BY <1>1, <1>2, <1>3 DEF NoRow, Rows, Places, WorkerSteps, Attending
<1> HIDE DEF row, new
<1>9. /\ worker' \in [Workers -> Places] /\ worker'[w] = new
      /\ \A v \in Workers \ {w} : worker'[v] = worker[v]
  BY <1>1, <1>7, <1>8 DEF TurnsTo, RoutineTypes
<1>10. /\ rows' \in [DeliveryIds -> Rows] /\ rows'[d] = row
       /\ \A e \in DeliveryIds \ {d} : rows'[e] = rows[e]
  BY <1>1, <1>5, <1>7, <1>8 DEF Puts, RoutineTypes
<1>11. RoutineTypes' /\ ScheduleOnCourse'
  BY <1>1, <1>9, <1>10 DEF RoutineInv, RoutineTypes, ScheduleOnCourse
<1>12. WorkersOnCourse'
  <2> SUFFICES ASSUME NEW v \in Workers
               PROVE  /\ worker'[v].at = "add" => worker'[v].id \in ScheduledIds
                      /\ worker'[v].at \in Attending => worker'[v].id \in DeliveryIds
                      /\ worker'[v].at \in {"start", "mark", "last"} => rows'[worker'[v].id].state # "absent"
                      /\ worker'[v].at \in {"insert", "refuse"} => worker'[v].id \in DeliveryIds \ ScheduledIds
    BY DEF WorkersOnCourse
  <2>1. CASE v = w
    BY <1>5, <1>8, <1>9, <2>1
  <2>2. CASE v # w
    <3>1. \A e \in DeliveryIds : rows'[e].state = "absent" => rows[e].state = "absent"
      BY <1>8, <1>10
    <3> QED BY <1>9, <2>2, <3>1 DEF RoutineInv, WorkersOnCourse, Attending
  <2> QED BY <2>1, <2>2
<1>13. EachStartOnce'
  <2> SUFFICES ASSUME NEW s \in 1..Horizon
               PROVE  /\ rows'[Scheduled(s)].state # "absent" =>
                            /\ s < routine'.nextDueAt /\ routine'.pendingDueAt # s
                            /\ \A v \in Workers : ~Adds(v, s)'
                      /\ \A v \in Workers : Adds(v, s)' =>
                            /\ s < routine'.nextDueAt /\ routine'.pendingDueAt # s
                            /\ \A u \in Workers : Adds(u, s)' => u = v
    BY DEF EachStartOnce
  <2>1. \A v \in Workers : Adds(v, s)' => v # w /\ Adds(v, s)
    BY <1>8, <1>9 DEF Adds
  <2>2. CASE s = t
    BY <1>1, <1>6, <2>1, <2>2
  <2>3. CASE s # t
    <3>1. Scheduled(s) # d /\ Scheduled(s) \in DeliveryIds
      BY <1>3, <2>3 DEF Scheduled, DeliveryIds
    <3>2. rows'[Scheduled(s)] = rows[Scheduled(s)]
      BY <1>10, <3>1
    <3> QED BY <1>1, <2>1, <3>2 DEF RoutineInv, EachStartOnce
  <2> QED BY <2>2, <2>3
<1>14. SumOf(Stored(rows'), ScheduledIds) = SumOf(Stored(rows), ScheduledIds) + 1 + missed
  <2>1. PICK f, g : f = Stored(rows) /\ g = Stored(rows')
    OBVIOUS
  <2>2. /\ \A e \in ScheduledIds : f[e] \in Nat /\ g[e] \in Nat
        /\ \A e \in ScheduledIds \ {d} : g[e] = f[e]
        /\ f[d] = 0 /\ g[d] = 1 + missed
    BY <1>1, <1>5, <1>6, <1>8, <1>10, <2>1, ScheduledIdsFinite DEF RoutineTypes, Rows, Stored
  <2>3. SumOf(g, ScheduledIds) + f[d] = SumOf(f, ScheduledIds) + g[d]
    BY <1>5, <2>2, ScheduledIdsFinite, OneChanges
  <2>4. SumOf(g, ScheduledIds) \in Nat /\ SumOf(f, ScheduledIds) \in Nat
    BY <2>2, ScheduledIdsFinite, SumIsNumber
  <2>5. SumOf(g, ScheduledIds) = SumOf(f, ScheduledIds) + 1 + missed
    BY <2>2, <2>3, <2>4
  <2> QED BY <2>1, <2>5
<1>15. SumOf(Held(worker'), Workers) + 1 + missed = SumOf(Held(worker), Workers)
  <2>1. PICK f, g : f = Held(worker) /\ g = Held(worker')
    OBVIOUS
  <2>2. /\ \A v \in Workers : f[v] \in Nat /\ g[v] \in Nat
        /\ \A v \in Workers \ {w} : g[v] = f[v]
        /\ f[w] = 1 + missed /\ g[w] = 0
    BY <1>1, <1>4, <1>8, <1>9, <2>1 DEF RoutineTypes, Places, Held
  <2>3. IsFiniteSet(Workers)
    BY RoutineAssumption
  <2>4. SumOf(g, Workers) + f[w] = SumOf(f, Workers) + g[w]
    BY <2>2, <2>3, OneChanges
  <2>5. SumOf(g, Workers) \in Nat /\ SumOf(f, Workers) \in Nat
    BY <2>2, <2>3, SumIsNumber
  <2>6. SumOf(g, Workers) + 1 + missed = SumOf(f, Workers)
    BY <2>2, <2>4, <2>5
  <2> QED BY <2>1, <2>6
<1>16. Accounted'
  <2>1. /\ SumOf(Stored(rows), ScheduledIds) \in Nat /\ SumOf(Held(worker), Workers) \in Nat /\ Waiting \in Nat
        /\ givenUp \in Nat
    BY <1>1, SumsAreNumbers DEF RoutineTypes
  <2>2. SumOf(Held(worker'), Workers) \in Nat
    <3>1. \A v \in Workers : Held(worker')[v] \in Nat
      BY <1>9 DEF Places, Held
    <3> QED BY <3>1, RoutineAssumption, SumIsNumber
  <2>3. Waiting' = Waiting
    BY <1>1 DEF Waiting
  <2>4. PICK x, y, z, u \in Nat : /\ x = SumOf(Stored(rows), ScheduledIds) /\ y = SumOf(Held(worker'), Workers)
                                  /\ z = Waiting /\ u = givenUp
    BY <2>1, <2>2
  <2>5. routine.nextDueAt - 1 = x + (y + 1 + missed) + z + u
    BY <1>15, <2>4 DEF RoutineInv, Accounted
  <2>6. routine.nextDueAt - 1 = (x + 1 + missed) + y + z + u
    BY <2>5
  <2> QED BY <1>1, <1>14, <2>3, <2>4, <2>6 DEF Accounted
<1> QED BY <1>11, <1>12, <1>13, <1>16 DEF RoutineInv

LEMMA WorkerDies ==
    ASSUME RoutineInv, NEW w \in Workers, WorkerCrash(w)
    PROVE  RoutineInv'
<1>1. /\ RoutineTypes /\ worker[w] \in Places /\ UNCHANGED <<trigger, now, routine, rows>>
      /\ TurnsTo(w, NotBusy) /\ givenUp' = givenUp + InHand(w)
  BY DEF RoutineInv, RoutineTypes, WorkerCrash
<1>2. NotBusy \in Places /\ NotBusy.at = "idle"
  BY DEF NotBusy, Places, SomeDelivery, WorkerSteps
<1>3. PICK lost \in Nat : lost = InHand(w) /\ lost = IF worker[w].at = "add" THEN 1 + worker[w].missed ELSE 0
  BY <1>1 DEF InHand, Places
<1>4. /\ worker' \in [Workers -> Places] /\ worker'[w] = NotBusy
      /\ \A v \in Workers \ {w} : worker'[v] = worker[v]
  BY <1>1, <1>2 DEF TurnsTo, RoutineTypes
<1>5. givenUp \in Nat /\ givenUp' \in Nat /\ givenUp' = givenUp + lost
  BY <1>1, <1>3 DEF RoutineTypes
<1>6. RoutineTypes' /\ ScheduleOnCourse'
  BY <1>1, <1>4, <1>5 DEF RoutineInv, RoutineTypes, ScheduleOnCourse
<1>7. WorkersOnCourse'
  <2> SUFFICES ASSUME NEW v \in Workers
               PROVE  /\ worker'[v].at = "add" => worker'[v].id \in ScheduledIds
                      /\ worker'[v].at \in Attending => worker'[v].id \in DeliveryIds
                      /\ worker'[v].at \in {"start", "mark", "last"} => rows'[worker'[v].id].state # "absent"
                      /\ worker'[v].at \in {"insert", "refuse"} => worker'[v].id \in DeliveryIds \ ScheduledIds
    BY DEF WorkersOnCourse
  <2>1. CASE v = w
    BY <1>2, <1>4, <2>1 DEF Attending
  <2>2. CASE v # w
    BY <1>1, <1>4, <2>2 DEF RoutineInv, WorkersOnCourse
  <2> QED BY <2>1, <2>2
<1>8. EachStartOnce'
  <2>1. \A v \in Workers, t \in 1..Horizon : Adds(v, t)' => Adds(v, t)
    BY <1>2, <1>4 DEF Adds
  <2> QED BY <1>1, <2>1 DEF RoutineInv, EachStartOnce
<1>9. SumOf(Held(worker'), Workers) + lost = SumOf(Held(worker), Workers) /\ SumOf(Held(worker'), Workers) \in Nat
  <2>1. PICK f, g : f = Held(worker) /\ g = Held(worker')
    OBVIOUS
  <2>2. /\ \A v \in Workers : f[v] \in Nat /\ g[v] \in Nat
        /\ \A v \in Workers \ {w} : g[v] = f[v]
        /\ f[w] = lost /\ g[w] = 0
    BY <1>1, <1>2, <1>3, <1>4, <2>1 DEF RoutineTypes, Places, Held
  <2>3. IsFiniteSet(Workers)
    BY RoutineAssumption
  <2>4. SumOf(g, Workers) + f[w] = SumOf(f, Workers) + g[w]
    BY <2>2, <2>3, OneChanges
  <2>5. SumOf(g, Workers) \in Nat /\ SumOf(f, Workers) \in Nat
    BY <2>2, <2>3, SumIsNumber
  <2>6. SumOf(g, Workers) + lost = SumOf(f, Workers)
    BY <2>2, <2>4, <2>5
  <2> QED BY <2>1, <2>5, <2>6
<1>10. Accounted'
  <2>1. SumOf(Stored(rows), ScheduledIds) \in Nat /\ Waiting \in Nat
    BY <1>1, SumsAreNumbers
  <2>2. Waiting' = Waiting
    BY <1>1 DEF Waiting
  <2>3. PICK x, y, z, u \in Nat : /\ x = SumOf(Stored(rows), ScheduledIds) /\ y = SumOf(Held(worker'), Workers)
                                  /\ z = Waiting /\ u = givenUp
    BY <1>5, <1>9, <2>1
  <2>4. routine.nextDueAt - 1 = x + (y + lost) + z + u
    BY <1>9, <2>3 DEF RoutineInv, Accounted
  <2>5. routine.nextDueAt - 1 = x + y + z + (u + lost)
    BY <2>4
  <2> QED BY <1>1, <1>5, <2>2, <2>3, <2>5 DEF Accounted
<1> QED BY <1>6, <1>7, <1>8, <1>10 DEF RoutineInv

LEMMA OwnerChanges ==
    ASSUME RoutineInv, NEW status \in {"active", "paused"}, NEW calendar \in BOOLEAN,
           ChangeRoutine(status, calendar)
    PROVE  RoutineInv'
<1> DEFINE recount == trigger = "schedule" /\ (calendar \/ (status = "active" /\ routine.status = "paused"))
           drops == recount \/ status = "paused"
           next == IF recount THEN now + 1 ELSE routine.nextDueAt
           due == IF drops THEN 0 ELSE routine.pendingDueAt
           missed == IF drops THEN 0 ELSE routine.pendingMissed
<1>1. /\ RoutineTypes /\ ScheduleOnCourse /\ UNCHANGED <<trigger, now, rows, worker>>
      /\ routine' = [routine EXCEPT !.status = status, !.nextDueAt = next, !.pendingDueAt = due,
                                    !.pendingMissed = missed]
      /\ givenUp' = givenUp + (IF drops THEN Waiting ELSE 0) + (routine'.nextDueAt - routine.nextDueAt)
  BY DEF RoutineInv, ChangeRoutine
<1>2. /\ now \in Nat /\ givenUp \in Nat /\ routine.nextDueAt \in Nat /\ routine.pendingDueAt \in Nat
      /\ routine.pendingMissed \in Nat /\ Waiting \in Nat
      /\ 1 <= routine.nextDueAt /\ routine.nextDueAt <= now + 1 /\ routine.pendingDueAt < routine.nextDueAt
      /\ routine.pendingDueAt = 0 => routine.pendingMissed = 0
  BY <1>1, RoutineAssumption DEF RoutineTypes, ScheduleOnCourse, Waiting
<1>3. /\ next \in Nat /\ due \in Nat /\ missed \in Nat /\ routine.nextDueAt <= next /\ next <= now + 1
      /\ due < next /\ (due = 0 => missed = 0) /\ due \in {0, routine.pendingDueAt}
      /\ drops => due = 0
      /\ ~drops => due = routine.pendingDueAt /\ missed = routine.pendingMissed
  BY <1>2
<1> HIDE DEF next, due, missed
<1>4. /\ routine' \in [status : {"active", "paused"}, nextDueAt : Nat, pendingDueAt : Nat, pendingMissed : Nat,
                       lastRun : SomeDelivery]
      /\ routine'.nextDueAt = next /\ routine'.pendingDueAt = due /\ routine'.pendingMissed = missed
  BY <1>1, <1>3 DEF RoutineTypes
<1>5. Waiting' = IF drops THEN 0 ELSE Waiting
  BY <1>3, <1>4 DEF Waiting
<1> HIDE DEF drops
<1>6. givenUp' \in Nat /\ routine'.nextDueAt - routine.nextDueAt = Waiting' - Waiting + (givenUp' - givenUp)
  <2>1. PICK n, m, x, y, g \in Nat : /\ n = routine.nextDueAt /\ m = routine'.nextDueAt /\ g = givenUp
                                     /\ x = Waiting /\ y = Waiting' /\ n <= m
    BY <1>2, <1>3, <1>4, <1>5
  <2>2. CASE drops
    <3>1. givenUp' = g + x + (m - n) /\ y = 0
      BY <1>1, <1>5, <2>1, <2>2
    <3> QED BY <2>1, <3>1
  <2>3. CASE ~drops
    <3>1. givenUp' = g + 0 + (m - n) /\ y = x
      BY <1>1, <1>5, <2>1, <2>3
    <3> QED BY <2>1, <3>1
  <2> QED BY <2>2, <2>3
<1>7. RoutineTypes'
  BY <1>1, <1>4, <1>6 DEF RoutineTypes
<1>8. ScheduleOnCourse'
  BY <1>1, <1>2, <1>3, <1>4 DEF ScheduleOnCourse
<1>9. WorkersOnCourse'
  BY <1>1 DEF RoutineInv, WorkersOnCourse
<1> QED BY <1>1, <1>3, <1>4, <1>6, <1>7, <1>8, <1>9, ScheduleMoves

LEMMA SurroundingsMove ==
    ASSUME RoutineInv,
           \/ TimePasses \/ UNCHANGED routineVars
           \/ \E d \in DeliveryIds : RunEnds(d) \/ RunRetried(d) \/ LeaseOutlived(d)
    PROVE  RoutineInv'
<1>1. RoutineTypes
  BY DEF RoutineInv
<1>2. UNCHANGED <<trigger, routine, worker, givenUp>> /\ now <= now' /\ now' \in 0..Horizon
  <2>1. now \in 0..Horizon /\ Horizon \in Nat
    BY <1>1, RoutineAssumption DEF RoutineTypes
  <2>2. CASE TimePasses
    BY <2>1, <2>2 DEF TimePasses
  <2>3. CASE UNCHANGED routineVars
    BY <2>1, <2>3 DEF routineVars
  <2>4. CASE \E d \in DeliveryIds : RunEnds(d) \/ RunRetried(d) \/ LeaseOutlived(d)
    <3>1. UNCHANGED <<trigger, routine, worker, givenUp, now>>
      BY <2>4, Zenon DEF RunEnds, RunRetried, LeaseOutlived
    <3> QED BY <2>1, <3>1
  <2> QED BY <2>2, <2>3, <2>4
<1>3. /\ rows' \in [DeliveryIds -> Rows]
      /\ \A d \in DeliveryIds : /\ rows'[d].state = rows[d].state
                                /\ rows'[d].missed = rows[d].missed
  <2>1. CASE UNCHANGED rows
    BY <1>1, <2>1 DEF RoutineTypes
  <2>2. CASE \E d \in DeliveryIds : LeaseOutlived(d)
    <3>1. PICK d \in DeliveryIds : Puts(d, [rows[d] EXCEPT !.leased = FALSE])
      BY <2>2 DEF LeaseOutlived
    <3> QED BY <1>1, <3>1 DEF Puts, RoutineTypes, Rows
  <2> QED BY <2>1, <2>2 DEF TimePasses, RunEnds, RunRetried, routineVars
<1>4. RoutineTypes'
  BY <1>1, <1>2, <1>3 DEF RoutineTypes
<1>5. WorkersOnCourse'
  BY <1>2, <1>3 DEF RoutineInv, WorkersOnCourse, Attending
<1> QED BY <1>2, <1>3, <1>4, <1>5, ScheduledIdsFinite, NothingTaken

LEMMA RoutineStep ==
    ASSUME RoutineInv, [RoutinesNext]_routineVars
    PROVE  RoutineInv'
<1>1. ASSUME NEW w \in Workers,
             \/ BeginPass(w) \/ TakePending(w)
             \/ \E n \in 1..MaxByHand : RunNow(w, n)
             \/ \E n \in 1..MaxDeliveries : ReceiveWebhook(w, n)
      PROVE  RoutineInv'
  BY <1>1, PassesAndRequests
<1>2. ASSUME NEW w \in Workers,
             \/ InsertRequested(w) \/ RefusePaused(w) \/ Claim(w) \/ StartRun(w) \/ MarkStarted(w)
             \/ SetLastRun(w) \/ \E made \in BOOLEAN : StartFails(w, made)
      PROVE  RoutineInv'
  BY <1>2, Attempts
<1>3. ASSUME NEW w \in Workers, AdvanceSchedule(w) PROVE RoutineInv'
  BY <1>3, ScheduleAdvances
<1>4. ASSUME NEW w \in Workers, AddScheduled(w) PROVE RoutineInv'
  BY <1>4, StartStored
<1>5. ASSUME NEW w \in Workers, WorkerCrash(w) PROVE RoutineInv'
  BY <1>5, WorkerDies
<1>6. ASSUME \E status \in {"active", "paused"}, calendar \in BOOLEAN : ChangeRoutine(status, calendar)
      PROVE  RoutineInv'
  BY <1>6, OwnerChanges
<1>7. ASSUME \/ TimePasses \/ UNCHANGED routineVars
             \/ \E d \in DeliveryIds : RunEnds(d) \/ RunRetried(d) \/ LeaseOutlived(d)
      PROVE  RoutineInv'
  BY <1>7, SurroundingsMove
<1> QED BY <1>1, <1>2, <1>3, <1>4, <1>5, <1>6, <1>7 DEF RoutinesNext

\* Every start the schedule has come to is accounted for once: delivered or counted as missed,
\* waiting, in a worker's hands, or given up, for any number of workers taking and losing them.
THEOREM EveryStartAccountedFor == RoutinesSpec => []StartsAccountedFor
<1>1. RoutinesSpec => []RoutineInv
  BY RoutineStart, RoutineStep, PTL DEF RoutinesSpec
<1>2. RoutineInv => StartsAccountedFor
  BY AccountedIs DEF RoutineInv
<1> QED BY <1>1, <1>2, PTL
=============================================================================
