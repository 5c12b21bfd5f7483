------------------------ MODULE TaskScheduler_proofs ------------------------
(* Proofs about TaskScheduler for every plan, every number of workers and any bounds. *)
EXTENDS TaskScheduler, TLAPS

-----------------------------------------------------------------------------
(* The plan *)

Nodes == [Tasks -> [status : TaskStatuses, attempt : Nat]]

\* A task that is neither planned nor cancelled has its dependencies behind it.
OpenIsCleared(nodes) ==
    \A t \in Tasks : nodes[t].status \notin {"planned", "cancelled"} => DependenciesSucceeded(nodes, t)

\* A step of the plan adds at most the success of one running task and loses none.
Grows(old, new, t) ==
    /\ new \in Nodes /\ OpenIsCleared(new)
    /\ \A u \in Tasks \ {t} : new[u].status = "succeeded" <=> old[u].status = "succeeded"
    /\ old[t].status = "succeeded" => new[t].status = "succeeded"
    /\ new[t].status = "succeeded" => old[t].status \in {"running", "succeeded"}

LEMMA TableFacts ==
    ASSUME NEW from, NEW transition, NEW to, <<from, transition, to>> \in Table
    PROVE  /\ to \in TaskStatuses \ {"planned"} /\ from \notin {"succeeded", "cancelled"}
           /\ to = "succeeded" => from = "running"
           /\ from = "planned" => transition = "start" \/ to = "cancelled"
BY DEF Table, TaskStatuses, Suspended

LEMMA TransitionedFacts ==
    ASSUME NEW nodes \in Nodes, OpenIsCleared(nodes), NEW t \in Tasks, NEW transition,
           CanMove(nodes, t, transition)
    PROVE  Grows(nodes, Transitioned(nodes, t, transition), t)
<1> DEFINE to == CHOOSE s \in TaskStatuses : <<nodes[t].status, transition, s>> \in Table
           new == Transitioned(nodes, t, transition)
<1>1. to \in TaskStatuses /\ <<nodes[t].status, transition, to>> \in Table
  BY DEF CanMove
<1>2. /\ to # "planned" /\ nodes[t].status \notin {"succeeded", "cancelled"}
      /\ to = "succeeded" => nodes[t].status = "running"
      /\ nodes[t].status = "planned" => transition = "start" \/ to = "cancelled"
  BY <1>1, TableFacts
<1>3. /\ new \in Nodes /\ new[t].status = to
      /\ \A u \in Tasks \ {t} : new[u] = nodes[u]
  <2> HIDE DEF to
  <2>1. new = [nodes EXCEPT ![t] = [status |-> to,
                 attempt |-> IF transition = "retry" THEN nodes[t].attempt + 1 ELSE nodes[t].attempt]]
    BY DEF Transitioned, to
  <2>2. nodes[t].attempt \in Nat
    BY DEF Nodes
  <2> QED BY <1>1, <2>1, <2>2 DEF Nodes
<1> HIDE DEF to, new
<1>4. ASSUME NEW u \in Tasks, DependenciesSucceeded(nodes, u) PROVE DependenciesSucceeded(new, u)
  <2>1. \A d \in DependsOn[u] : d \in Tasks /\ d # t
    BY <1>2, <1>4, PlanAssumption DEF DependenciesSucceeded
  <2> QED BY <1>3, <1>4, <2>1 DEF DependenciesSucceeded
<1>5. OpenIsCleared(new)
  <2>1. transition = "start" => DependenciesSucceeded(nodes, t)
    BY DEF CanMove
  <2>2. to # "cancelled" => DependenciesSucceeded(nodes, t)
    BY <1>2, <2>1 DEF OpenIsCleared
  <2> QED BY <1>3, <1>4, <2>2 DEF OpenIsCleared
<1>6. Grows(nodes, new, t)
  BY <1>2, <1>3, <1>5 DEF Grows
<1> QED BY <1>6 DEF new

LEMMA RefreshFacts ==
    ASSUME NEW nodes \in Nodes, OpenIsCleared(nodes)
    PROVE  /\ RefreshReady(nodes) \in Nodes /\ OpenIsCleared(RefreshReady(nodes))
           /\ \A u \in Tasks : RefreshReady(nodes)[u].status = "succeeded"
                                   <=> nodes[u].status = "succeeded"
<1> DEFINE new == RefreshReady(nodes)
<1>1. \A u \in Tasks : /\ nodes[u].status \in TaskStatuses /\ nodes[u].attempt \in Nat
                       /\ [nodes[u] EXCEPT !.status = "ready"] =
                              [status |-> "ready", attempt |-> nodes[u].attempt]
  BY DEF Nodes
<1>2. new \in Nodes
  BY <1>1 DEF RefreshReady, Nodes, TaskStatuses
<1>3. \A u \in Tasks : \/ new[u] = nodes[u]
                       \/ /\ nodes[u].status = "planned" /\ DependenciesSucceeded(nodes, u)
                          /\ new[u].status = "ready"
  BY <1>1 DEF RefreshReady
<1> HIDE DEF new
<1>4. \A u \in Tasks : new[u].status = "succeeded" <=> nodes[u].status = "succeeded"
  BY <1>3
<1>5. \A u \in Tasks : DependenciesSucceeded(new, u) <=> DependenciesSucceeded(nodes, u)
  BY <1>4, PlanAssumption DEF DependenciesSucceeded
<1>6. OpenIsCleared(new)
  BY <1>3, <1>5 DEF OpenIsCleared
<1> QED BY <1>2, <1>4, <1>6 DEF new

LEMMA MovedFacts ==
    ASSUME NEW nodes \in Nodes, OpenIsCleared(nodes), NEW t \in Tasks, NEW transition,
           CanMove(nodes, t, transition)
    PROVE  Grows(nodes, Moved(nodes, t, transition), t)
<1> DEFINE mid == Transitioned(nodes, t, transition)
<1>1. Grows(nodes, mid, t)
  BY TransitionedFacts
<1>2. Moved(nodes, t, transition) = RefreshReady(mid)
  BY DEF Moved
<1> HIDE DEF mid
<1>3. /\ RefreshReady(mid) \in Nodes /\ OpenIsCleared(RefreshReady(mid))
      /\ \A u \in Tasks : RefreshReady(mid)[u].status = "succeeded" <=> mid[u].status = "succeeded"
  BY <1>1, RefreshFacts DEF Grows
<1> QED BY <1>1, <1>2, <1>3 DEF Grows

\* What a Run reports is a move of its task, or nothing.
LEMMA ReportedFacts ==
    ASSUME NEW nodes \in Nodes, OpenIsCleared(nodes), NEW t \in Tasks, NEW transition,
           Accepts(nodes, t, transition)
    PROVE  Grows(nodes, Reported(nodes, t, transition), t)
<1>1. CASE Redundant(nodes, t, transition)
  BY <1>1 DEF Reported, Grows
<1>2. CASE ~Redundant(nodes, t, transition)
  BY <1>2, MovedFacts DEF Reported, Accepts
<1> QED BY <1>1, <1>2

\* syncDomainState sends known transitions.
LEMMA SyncStepsType ==
    ASSUME NEW runStatus, NEW status PROVE SyncSteps(runStatus, status) \in Seq(Transitions)
<1>1. \A transition \in Transitions : <<transition>> \in Seq(Transitions)
  OBVIOUS
<1>2. {"retry", "start", "cancel", "fail", "mark_unknown", "wait", "succeed"} \subseteq Transitions
  BY DEF Transitions
<1>3. /\ <<"retry">> \in Seq(Transitions) /\ <<"start">> \in Seq(Transitions)
      /\ <<"cancel">> \in Seq(Transitions) /\ <<"fail">> \in Seq(Transitions)
      /\ <<"mark_unknown">> \in Seq(Transitions) /\ <<"wait">> \in Seq(Transitions)
      /\ <<"succeed">> \in Seq(Transitions) /\ <<>> \in Seq(Transitions)
  BY <1>1, <1>2
<1>4. Reopened(status) \in Seq(Transitions)
  BY <1>3 DEF Reopened
<1>5. runStatus \in DOMAIN LastReport => LastReport[runStatus] \in Seq(Transitions)
  <2>1. DOMAIN LastReport = {"failed", "unknown", "needs_input", "running", "reviewing", "succeeded"}
    BY DEF LastReport
  <2>2. /\ LastReport.failed = <<"fail">> /\ LastReport.unknown = <<"mark_unknown">>
        /\ LastReport.needs_input = <<"wait">> /\ LastReport.running = <<>>
        /\ LastReport.reviewing = <<>> /\ LastReport.succeeded = <<"succeed">>
    BY DEF LastReport
  <2> QED BY <1>3, <2>1, <2>2
<1>6. ASSUME runStatus \in DOMAIN LastReport
      PROVE  Reopened(status) \o <<"start">> \o LastReport[runStatus] \in Seq(Transitions)
  <2>1. Reopened(status) \o <<"start">> \in Seq(Transitions)
    BY <1>3, <1>4
  <2> QED BY <1>5, <1>6, <2>1
<1> QED BY <1>3, <1>6 DEF SyncSteps

-----------------------------------------------------------------------------
(* What a worker remembers *)

\* A status about to be copied to the ledger is one of the ledger's, and a worker
\* that sends transitions has one to send.
GoodJob(j) ==
    /\ j \in Jobs
    /\ j.pc \in {"record", "ack"} => j.seen \in DispatchStates
    /\ j.pc = "apply" => j.todo # <<>>

GoodTick(k) == k \in Ticks /\ (k.pc = "apply" => k.todo # <<>>)

\* A Run is there, or about to be, only for a task whose dependencies have succeeded,
\* and only a Run that is there has a runner at work.
RunsAreCleared ==
    /\ \A t \in Tasks : Status(t) # "absent" => DependenciesSucceeded(node, t)
    /\ \A w \in Workers : At(w, "insert") => DependenciesSucceeded(node, job[w].task)

RunnersHaveRuns == \A t \in Tasks : tick[t].pc # "idle" => Status(t) # "absent"

IInv ==
    /\ TypeOK
    /\ \A w \in Workers : GoodJob(job[w])
    /\ \A t \in Tasks : GoodTick(tick[t])
    /\ OpenIsCleared(node) /\ RunsAreCleared /\ RunnersHaveRuns

LEMMA TaskOne == 1 \in Tasks
BY PlanAssumption DEF Tasks

LEMMA NoJobGood == GoodJob(NoJob) /\ NoJob.pc = "idle" /\ NoJob.task = 1
BY TaskOne DEF NoJob, GoodJob, Jobs, PCs, Unread, Readings, DispatchStates

LEMMA RestingGood ==
    ASSUME NEW j \in Jobs
    PROVE  GoodJob(Resting(j)) /\ Resting(j).pc \in {"idle", "loop", "sweep"}
<1> DEFINE left == j.missing \cup j.queue
           p == IF left = {} THEN "sweep" ELSE "loop"
           ready == [t \in Tasks |-> IF t \in left THEN j.ready[t] ELSE 0]
           half == [NoJob EXCEPT !.pc = p, !.sweep = j.sweep, !.missing = j.missing]
           new == [half EXCEPT !.queue = j.queue, !.ready = ready]
<1>1. /\ j.missing \in SUBSET Tasks /\ j.queue \in SUBSET Tasks /\ j.sweep \in BOOLEAN
      /\ j.ready \in [Tasks -> Nat]
  BY DEF Jobs
<1>2. ready \in [Tasks -> Nat] /\ p \in {"sweep", "loop"} /\ p \in PCs
  BY <1>1 DEF PCs
<1> HIDE DEF ready, p
<1>3. half \in Jobs /\ half.pc = p
  BY <1>1, <1>2, NoJobGood DEF GoodJob, Jobs
<1> HIDE DEF half
<1>4. new \in Jobs /\ new.pc = p
  BY <1>1, <1>2, <1>3 DEF Jobs
<1>5. Resting(j) = NoJob \/ Resting(j) = new
  BY DEF Resting, half, p, ready
<1> QED BY <1>2, <1>4, <1>5, NoJobGood DEF GoodJob

LEMMA GlimpseType == ASSUME TypeOK, NEW t \in Tasks PROVE Glimpse(t) \in DispatchStates
BY DEF TypeOK, Runs, Glimpse, Status, StateForRun, DispatchStates, RunStatuses, Terminal

LEMMA ReadTypes ==
    ASSUME TypeOK
    PROVE  /\ ReadyTasks \in SUBSET Tasks /\ ReadyNodes \in [Tasks -> Nat]
           /\ \A ready \in [Tasks -> Nat] : Reread(ready) \in [Tasks -> Nat]
           /\ Page \in [Tasks -> Readings]
<1>1. \A ready \in [Tasks -> Nat] : Reread(ready) \in [Tasks -> Nat]
  BY DEF TypeOK, Reread
<1>2. Page \in [Tasks -> Readings]
  BY DEF TypeOK, Page, Records, Readings
<1> QED BY <1>1, <1>2 DEF ReadyTasks, ReadyNodes

-----------------------------------------------------------------------------
(* A worker's step *)

\* It leaves a good job, and is about to insert a Run only for a task whose
\* dependencies have succeeded.
StepsJob(w) ==
    \E j : /\ Become(w, j) /\ GoodJob(j)
           /\ j.pc = "insert" => DependenciesSucceeded(node, j.task)

LEMMA GotoGood ==
    ASSUME NEW j \in Jobs, NEW p \in PCs \ {"record", "ack", "apply"}
    PROVE  GoodJob([j EXCEPT !.pc = p]) /\ [j EXCEPT !.pc = p].pc = p
BY DEF GoodJob, Jobs

LEMMA SeeingGood ==
    ASSUME NEW j \in Jobs, NEW p \in PCs \ {"apply"}, NEW s \in DispatchStates
    PROVE  LET k == [j EXCEPT !.pc = p, !.seen = s] IN GoodJob(k) /\ k.pc = p
BY DEF GoodJob, Jobs

\* Where a worker goes on with what it has in hand, looks at the Run, or is done.
LEMMA PlainSteps ==
    ASSUME IInv, NEW w \in Workers
    PROVE  /\ \A p \in PCs \ {"record", "ack", "apply", "insert"} : Goto(w, p) => StepsJob(w)
           /\ \A p \in PCs \ {"apply", "insert"} : Seeing(w, p) => StepsJob(w)
           /\ Rest(w) => StepsJob(w)
           /\ Abort(w) => StepsJob(w)
<1>1. job[w] \in Jobs /\ job[w].task \in Tasks
  BY DEF IInv, GoodJob, Jobs
<1>2. \A p \in PCs \ {"record", "ack", "apply", "insert"} : Goto(w, p) => StepsJob(w)
  BY <1>1, GotoGood DEF Goto, StepsJob
<1>3. ASSUME NEW p \in PCs \ {"apply", "insert"}, Seeing(w, p) PROVE StepsJob(w)
  <2> DEFINE s == Glimpse(job[w].task)
             j == [job[w] EXCEPT !.pc = p, !.seen = s]
  <2>1. s \in DispatchStates
    BY <1>1, GlimpseType DEF IInv
  <2>2. GoodJob(j) /\ j.pc = p
    BY <1>1, <2>1, SeeingGood
  <2>3. Become(w, j)
    BY <1>3 DEF Seeing
  <2> HIDE DEF j
  <2> QED BY <2>2, <2>3 DEF StepsJob
<1>4. Rest(w) => StepsJob(w)
  BY <1>1, RestingGood DEF Rest, StepsJob
<1>5. Abort(w) => StepsJob(w)
  BY NoJobGood DEF Abort, StepsJob
<1> QED BY <1>2, <1>3, <1>4, <1>5

LEMMA ReturnSteps ==
    ASSUME IInv, NEW w \in Workers, NEW j \in Jobs, Return(w, j)
    PROVE  StepsJob(w)
<1> DEFINE scan == [j EXCEPT !.pc = "scan", !.task = 1, !.seen = "absent"]
           there == [j EXCEPT !.pc = j.ret]
<1>1. \/ Become(w, Resting(j)) \/ Become(w, scan)
      \/ Become(w, there) /\ j.ret \in {"decide", "decideReady"}
  BY DEF Return, Jobs
<1>2. GoodJob(scan) /\ scan.pc = "scan"
  BY TaskOne DEF GoodJob, Jobs, PCs, DispatchStates
<1>3. ASSUME j.ret \in {"decide", "decideReady"}
      PROVE  GoodJob(there) /\ there.pc = j.ret
  BY <1>3, GotoGood DEF PCs
<1> HIDE DEF scan, there
<1> QED BY <1>1, <1>2, <1>3, RestingGood DEF StepsJob

LEMMA ScanSteps ==
    ASSUME IInv, NEW w \in Workers, NEW t \in Tasks, ScanRecord(w, t)
    PROVE  StepsJob(w)
<1> DEFINE rec == job[w].page[t]
           page == [job[w].page EXCEPT ![t] = Unread]
           saw == job[w].saw \/ rec.state = "succeeded"
           half == [job[w] EXCEPT !.page[t] = Unread, !.saw = @ \/ rec.state = "succeeded"]
           rest == [half EXCEPT !.task = t, !.ret = "scan"]
<1>1. job[w] \in Jobs /\ job[w].pc = "scan" /\ TypeOK
  BY DEF ScanRecord, At, IInv, GoodJob
<1>2. rest \in Jobs /\ rest.pc = "scan"
  <2>1. page \in [Tasks -> Readings] /\ saw \in BOOLEAN
    BY <1>1 DEF Jobs, Unread, Readings, DispatchStates
  <2>2. half = [job[w] EXCEPT !.page = page, !.saw = saw]
    OBVIOUS
  <2> HIDE DEF page, saw, half
  <2>3. half \in Jobs /\ half.pc = "scan"
    BY <1>1, <2>1, <2>2 DEF Jobs
  <2> QED BY <2>3 DEF Jobs
<1>3. rest = [job[w] EXCEPT !.page[t] = Unread, !.saw = @ \/ rec.state = "succeeded",
                            !.task = t, !.ret = "scan"]
  OBVIOUS
<1>4. \/ Become(w, rest)
      \/ Become(w, [rest EXCEPT !.missing = rest.missing \cup {t}])
      \/ Become(w, [rest EXCEPT !.pc = "observe"]) \/ Become(w, [rest EXCEPT !.pc = "requeue"])
      \/ Become(w, [rest EXCEPT !.pc = "record", !.seen = Glimpse(t)])
  BY <1>3 DEF ScanRecord
<1> HIDE DEF rest
<1>5. GoodJob(rest)
  BY <1>2 DEF GoodJob
<1>6. LET k == [rest EXCEPT !.missing = rest.missing \cup {t}] IN GoodJob(k) /\ k.pc = "scan"
  <2>1. rest.missing \cup {t} \in SUBSET Tasks
    BY <1>2 DEF Jobs
  <2> QED BY <1>2, <2>1 DEF GoodJob, Jobs
<1>7. \A p \in {"observe", "requeue"} : LET k == [rest EXCEPT !.pc = p] IN GoodJob(k) /\ k.pc = p
  BY <1>2, GotoGood DEF PCs
<1>8. LET k == [rest EXCEPT !.pc = "record", !.seen = Glimpse(t)] IN GoodJob(k) /\ k.pc = "record"
  <2>1. "record" \in PCs \ {"apply"}
    BY DEF PCs
  <2> QED BY <1>1, <1>2, <2>1, SeeingGood, GlimpseType
<1> QED BY <1>2, <1>4, <1>5, <1>6, <1>7, <1>8 DEF StepsJob

LEMMA EndScanSteps ==
    ASSUME IInv, NEW w \in Workers, EndScan(w)
    PROVE  StepsJob(w)
<1> DEFINE queue == IF job[w].saw THEN ReadyTasks ELSE {}
           missing == job[w].missing \cap ReadyTasks
           j == [job[w] EXCEPT !.ready = ReadyNodes, !.missing = missing, !.queue = queue]
<1>1. job[w] \in Jobs /\ ReadyNodes \in [Tasks -> Nat]
      /\ queue \in SUBSET Tasks /\ missing \in SUBSET Tasks
  BY ReadTypes DEF IInv, GoodJob
<1>2. Become(w, Resting(j))
  BY DEF EndScan
<1> HIDE DEF queue, missing
<1>3. j \in Jobs
  BY <1>1 DEF Jobs
<1> QED BY <1>2, <1>3, RestingGood DEF StepsJob

LEMMA RecordSteps ==
    ASSUME IInv, NEW w \in Workers, Record(w)
    PROVE  StepsJob(w)
<1> DEFINE saw == job[w].saw \/ job[w].seen = "succeeded"
           j == [job[w] EXCEPT !.saw = saw]
<1>1. job[w] \in Jobs
  BY DEF IInv, GoodJob
<1>2. j \in Jobs
  <2>1. saw \in BOOLEAN
    BY <1>1 DEF Jobs
  <2> QED BY <1>1, <2>1 DEF Jobs
<1>3. Goto(w, "unlock") \/ Return(w, j)
  BY DEF Record
<1> HIDE DEF j
<1> QED BY <1>2, <1>3, ReturnSteps, PlainSteps DEF PCs

LEMMA UnlockSteps ==
    ASSUME IInv, NEW w \in Workers, Unlock(w)
    PROVE  StepsJob(w)
<1> DEFINE ready == Reread(job[w].ready)
           queue == job[w].queue \cup ReadyTasks
           j == [job[w] EXCEPT !.ready = ready, !.queue = queue]
<1>1. job[w] \in Jobs /\ ready \in [Tasks -> Nat] /\ queue \in SUBSET Tasks
  BY ReadTypes DEF IInv, GoodJob, Jobs
<1>2. Become(w, Resting(j))
  BY DEF Unlock
<1> HIDE DEF ready, queue
<1>3. j \in Jobs
  BY <1>1 DEF Jobs
<1> QED BY <1>2, <1>3, RestingGood DEF StepsJob

LEMMA ReserveSteps ==
    ASSUME IInv, NEW w \in Workers, NEW t \in Tasks, Reserve(w, t)
    PROVE  StepsJob(w)
<1> DEFINE missing == job[w].missing \ {t}
           queue == IF t \in job[w].missing THEN job[w].queue ELSE job[w].queue \ {t}
           half == [job[w] EXCEPT !.task = t, !.ret = "loop"]
           rest == [half EXCEPT !.missing = missing, !.queue = queue]
           redo == [rest EXCEPT !.pc = "command", !.act = "redo"]
<1>1. job[w] \in Jobs /\ missing \in SUBSET Tasks /\ queue \in SUBSET Tasks
  BY DEF IInv, GoodJob, Jobs
<1>2. rest = [job[w] EXCEPT !.task = t, !.ret = "loop", !.missing = @ \ {t},
                            !.queue = IF t \in job[w].missing THEN @ ELSE @ \ {t}]
  BY <1>1 DEF Jobs
<1>3. \/ Become(w, [rest EXCEPT !.pc = "lease"]) \/ Become(w, [rest EXCEPT !.pc = "observe"])
      \/ Become(w, redo) \/ Become(w, Resting(rest))
  BY <1>2 DEF Reserve
<1>4. rest \in Jobs
  <2> HIDE DEF missing, queue, half
  <2>1. half \in Jobs
    BY <1>1 DEF Jobs, half
  <2> QED BY <1>1, <2>1 DEF Jobs
<1> HIDE DEF rest
<1>5. \A p \in {"lease", "observe"} : LET k == [rest EXCEPT !.pc = p] IN GoodJob(k) /\ k.pc = p
  BY <1>4, GotoGood DEF PCs
<1>6. GoodJob(redo) /\ redo.pc = "command"
  BY <1>4 DEF GoodJob, Jobs, PCs
<1> QED BY <1>3, <1>4, <1>5, <1>6, RestingGood DEF StepsJob

\* Only a task whose dependencies have succeeded gets as far as its insertion.
LEMMA CreateSteps ==
    ASSUME IInv, NEW w \in Workers, Create(w)
    PROVE  StepsJob(w)
<1>1. job[w] \in Jobs
  BY DEF IInv, GoodJob
<1>2. \/ Seeing(w, "signal") \/ Goto(w, "release")
      \/ DependenciesSucceeded(node, job[w].task) /\ Goto(w, "insert")
  BY DEF Create
<1>3. ASSUME DependenciesSucceeded(node, job[w].task), Goto(w, "insert") PROVE StepsJob(w)
  <2> DEFINE j == [job[w] EXCEPT !.pc = "insert"]
  <2>1. GoodJob(j) /\ j.task = job[w].task
    BY <1>1 DEF GoodJob, Jobs, PCs
  <2>2. Become(w, j)
    BY <1>3 DEF Goto
  <2> HIDE DEF j
  <2> QED BY <1>3, <2>1, <2>2 DEF StepsJob
<1> QED BY <1>2, <1>3, PlainSteps DEF PCs

LEMMA InsertSteps ==
    ASSUME IInv, NEW w \in Workers, Insert(w)
    PROVE  StepsJob(w)
<1> DEFINE j == [job[w] EXCEPT !.pc = "signal", !.seen = "dispatched"]
<1>1. job[w] \in Jobs
  BY DEF IInv, GoodJob
<1>2. Become(w, j) \/ Seeing(w, "signal")
  BY DEF Insert
<1>3. GoodJob(j) /\ j.pc = "signal"
  BY <1>1, SeeingGood DEF PCs, DispatchStates
<1> HIDE DEF j
<1> QED BY <1>2, <1>3, PlainSteps DEF PCs, StepsJob

\* The Run a command leaves behind is well formed, and there was one before.
LEMMA AfterType ==
    ASSUME NEW r \in Runs, NEW act, NEW after \in After(r, act)
    PROVE  after \in Runs /\ after.status # "absent" /\ r.status # "absent"
<1>1. /\ r.status \in RunStatuses \cup {"absent"} /\ r.resume \in RunStatuses /\ r.stage \in Stages
      /\ r.partial \in BOOLEAN /\ r.revived \in Nat
  BY DEF Runs
<1>2. /\ {"paused", "cancelled", "running"} \subseteq RunStatuses /\ "absent" \notin RunStatuses
      /\ Runnable \subseteq RunStatuses
  BY DEF RunStatuses, Wakeable, Runnable, Terminal
<1>3. \A status \in RunStatuses : LET k == [r EXCEPT !.status = status] IN
          k \in Runs /\ k.status = status
  BY <1>1 DEF Runs
<1>4. \A status, resume \in RunStatuses : LET k == [r EXCEPT !.status = status, !.resume = resume] IN
          k \in Runs /\ k.status = status
  BY <1>1 DEF Runs
<1>5. Revived(r) \in Runs /\ Revived(r).status # "absent"
  <2>1. Restarted(r.stage) \in RunStatuses
    BY DEF Restarted, RunStatuses, Wakeable, Runnable
  <2> DEFINE n == r.revived + 1
             status == Restarted(r.stage)
             k == [r EXCEPT !.status = status, !.revived = n]
  <2>2. n \in Nat
    BY <1>1
  <2>3. Revived(r) = k
    BY DEF Revived
  <2> HIDE DEF n, status
  <2>4. status \in RunStatuses
    BY <2>1 DEF status
  <2>5. k \in Runs /\ k.status = status
    BY <1>1, <2>2, <2>4 DEF Runs
  <2> HIDE DEF k
  <2> QED BY <1>2, <2>3, <2>4, <2>5
<1>6. r.status # "absent"
  BY DEF After, Runnable
<1>7. CASE after = Revived(r)
  BY <1>5, <1>6, <1>7
<1>8. CASE \E status \in RunStatuses : after = [r EXCEPT !.status = status]
  <2>1. PICK status \in RunStatuses : after = [r EXCEPT !.status = status]
    BY <1>8
  <2>2. after \in Runs /\ after.status = status
    BY <1>3, <2>1
  <2> QED BY <1>2, <1>6, <2>2
<1>9. CASE \E status, resume \in RunStatuses : after = [r EXCEPT !.status = status, !.resume = resume]
  <2>1. PICK status \in RunStatuses, resume \in RunStatuses :
            after = [r EXCEPT !.status = status, !.resume = resume]
    BY <1>9
  <2>2. after \in Runs /\ after.status = status
    BY <1>4, <2>1
  <2> QED BY <1>2, <1>6, <2>2
<1>10. \/ after = Revived(r)
       \/ \E status \in RunStatuses : after = [r EXCEPT !.status = status]
       \/ \E status, resume \in RunStatuses : after = [r EXCEPT !.status = status, !.resume = resume]
  BY <1>1, <1>2 DEF After
<1> QED BY <1>7, <1>8, <1>9, <1>10

LEMMA CommandSteps ==
    ASSUME IInv, NEW w \in Workers, Command(w)
    PROVE  StepsJob(w)
<1>1. job[w] \in Jobs /\ job[w].task \in Tasks /\ run[job[w].task] \in Runs
  BY DEF IInv, GoodJob, Jobs, TypeOK
<1>2. ASSUME NEW r \in After(run[job[w].task], job[w].act),
             Become(w, [job[w] EXCEPT !.pc = "sync", !.seen = r.status])
      PROVE  StepsJob(w)
  <2> DEFINE j == [job[w] EXCEPT !.pc = "sync", !.seen = r.status]
  <2>1. r.status \in RunStatuses
    BY <1>1, <1>2, AfterType DEF Runs
  <2>2. GoodJob(j) /\ j.pc = "sync"
    BY <1>1, <2>1 DEF GoodJob, Jobs, PCs
  <2> HIDE DEF j
  <2> QED BY <1>2, <2>2 DEF StepsJob, j
<1> QED BY <1>2, PlainSteps DEF Command

LEMMA ReportingSteps ==
    ASSUME IInv, NEW w \in Workers, NEW todo \in Seq(Transitions), Reporting(w, todo)
    PROVE  StepsJob(w)
<1> DEFINE p == CASE todo # <<>> -> "apply"
                  [] job[w].act \in {"retry", "redo"} -> "recount"
                  [] job[w].act \in {"pause", "cancel"} -> "observe"
                  [] OTHER -> "notify"
           j == [job[w] EXCEPT !.todo = todo, !.pc = p]
<1>1. job[w] \in Jobs
  BY DEF IInv, GoodJob
<1>2. p \in {"apply", "recount", "observe", "notify"} /\ (p = "apply" => todo # <<>>)
  OBVIOUS
<1>3. Become(w, j)
  BY DEF Reporting
<1> HIDE DEF p
<1>4. GoodJob(j) /\ j.pc = p
  BY <1>1, <1>2 DEF GoodJob, Jobs, PCs
<1> HIDE DEF j
<1> QED BY <1>2, <1>3, <1>4 DEF StepsJob

LEMMA CommandSyncSteps ==
    ASSUME IInv, NEW w \in Workers, CommandSync(w) \/ CommandApply(w)
    PROVE  StepsJob(w)
<1>1. CASE CommandSync(w)
  BY <1>1, SyncStepsType, ReportingSteps DEF CommandSync
<1>2. CASE CommandApply(w)
  <2>1. job[w].todo \in Seq(Transitions) /\ job[w].todo # <<>>
    BY <1>2 DEF CommandApply, At, IInv, GoodJob, Jobs
  <2>2. Tail(job[w].todo) \in Seq(Transitions)
    BY <2>1
  <2> QED BY <1>2, <2>2, ReportingSteps, PlainSteps DEF CommandApply
<1> QED BY <1>1, <1>2

LEMMA ScheduledGood ==
    ASSUME NEW t \in Tasks, NEW ready \in [Tasks -> Nat]
    PROVE  GoodJob(Scheduled(t, ready)) /\ Scheduled(t, ready).pc # "insert"
<1> DEFINE j == [NoJob EXCEPT !.ready = ready, !.queue = {t}]
<1>1. j \in Jobs
  BY NoJobGood DEF GoodJob, Jobs
<1>2. Scheduled(t, ready) = Resting(j)
  BY DEF Scheduled
<1> QED BY <1>1, <1>2, RestingGood

LEMMA DecideSteps ==
    ASSUME IInv, NEW w \in Workers, Decide(w)
    PROVE  StepsJob(w)
<1> DEFINE j == [job[w] EXCEPT !.pc = "notify", !.ret = "loop", !.act = "dispatch"]
<1>1. job[w] \in Jobs /\ job[w].task \in Tasks /\ job[w].ready \in [Tasks -> Nat]
  BY DEF IInv, GoodJob, Jobs
<1>2. Become(w, Scheduled(job[w].task, job[w].ready)) \/ Abort(w) \/ Become(w, j)
  BY DEF Decide
<1>3. GoodJob(j) /\ j.pc = "notify"
  BY <1>1 DEF GoodJob, Jobs, PCs
<1> HIDE DEF j
<1> QED BY <1>1, <1>2, <1>3, ScheduledGood, PlainSteps DEF StepsJob

LEMMA ScanningGood == ASSUME IInv PROVE GoodJob(Scanning) /\ Scanning.pc = "scan"
<1>1. Page \in [Tasks -> Readings]
  BY ReadTypes DEF IInv
<1> QED BY <1>1, NoJobGood DEF Scanning, GoodJob, Jobs, PCs

\* Every step of a call in progress, and of a crash.
LEMMA ScheduleSteps ==
    ASSUME IInv, NEW w \in Workers, ScheduleStep(w) \/ Crash(w)
    PROVE  StepsJob(w)
<1>1. job[w] \in Jobs
  BY DEF IInv, GoodJob
<1>2. CASE Crash(w) \/ Requeue(w) \/ Ack(w) \/ Release(w)
  BY <1>2, PlainSteps DEF Crash, Requeue, Ack, Release
<1>3. CASE Observe(w)
  BY <1>1, <1>3, PlainSteps, ReturnSteps DEF Observe, PCs
<1>4. CASE SweepAfter(w)
  BY <1>4, ScanningGood DEF SweepAfter, StepsJob
<1>5. CASE Lease(w) \/ Look(w) \/ Signal(w) \/ View(w) \/ Recount(w)
  <2>1. /\ {"look", "release", "view", "notify"} \subseteq PCs \ {"record", "ack", "apply", "insert"}
        /\ {"create", "signal", "ack"} \subseteq PCs \ {"apply", "insert"}
    BY DEF PCs
  <2> QED BY <1>5, <2>1, PlainSteps DEF Lease, Look, Signal, View, Recount
<1>6. CASE Notify(w)
  <2> DEFINE j == [job[w] EXCEPT !.pc = "observe"]
  <2>1. GoodJob(j) /\ j.pc = "observe"
    BY <1>1, GotoGood DEF PCs
  <2>2. Become(w, j) \/ Abort(w)
    BY <1>6 DEF Notify, Abort
  <2> HIDE DEF j
  <2> QED BY <2>1, <2>2, PlainSteps DEF StepsJob
<1> QED BY <1>2, <1>3, <1>4, <1>5, <1>6, ScanSteps, EndScanSteps, RecordSteps, UnlockSteps,
           ReserveSteps, CreateSteps, InsertSteps, CommandSteps, CommandSyncSteps, DecideSteps
        DEF ScheduleStep

LEMMA RequestSteps ==
    ASSUME IInv, NEW c \in Callers, Request(c)
    PROVE  StepsJob(c)
<1>1. NoJob \in Jobs /\ ReadyNodes \in [Tasks -> Nat] /\ ReadyTasks \in SUBSET Tasks
      /\ Reserved \subseteq Tasks
  BY NoJobGood, ReadTypes DEF GoodJob, IInv, Reserved
<1>2. CASE SchedulePlan(c)
  <2> DEFINE j == [NoJob EXCEPT !.ready = ReadyNodes, !.queue = ReadyTasks, !.sweep = TRUE]
  <2>1. j \in Jobs
    BY <1>1 DEF Jobs
  <2>2. Become(c, Resting(j))
    BY <1>2 DEF SchedulePlan, Begin
  <2> HIDE DEF j
  <2> QED BY <2>1, <2>2, RestingGood DEF StepsJob
<1>3. CASE ReconcilePlan(c)
  BY <1>3, ScanningGood DEF ReconcilePlan, Begin, StepsJob
<1>4. CASE \E t \in Tasks : ScheduleTask(c, t)
  <2>1. PICK t \in Tasks : ScheduleTask(c, t)
    BY <1>4
  <2> DEFINE j == [NoJob EXCEPT !.pc = "observe", !.task = t]
  <2>2. Become(c, Scheduled(t, ReadyNodes)) \/ Become(c, j)
    BY <2>1 DEF ScheduleTask, Begin
  <2>3. GoodJob(j) /\ j.pc = "observe"
    BY <1>1 DEF GoodJob, Jobs, PCs
  <2> HIDE DEF j
  <2> QED BY <1>1, <2>2, <2>3, ScheduledGood DEF StepsJob
<1>5. CASE \E t \in Tasks : ControlDispatch(c, t)
  <2>1. PICK t \in Tasks : ControlDispatch(c, t)
    BY <1>5
  <2> DEFINE ret == IF t \in ReadyTasks THEN "decideReady" ELSE "decide"
             half == [NoJob EXCEPT !.pc = "observe", !.task = t]
             j == [half EXCEPT !.ready = ReadyNodes, !.ret = ret]
  <2>2. Become(c, j)
    BY <2>1 DEF ControlDispatch, Begin
  <2>3. ret \in {"decide", "decideReady"}
    OBVIOUS
  <2> HIDE DEF ret, half
  <2>4. half \in Jobs /\ half.pc = "observe"
    BY <1>1 DEF Jobs, PCs, half
  <2>5. GoodJob(j) /\ j.pc = "observe"
    BY <1>1, <2>3, <2>4 DEF GoodJob, Jobs
  <2> HIDE DEF j
  <2> QED BY <2>2, <2>5 DEF StepsJob
<1>6. CASE \E t \in Tasks, act \in Commands \cap Requests : Control(c, t, act)
  <2>1. PICK t \in Tasks, act \in Commands : Control(c, t, act)
    BY <1>6
  <2> DEFINE j == [NoJob EXCEPT !.pc = "command", !.task = t, !.act = act]
  <2>2. Become(c, j)
    BY <2>1 DEF Control, Begin
  <2>3. GoodJob(j) /\ j.pc = "command"
    BY <1>1 DEF GoodJob, Jobs, PCs
  <2> HIDE DEF j
  <2> QED BY <2>2, <2>3 DEF StepsJob
<1> QED BY <1>2, <1>3, <1>4, <1>5, <1>6 DEF Request

\* Whatever happens, each worker is left with a good job.
LEMMA JobsKept ==
    ASSUME IInv, [Next]_vars
    PROVE  /\ job' \in [Workers -> Jobs]
           /\ \A w \in Workers : /\ GoodJob(job'[w])
                                 /\ job'[w].pc = "insert" => DependenciesSucceeded(node, job'[w].task)
<1>1. /\ job \in [Workers -> Jobs]
      /\ \A w \in Workers : /\ GoodJob(job[w])
                            /\ job[w].pc = "insert" => DependenciesSucceeded(node, job[w].task)
  BY DEF IInv, TypeOK, RunsAreCleared, At
<1>2. CASE UNCHANGED job
  BY <1>1, <1>2
<1>3. CASE \E w \in Workers : StepsJob(w)
  <2>6. PICK w \in Workers : StepsJob(w)
    BY <1>3
  <2>1. PICK j : /\ job' = [job EXCEPT ![w] = j] /\ GoodJob(j)
                 /\ j.pc = "insert" => DependenciesSucceeded(node, j.task)
    BY <2>6 DEF StepsJob, Become
  <2>2. j \in Jobs
    BY <2>1 DEF GoodJob
  <2>3. \A v \in Workers : job'[v] = IF v = w THEN j ELSE job[v]
    BY <1>1, <2>1
  <2>4. job' \in [Workers -> Jobs]
    BY <1>1, <2>1, <2>2
  <2>5. ASSUME NEW v \in Workers
        PROVE  /\ GoodJob(job'[v])
               /\ job'[v].pc = "insert" => DependenciesSucceeded(node, job'[v].task)
    BY <1>1, <2>1, <2>3
  <2> QED BY <2>4, <2>5
<1>4. CASE \E p \in Pumps : StartSweep(p)
  BY <1>3, <1>4, ScanningGood DEF StartSweep, StepsJob, Workers
<1>5. CASE \E w \in Workers : ScheduleStep(w) \/ Crash(w)
  BY <1>3, <1>5, ScheduleSteps
<1>6. CASE \E c \in Callers : Request(c)
  BY <1>3, <1>6, RequestSteps DEF Workers
<1>7. CASE \E t \in Tasks, transition \in OwnerMoves : TransitionTask(t, transition)
  BY <1>2, <1>7 DEF TransitionTask
<1>8. CASE \E t \in Tasks : Expire(t)
  BY <1>2, <1>8 DEF Expire
<1>9. CASE \E t \in Tasks : RunnerStep(t)
  BY <1>2, <1>9
     DEF RunnerStep, TickPlan, Plan, TickExecute, TickDone, TickReview, AnswerDiscarded, AnswerBad,
         AnswerStep, AnswerReview, TickRead, TickApply, TickRefused, Close, Throw, CrashRunner,
         Recover, stores
<1> QED BY <1>2, <1>4, <1>5, <1>6, <1>7, <1>8, <1>9 DEF Next, vars

-----------------------------------------------------------------------------
(* The ledger, the plan, the Runs and their runners *)

LEMMA LedgerKept == ASSUME IInv, [Next]_vars PROVE ledger' \in [Tasks -> Records]
<1> DEFINE Kept == ledger' \in [Tasks -> Records]
<1>1. /\ ledger \in [Tasks -> Records]
      /\ \A t \in Tasks : ledger[t] \in Records /\ node[t].attempt \in Nat
      /\ \A w \in Workers : job[w] \in Jobs /\ job[w].task \in Tasks /\ GoodJob(job[w])
  BY DEF IInv, TypeOK, GoodJob, Jobs
<1>2. \A t \in Tasks, rec \in Records : SetRecord(t, rec) => Kept
  BY <1>1 DEF SetRecord
<1>3. UNCHANGED ledger => Kept
  BY <1>1
<1>4. \A rec \in Records :
          /\ \A state \in DispatchStates : [rec EXCEPT !.state = state] \in Records
          /\ \A attempt \in Nat : [rec EXCEPT !.attempt = attempt] \in Records
          /\ \A state \in DispatchStates, attempt \in Nat :
                 [rec EXCEPT !.state = state, !.attempt = attempt] \in Records
          /\ [rec EXCEPT !.live = FALSE] \in Records
          /\ \A w \in Workers : [rec EXCEPT !.token = w, !.live = TRUE] \in Records
          /\ \A state \in DispatchStates :
                 [rec EXCEPT !.state = state, !.token = NoWorker, !.live = FALSE] \in Records
  BY DEF Records
<1>5. "queued" \in DispatchStates
  BY DEF DispatchStates
<1>6. ASSUME NEW w \in Workers, ScheduleStep(w) PROVE Kept
  <2>1. CASE Requeue(w)
    BY <1>1, <1>2, <1>4, <1>5, <2>1 DEF Requeue
  <2>2. CASE Record(w)
    BY <1>1, <1>2, <1>4, <2>2 DEF Record, At, GoodJob
  <2>3. CASE \E t \in Tasks : Reserve(w, t)
    <3>1. PICK t \in Tasks : Reserve(w, t)
      BY <2>3
    <3>2. job[w].ready[t] \in Nat
      BY <1>1 DEF Jobs
    <3> QED BY <1>1, <1>2, <1>3, <1>4, <1>5, <3>1, <3>2 DEF Reserve
  <2>4. CASE Lease(w)
    BY <1>1, <1>2, <1>3, <1>4, <2>4 DEF Lease
  <2>5. CASE Ack(w) \/ Release(w)
    BY <1>1, <1>2, <1>3, <1>4, <1>5, <2>5 DEF Ack, Release, Closed, At, GoodJob
  <2>6. CASE Recount(w)
    <3> DEFINE t == job[w].task
               attempt == IF job[w].act = "redo" THEN job[w].ready[t]
                          ELSE IF node[t].attempt > ledger[t].attempt THEN node[t].attempt
                          ELSE ledger[t].attempt
    <3>1. attempt \in Nat /\ t \in Tasks
      BY <1>1 DEF Jobs, Records
    <3>2. SetRecord(t, [ledger[t] EXCEPT !.attempt = attempt])
      BY <2>6 DEF Recount
    <3> HIDE DEF attempt, t
    <3> QED BY <1>1, <1>2, <1>4, <3>1, <3>2
  <2>7. CASE \/ \E t \in Tasks : ScanRecord(w, t)
             \/ EndScan(w) \/ Observe(w) \/ Unlock(w) \/ SweepAfter(w) \/ Look(w) \/ Create(w)
             \/ Insert(w) \/ Signal(w) \/ View(w) \/ Command(w) \/ CommandSync(w)
             \/ CommandApply(w) \/ Notify(w) \/ Decide(w)
    BY <1>3, <2>7
    DEF ScanRecord, EndScan, Observe, Unlock, SweepAfter, Look, Create, Insert, Signal,
                      View, Command, CommandSync, CommandApply, Notify, Decide, stores
  <2> QED BY <1>6, <2>1, <2>2, <2>3, <2>4, <2>5, <2>6, <2>7 DEF ScheduleStep
<1>7. CASE \E t \in Tasks : Expire(t)
  BY <1>1, <1>2, <1>4, <1>7 DEF Expire
<1>8. CASE \/ \E p \in Pumps : StartSweep(p)
           \/ \E w \in Workers : Crash(w)
           \/ \E t \in Tasks, transition \in OwnerMoves : TransitionTask(t, transition)
  BY <1>3, <1>8 DEF StartSweep, Crash, TransitionTask, stores
<1>9. CASE \E c \in Callers : Request(c)
  BY <1>3, <1>9 DEF Request, SchedulePlan, ReconcilePlan, ScheduleTask, Control, ControlDispatch,
                    Begin, stores
<1>10. CASE \E t \in Tasks : RunnerStep(t)
  BY <1>3, <1>10
     DEF RunnerStep, TickPlan, Plan, TickExecute, TickDone, TickReview, AnswerDiscarded, AnswerBad,
         AnswerStep, AnswerReview, TickRead, TickApply, TickRefused, Close, Throw, CrashRunner,
         Recover, stores
<1>11. CASE UNCHANGED vars
  BY <1>3, <1>11 DEF vars
<1> QED BY <1>6, <1>7, <1>8, <1>9, <1>10, <1>11 DEF Next

\* A step of the plan is a transition of one task and what becomes ready by it.
LEMMA NodeKept ==
    ASSUME IInv, [Next]_vars
    PROVE  \/ UNCHANGED node
           \/ UNCHANGED run /\ \E t \in Tasks : Grows(node, node', t)
<1> DEFINE Goal == \/ UNCHANGED node
                   \/ UNCHANGED run /\ \E t \in Tasks : Grows(node, node', t)
<1>1. node \in Nodes /\ OpenIsCleared(node)
  BY DEF IInv, TypeOK, Nodes
<1>2. \A w \in Workers : job[w].task \in Tasks
  BY DEF IInv, GoodJob, Jobs
<1>3. ASSUME NEW w \in Workers, ScheduleStep(w) PROVE Goal
  <2>1. CASE CommandApply(w)
    BY <1>1, <1>2, <2>1, ReportedFacts DEF CommandApply
  <2>2. CASE \/ \E t \in Tasks : ScanRecord(w, t) \/ Reserve(w, t)
             \/ Requeue(w) \/ EndScan(w) \/ Observe(w) \/ Record(w) \/ Unlock(w) \/ SweepAfter(w)
             \/ Lease(w) \/ Look(w) \/ Create(w) \/ Insert(w) \/ Signal(w) \/ View(w) \/ Ack(w)
             \/ Release(w) \/ Command(w) \/ CommandSync(w) \/ Recount(w) \/ Notify(w) \/ Decide(w)
    BY <2>2 DEF ScanRecord, Reserve, Requeue, EndScan, Observe, Record, Unlock, SweepAfter, Lease,
                Look, Create, Insert, Signal, View, Ack, Release, Command, CommandSync, Recount,
                Notify, Decide, stores
  <2> QED BY <1>3, <2>1, <2>2 DEF ScheduleStep
<1>4. CASE \E t \in Tasks, transition \in OwnerMoves : TransitionTask(t, transition)
  BY <1>1, <1>4, MovedFacts DEF TransitionTask
<1>5. CASE \/ \E p \in Pumps : StartSweep(p)
           \/ \E w \in Workers : Crash(w)
           \/ \E t \in Tasks : Expire(t)
  BY <1>5 DEF StartSweep, Crash, Expire, stores
<1>6. CASE \E c \in Callers : Request(c)
  BY <1>6 DEF Request, SchedulePlan, ReconcilePlan, ScheduleTask, Control, ControlDispatch,
              Begin, stores
<1>7. ASSUME NEW t \in Tasks, RunnerStep(t) PROVE Goal
  <2>1. CASE TickExecute(t) \/ TickApply(t)
    BY <1>1, <2>1, ReportedFacts DEF TickExecute, TickApply
  <2>2. CASE \/ TickPlan(t) \/ Plan(t) \/ TickDone(t) \/ TickReview(t) \/ AnswerDiscarded(t)
             \/ AnswerBad(t) \/ AnswerStep(t) \/ AnswerReview(t) \/ TickRead(t) \/ TickRefused(t)
             \/ Close(t) \/ Throw(t) \/ CrashRunner(t) \/ Recover(t)
    BY <2>2 DEF TickPlan, Plan, TickDone, TickReview, AnswerDiscarded, AnswerBad, AnswerStep,
                AnswerReview, TickRead, TickRefused, Close, Throw, CrashRunner, Recover, stores
  <2> QED BY <1>7, <2>1, <2>2 DEF RunnerStep
<1>8. CASE UNCHANGED vars
  BY <1>8 DEF vars
<1> QED BY <1>3, <1>4, <1>5, <1>6, <1>7, <1>8 DEF Next

\* A Run that is there, as the actions write it.
Present(r) == r \in Runs /\ r.status # "absent"

LEMMA RunFields ==
    ASSUME NEW r \in Runs, NEW s \in RunStatuses, NEW stage \in Stages, NEW b \in BOOLEAN
    PROVE  /\ Present([r EXCEPT !.status = s])
           /\ Present([r EXCEPT !.status = s, !.stage = stage])
           /\ Present([r EXCEPT !.status = s, !.partial = b])
           /\ Present(r) => Present([r EXCEPT !.stage = stage])
<1>1. "absent" \notin RunStatuses
  BY DEF RunStatuses, Wakeable, Runnable, Terminal
<1>2. Present([r EXCEPT !.status = s])
  BY <1>1 DEF Present, Runs
<1>3. Present([r EXCEPT !.status = s, !.stage = stage])
  BY <1>1 DEF Present, Runs
<1>4. Present([r EXCEPT !.status = s, !.partial = b])
  BY <1>1 DEF Present, Runs
<1>5. Present(r) => Present([r EXCEPT !.stage = stage])
  BY DEF Present, Runs
<1> QED BY <1>2, <1>3, <1>4, <1>5

\* A step changes at most one Run, and brings one into being only where the
\* dependencies have succeeded.
SetsRun(t) ==
    /\ UNCHANGED node
    /\ Status(t) # "absent" \/ DependenciesSucceeded(node, t)
    /\ \E r : Present(r) /\ SetRun(t, r)

LEMMA LandedType ==
    ASSUME TypeOK, NEW t \in Tasks, Status(t) # "absent", NEW s \in RunStatuses
    PROVE  /\ Present(run[t]) /\ Present(Landed(t, s))
           /\ \A stage \in Stages : Present([Landed(t, s) EXCEPT !.stage = stage])
<1>1. run[t] \in Runs /\ run[t].status # "absent" /\ "absent" \notin RunStatuses
  BY DEF TypeOK, Status, RunStatuses, Wakeable, Runnable, Terminal
<1>2. Present(run[t]) /\ Present(Landed(t, s))
  BY <1>1 DEF Landed, Runs, Present
<1>3. \A stage \in Stages : Present([Landed(t, s) EXCEPT !.stage = stage])
  BY <1>2 DEF Present, Runs
<1> QED BY <1>2, <1>3

LEMMA RunKept ==
    ASSUME IInv, [Next]_vars
    PROVE  UNCHANGED run \/ \E t \in Tasks : SetsRun(t)
<1> DEFINE Goal == UNCHANGED run \/ \E t \in Tasks : SetsRun(t)
<1>1. /\ TypeOK /\ \A t \in Tasks : run[t] \in Runs
      /\ \A w \in Workers : job[w].task \in Tasks
      /\ \A t \in Tasks : tick[t].pc # "idle" => Status(t) # "absent"
  BY DEF IInv, TypeOK, GoodJob, Jobs, RunnersHaveRuns
<1>2. /\ {"queued", "running", "needs_approval", "needs_input", "reviewing", "succeeded", "failed",
           "unknown"} \subseteq RunStatuses
      /\ "absent" \notin RunStatuses
  BY DEF RunStatuses, Wakeable, Runnable, Terminal
<1>4. {"planned", "done", "accepted"} \subseteq Stages
  BY DEF Stages
<1>5. ASSUME NEW w \in Workers, Insert(w) PROVE Goal
  <2> DEFINE t == job[w].task
             r == [run[t] EXCEPT !.status = "queued"]
  <2>1. CASE Status(t) = "absent"
    <3>1. At(w, "insert") /\ t \in Tasks /\ DependenciesSucceeded(node, t)
      BY <1>1, <1>5 DEF Insert, IInv, RunsAreCleared
    <3>2. SetRun(t, r) /\ UNCHANGED node
      BY <1>5, <2>1 DEF Insert
    <3>3. Present(r)
      BY <1>1, <1>2, <1>4, <3>1, RunFields
    <3> HIDE DEF r, t
    <3> QED BY <3>1, <3>2, <3>3 DEF SetsRun
  <2>2. CASE Status(t) # "absent"
    BY <1>5, <2>2 DEF Insert
  <2> QED BY <2>1, <2>2
<1>6. ASSUME NEW w \in Workers, Command(w) PROVE Goal
  <2>1. CASE UNCHANGED run
    BY <2>1
  <2>2. CASE \E r \in After(run[job[w].task], job[w].act) : SetRun(job[w].task, r)
    <3>1. PICK r \in After(run[job[w].task], job[w].act) : SetRun(job[w].task, r)
      BY <2>2
    <3>2. Present(r) /\ run[job[w].task].status # "absent"
      BY <1>1, AfterType DEF Present
    <3> QED BY <1>1, <1>6, <3>1, <3>2 DEF Command, SetsRun, Status
  <2> QED BY <1>6, <2>1, <2>2 DEF Command
<1>7. ASSUME NEW w \in Workers, ScheduleStep(w) PROVE Goal
  <2>1. CASE \/ \E t \in Tasks : ScanRecord(w, t) \/ Reserve(w, t)
             \/ Requeue(w) \/ EndScan(w) \/ Observe(w) \/ Record(w) \/ Unlock(w) \/ SweepAfter(w)
             \/ Lease(w) \/ Look(w) \/ Create(w) \/ Signal(w) \/ View(w) \/ Ack(w) \/ Release(w)
             \/ CommandSync(w) \/ CommandApply(w) \/ Recount(w) \/ Notify(w) \/ Decide(w)
    BY <2>1 DEF ScanRecord, Reserve, Requeue, EndScan, Observe, Record, Unlock, SweepAfter, Lease,
                Look, Create, Signal, View, Ack, Release, CommandSync, CommandApply, Recount,
                Notify, Decide, stores
  <2> QED BY <1>5, <1>6, <1>7, <2>1 DEF ScheduleStep
<1>8. CASE \/ \E p \in Pumps : StartSweep(p)
           \/ \E w \in Workers : Crash(w)
           \/ \E t \in Tasks, transition \in OwnerMoves : TransitionTask(t, transition)
           \/ \E t \in Tasks : Expire(t)
  BY <1>8 DEF StartSweep, Crash, TransitionTask, Expire, stores
<1>9. CASE \E c \in Callers : Request(c)
  BY <1>9 DEF Request, SchedulePlan, ReconcilePlan, ScheduleTask, Control, ControlDispatch,
              Begin, stores
<1>10. ASSUME NEW t \in Tasks, RunnerStep(t) PROVE Goal
  <2>1. ASSUME NEW r, SetRun(t, r), Present(r), Status(t) # "absent", UNCHANGED node
        PROVE  Goal
    BY <2>1 DEF SetsRun
  <2> DEFINE Known == {"running", "needs_approval", "needs_input", "reviewing", "succeeded",
                       "failed", "unknown"}
             Got == {"planned", "done", "accepted"}
  <2>2. ASSUME Status(t) # "absent"
        PROVE  \A s \in Known :
                   /\ Present([run[t] EXCEPT !.status = s]) /\ Present(Landed(t, s))
                   /\ Present([run[t] EXCEPT !.status = s, !.partial = TRUE])
                   /\ \A stage \in Got :
                         /\ Present([run[t] EXCEPT !.status = s, !.stage = stage])
                         /\ Present([run[t] EXCEPT !.stage = stage])
                         /\ Present([Landed(t, s) EXCEPT !.stage = stage])
    BY <1>1, <1>2, <1>4, <2>2, RunFields, LandedType
  <2>3. CASE Plan(t)
    BY <1>1, <2>1, <2>2, <2>3 DEF Plan
  <2>4. CASE TickDone(t)
    BY <1>1, <2>1, <2>2, <2>4 DEF TickDone
  <2>5. CASE AnswerBad(t)
    BY <1>1, <2>1, <2>2, <2>5 DEF AnswerBad
  <2>6. CASE AnswerStep(t)
    BY <1>1, <2>1, <2>2, <2>6 DEF AnswerStep
  <2>7. CASE AnswerReview(t)
    BY <1>1, <2>1, <2>2, <2>7 DEF AnswerReview
  <2>9. CASE Close(t) \/ Throw(t) \/ Recover(t)
    BY <1>1, <2>1, <2>2, <2>9 DEF Close, Throw, Recover
  <2>8. CASE \/ TickPlan(t) \/ TickExecute(t) \/ TickReview(t) \/ AnswerDiscarded(t) \/ TickRead(t)
             \/ TickApply(t) \/ TickRefused(t) \/ CrashRunner(t)
    BY <2>8
    DEF TickPlan, TickExecute, TickReview, AnswerDiscarded, TickRead, TickApply, TickRefused,
                CrashRunner, stores
  <2> QED BY <1>10, <2>3, <2>4, <2>5, <2>6, <2>7, <2>8, <2>9 DEF RunnerStep
<1>11. CASE UNCHANGED vars
  BY <1>11 DEF vars
<1> QED BY <1>7, <1>8, <1>9, <1>10, <1>11 DEF Next

\* What a runner's step leaves; it works only on a Run that is there.
StepsTick(t) ==
    \E k : /\ tick' = [tick EXCEPT ![t] = k] /\ GoodTick(k)
           /\ k.pc # "idle" => Status(t) # "absent"

LEMMA TickMoves ==
    ASSUME IInv, NEW t \in Tasks, Status(t) # "absent"
    PROVE  /\ \A p \in {"planned", "throw", "asking", "judging"} : TickGoto(t, p) => StepsTick(t)
           /\ \A mode \in {"trail", "review", "finish", "recover", "refinish"} :
                  TickSync(t, mode) => StepsTick(t)
           /\ \A todo \in Seq(Transitions) : TickReporting(t, todo) => StepsTick(t)
           /\ \A p \in {"idle", "throw", "down", "cutoff"} :
                  tick' = [tick EXCEPT ![t] = [NoTick EXCEPT !.pc = p]] => StepsTick(t)
           /\ tick' = [tick EXCEPT ![t] = NoTick] => StepsTick(t)
<1>1. tick \in [Tasks -> Ticks] /\ tick[t] \in Ticks
  BY DEF IInv, TypeOK
<1>2. ASSUME NEW p \in {"planned", "throw", "asking", "judging"}, TickGoto(t, p) PROVE StepsTick(t)
  <2> DEFINE k == [tick[t] EXCEPT !.pc = p]
  <2>1. GoodTick(k)
    BY <1>1 DEF GoodTick, Ticks
  <2>2. tick' = [tick EXCEPT ![t] = k]
    BY <1>2 DEF TickGoto
  <2> HIDE DEF k
  <2> QED BY <2>1, <2>2 DEF StepsTick
<1>3. ASSUME NEW mode \in {"trail", "review", "finish", "recover", "refinish"}
      PROVE  GoodTick(Syncing(mode))
  BY DEF GoodTick, Ticks, Syncing
<1>4. \A mode \in {"trail", "review", "finish", "recover", "refinish"} :
          TickSync(t, mode) => StepsTick(t)
  BY <1>3 DEF TickSync, StepsTick
<1>5. GoodTick(NoTick)
  BY DEF GoodTick, Ticks, NoTick
<1>6. ASSUME NEW p \in {"idle", "throw", "down", "cutoff"} PROVE GoodTick([NoTick EXCEPT !.pc = p])
  BY <1>5 DEF GoodTick, Ticks
<1>7. ASSUME NEW todo \in Seq(Transitions), TickReporting(t, todo) PROVE StepsTick(t)
  <2> DEFINE going == [tick[t] EXCEPT !.pc = "apply", !.todo = todo]
             closing == [tick[t] EXCEPT !.pc = "closing", !.todo = <<>>]
  <2>1. todo # <<>> => GoodTick(going)
    BY <1>1 DEF GoodTick, Ticks
  <2>2. GoodTick(closing)
    <3>1. <<>> \in Seq(Transitions)
      OBVIOUS
    <3> QED BY <1>1, <3>1 DEF GoodTick, Ticks
  <2>3. \/ todo # <<>> /\ tick' = [tick EXCEPT ![t] = going]
        \/ tick' = [tick EXCEPT ![t] = closing] \/ tick' = [tick EXCEPT ![t] = NoTick]
        \/ tick' = [tick EXCEPT ![t] = Syncing("trail")]
    BY <1>7 DEF TickReporting
  <2> HIDE DEF going, closing
  <2> QED BY <1>3, <1>5, <2>1, <2>2, <2>3 DEF StepsTick
<1>8. \A p \in {"idle", "throw", "down", "cutoff"} :
          tick' = [tick EXCEPT ![t] = [NoTick EXCEPT !.pc = p]] => StepsTick(t)
  BY <1>6 DEF StepsTick
<1> QED BY <1>2, <1>4, <1>5, <1>7, <1>8 DEF StepsTick

LEMMA RunnerSteps ==
    ASSUME IInv, NEW t \in Tasks, RunnerStep(t)
    PROVE  StepsTick(t)
<1>1. /\ tick[t] \in Ticks /\ GoodTick(tick[t])
      /\ tick[t].pc # "idle" => Status(t) # "absent"
      /\ tick[t].todo \in Seq(Transitions)
  BY DEF IInv, RunnersHaveRuns, TypeOK, Ticks
<1>2. Status(t) # "absent"
  BY <1>1
  DEF RunnerStep, TickPlan, Plan, TickExecute, TickDone, TickReview, AnswerDiscarded, AnswerBad,
              AnswerStep, AnswerReview, TickRead, TickApply, TickRefused, Close, Throw, CrashRunner,
              Recover
<1>3. CASE TickPlan(t) \/ Plan(t) \/ TickExecute(t) \/ TickDone(t) \/ TickReview(t)
  BY <1>2, <1>3, TickMoves DEF TickPlan, Plan, TickExecute, TickDone, TickReview
<1>4. CASE AnswerDiscarded(t) \/ AnswerBad(t) \/ AnswerStep(t) \/ AnswerReview(t)
  BY <1>2, <1>4, TickMoves DEF AnswerDiscarded, AnswerBad, AnswerStep, AnswerReview
<1>5. CASE TickRead(t)
  BY <1>2, <1>5, TickMoves, SyncStepsType DEF TickRead
<1>6. CASE TickApply(t)
  <2>1. Tail(tick[t].todo) \in Seq(Transitions)
    BY <1>1, <1>6 DEF TickApply, GoodTick
  <2> QED BY <1>2, <1>6, <2>1, TickMoves DEF TickApply
<1>7. CASE TickRefused(t)
  <2> DEFINE p == CASE tick[t].mode = "trail" -> "idle"
                    [] tick[t].mode \in {"finish", "review"} -> "throw"
                    [] OTHER -> "down"
  <2>1. p \in {"idle", "throw", "down", "cutoff"}
    OBVIOUS
  <2>2. tick' = [tick EXCEPT ![t] = [NoTick EXCEPT !.pc = p]]
    BY <1>7 DEF TickRefused
  <2> HIDE DEF p
  <2> QED BY <1>2, <2>1, <2>2, TickMoves
<1>8. CASE Close(t) \/ Throw(t) \/ Recover(t)
  BY <1>2, <1>8, TickMoves DEF Close, Throw, Recover
<1>9. CASE CrashRunner(t)
  <2> DEFINE p == IF tick[t].pc \in {"asking", "judging"} THEN "cutoff" ELSE "down"
  <2>1. p \in {"idle", "throw", "down", "cutoff"}
    OBVIOUS
  <2>2. tick' = [tick EXCEPT ![t] = [NoTick EXCEPT !.pc = p]]
    BY <1>9 DEF CrashRunner
  <2> HIDE DEF p
  <2> QED BY <1>2, <2>1, <2>2, TickMoves
<1> QED BY <1>3, <1>4, <1>5, <1>6, <1>7, <1>8, <1>9 DEF RunnerStep

LEMMA TickKept ==
    ASSUME IInv, [Next]_vars
    PROVE  /\ tick' \in [Tasks -> Ticks]
           /\ \A t \in Tasks : /\ GoodTick(tick'[t])
                               /\ tick'[t].pc # "idle" => Status(t) # "absent"
<1>1. /\ tick \in [Tasks -> Ticks]
      /\ \A t \in Tasks : GoodTick(tick[t]) /\ (tick[t].pc # "idle" => Status(t) # "absent")
  BY DEF IInv, TypeOK, RunnersHaveRuns
<1>2. CASE UNCHANGED tick
  BY <1>1, <1>2
<1>3. CASE \E t \in Tasks : StepsTick(t)
  <2>1. PICK t \in Tasks : StepsTick(t)
    BY <1>3
  <2>2. PICK k : /\ tick' = [tick EXCEPT ![t] = k] /\ GoodTick(k)
                 /\ k.pc # "idle" => Status(t) # "absent"
    BY <2>1 DEF StepsTick
  <2>3. k \in Ticks
    BY <2>2 DEF GoodTick
  <2>4. \A u \in Tasks : tick'[u] = IF u = t THEN k ELSE tick[u]
    BY <1>1, <2>2
  <2>5. tick' \in [Tasks -> Ticks]
    BY <1>1, <2>2, <2>3
  <2>6. ASSUME NEW u \in Tasks
        PROVE  GoodTick(tick'[u]) /\ (tick'[u].pc # "idle" => Status(u) # "absent")
    <3>1. CASE u = t
      BY <2>2, <2>4, <3>1
    <3>2. CASE u # t
      BY <1>1, <2>4, <3>2
    <3> QED BY <3>1, <3>2
  <2> QED BY <2>5, <2>6
<1>4. CASE \E t \in Tasks : RunnerStep(t)
  BY <1>3, <1>4, RunnerSteps
<1>5. ASSUME NEW w \in Workers, ScheduleStep(w) PROVE UNCHANGED tick
  <2>1. ASSUME NEW t \in Tasks, ScanRecord(w, t) \/ Reserve(w, t) PROVE UNCHANGED tick
    BY <2>1 DEF ScanRecord, Reserve
  <2>2. CASE \/ Requeue(w) \/ EndScan(w) \/ Observe(w) \/ Record(w) \/ Unlock(w) \/ SweepAfter(w)
             \/ Lease(w) \/ Look(w) \/ Create(w) \/ Insert(w) \/ Signal(w)
    BY <2>2 DEF Requeue, EndScan, Observe, Record, Unlock, SweepAfter, Lease, Look, Create, Insert,
                Signal
  <2>3. CASE \/ View(w) \/ Ack(w) \/ Release(w) \/ Command(w) \/ CommandSync(w) \/ CommandApply(w)
             \/ Recount(w) \/ Notify(w) \/ Decide(w)
    BY <2>3 DEF View, Ack, Release, Command, CommandSync, CommandApply, Recount, Notify, Decide
  <2> QED BY <1>5, <2>1, <2>2, <2>3 DEF ScheduleStep
<1>6. CASE \/ \E p \in Pumps : StartSweep(p)
           \/ \E w \in Workers : Crash(w)
           \/ \E t \in Tasks, transition \in OwnerMoves : TransitionTask(t, transition)
           \/ \E t \in Tasks : Expire(t)
  BY <1>2, <1>6 DEF StartSweep, Crash, TransitionTask, Expire
<1>7. CASE \E c \in Callers : Request(c)
  BY <1>2, <1>7 DEF Request, SchedulePlan, ReconcilePlan, ScheduleTask, Control, ControlDispatch,
                    Begin
<1>8. CASE UNCHANGED vars
  BY <1>2, <1>8 DEF vars
<1> QED BY <1>2, <1>4, <1>5, <1>6, <1>7, <1>8 DEF Next

LEMMA HistoryKept ==
    ASSUME IInv, [Next]_vars
    PROVE  /\ delivered' \subseteq Tasks /\ addressed' \subseteq Tasks
           /\ moves' \in Nat /\ faults' \in Nat /\ bad' \in Nat
<1> DEFINE Kept == /\ delivered' \subseteq Tasks /\ addressed' \subseteq Tasks
                   /\ moves' \in Nat /\ faults' \in Nat /\ bad' \in Nat
<1>1. /\ delivered \subseteq Tasks /\ addressed \subseteq Tasks
      /\ moves \in Nat /\ faults \in Nat /\ bad \in Nat
      /\ \A w \in Workers : job[w].task \in Tasks
  BY DEF IInv, TypeOK, GoodJob, Jobs
<1>2. ASSUME NEW w \in Workers, ScheduleStep(w) \/ Crash(w) PROVE Kept
  <2>1. CASE UNCHANGED <<delivered, counters>>
    BY <1>1, <2>1 DEF counters
  <2>2. ASSUME NEW t \in Tasks, ScanRecord(w, t) PROVE Kept
    <3>1. delivered' = delivered \/ delivered' = delivered \cup {t}
      BY <2>2 DEF ScanRecord
    <3>2. Quiet \/ Fault("notify")
      BY <2>2 DEF ScanRecord
    <3> QED BY <1>1, <3>1, <3>2 DEF Quiet, counters, Fault
  <2>3. CASE Signal(w) \/ Notify(w)
    <3>1. delivered' = delivered \/ delivered' = delivered \cup {job[w].task}
      BY <2>3 DEF Signal, Notify
    <3>2. Quiet \/ Fault("notify")
      BY <2>3 DEF Signal, Notify
    <3> QED BY <1>1, <3>1, <3>2 DEF Quiet, counters, Fault
  <2>4. CASE Create(w) \/ Crash(w)
    <3>1. delivered' = delivered /\ (Quiet \/ Fault("create") \/ Fault("crash"))
      BY <2>4 DEF Create, Crash, stores
    <3> QED BY <1>1, <3>1 DEF Quiet, counters, Fault
  <2>5. CASE \/ \E t \in Tasks : Reserve(w, t)
             \/ Requeue(w) \/ EndScan(w) \/ Observe(w) \/ Record(w) \/ Unlock(w) \/ SweepAfter(w)
             \/ Lease(w) \/ Look(w) \/ Insert(w) \/ View(w) \/ Ack(w) \/ Release(w)
    BY <2>1, <2>5 DEF Reserve, Requeue, EndScan, Observe, Record, Unlock, SweepAfter, Lease, Look,
                      Insert, View, Ack, Release, stores
  <2>6. CASE Command(w) \/ CommandSync(w) \/ CommandApply(w) \/ Recount(w) \/ Decide(w)
    BY <2>1, <2>6 DEF Command, CommandSync, CommandApply, Recount, Decide, stores
  <2> QED BY <1>2, <2>2, <2>3, <2>4, <2>5, <2>6 DEF ScheduleStep
<1>3. ASSUME NEW t \in Tasks, NEW transition, TransitionTask(t, transition) PROVE Kept
  BY <1>1, <1>3 DEF TransitionTask, Move
<1>4. CASE (\E p \in Pumps : StartSweep(p)) \/ (\E t \in Tasks : Expire(t))
  BY <1>1, <1>4 DEF StartSweep, Expire, stores, counters
<1>7. ASSUME NEW c \in Callers, Request(c) PROVE Kept
  <2>1. /\ delivered' = delivered /\ faults' = faults /\ bad' = bad
        /\ moves' = moves + 1
        /\ addressed' = addressed \/ \E t \in Tasks : addressed' = addressed \cup {t}
    BY <1>7 DEF Request, SchedulePlan, ReconcilePlan, ScheduleTask, Control, ControlDispatch, Begin,
                Move, stores
  <2> QED BY <1>1, <2>1
<1>5. ASSUME NEW t \in Tasks, RunnerStep(t) PROVE Kept
  <2>1. delivered' = delivered
    BY <1>5 DEF RunnerStep, TickPlan, Plan, TickExecute, TickDone, TickReview, AnswerDiscarded,
                AnswerBad, AnswerStep, AnswerReview, TickRead, TickApply, TickRefused, Close, Throw,
                CrashRunner, Recover, stores
  <2>2. CASE UNCHANGED counters
    BY <1>1, <2>1, <2>2 DEF counters
  <2>3. CASE AnswerBad(t)
    BY <1>1, <2>1, <2>3 DEF AnswerBad
  <2>4. CASE CrashRunner(t)
    BY <1>1, <2>1, <2>4 DEF CrashRunner, Fault
  <2> QED BY <1>5, <2>2, <2>3, <2>4
          DEF RunnerStep, TickPlan, Plan, TickExecute, TickDone, TickReview, AnswerDiscarded,
              AnswerStep, AnswerReview, TickRead, TickApply, TickRefused, Close, Throw, Recover
<1>6. CASE UNCHANGED vars
  BY <1>1, <1>6 DEF vars
<1> QED BY <1>2, <1>3, <1>4, <1>5, <1>6, <1>7 DEF Next

-----------------------------------------------------------------------------
(* The invariant *)

LEMMA InitIInv == Init => IInv
<1> SUFFICES ASSUME Init PROVE IInv
  OBVIOUS
<1>1. node = FirstNodes /\ run = [t \in Tasks |-> [status |-> "absent", resume |-> "running",
                                    stage |-> "new", partial |-> FALSE, revived |-> 0]]
      /\ job = [w \in Workers |-> NoJob] /\ tick = [t \in Tasks |-> NoTick]
  BY DEF Init
<1>2. node \in [Tasks -> [status : TaskStatuses, attempt : Nat]] /\ OpenIsCleared(node)
  BY <1>1 DEF FirstNodes, TaskStatuses, OpenIsCleared, DependenciesSucceeded
<1>3. ledger \in [Tasks -> Records]
  BY DEF Init, Records, DispatchStates
<1>4. run \in [Tasks -> Runs] /\ \A t \in Tasks : Status(t) = "absent"
  BY <1>1 DEF Runs, RunStatuses, Wakeable, Runnable, Stages, Status
<1>5. NoJob \in Jobs /\ GoodJob(NoJob) /\ NoJob.pc # "insert"
  BY NoJobGood DEF GoodJob
<1>6. job \in [Workers -> Jobs] /\ \A w \in Workers : GoodJob(job[w]) /\ job[w].pc # "insert"
  BY <1>1, <1>5
<1>7. NoTick \in Ticks /\ GoodTick(NoTick) /\ NoTick.pc = "idle"
  BY DEF NoTick, Ticks, GoodTick
<1>8. tick \in [Tasks -> Ticks] /\ \A t \in Tasks : GoodTick(tick[t]) /\ tick[t].pc = "idle"
  BY <1>1, <1>7
<1>9. TypeOK
  BY <1>2, <1>3, <1>4, <1>6, <1>8 DEF Init, TypeOK
<1> QED BY <1>2, <1>4, <1>6, <1>8, <1>9 DEF IInv, RunsAreCleared, RunnersHaveRuns, At

\* A success is never lost, so what is cleared stays cleared.
LEMMA ClearedKept ==
    ASSUME IInv, [Next]_vars, NEW t \in Tasks, DependenciesSucceeded(node, t)
    PROVE  DependenciesSucceeded(node', t)
<1>1. DependsOn[t] \subseteq Tasks
  BY PlanAssumption
<1>2. CASE UNCHANGED node
  BY <1>2
<1>3. CASE \E u \in Tasks : Grows(node, node', u)
  BY <1>1, <1>3 DEF Grows, DependenciesSucceeded
<1> QED BY <1>2, <1>3, NodeKept

LEMMA NextIInv == IInv /\ [Next]_vars => IInv'
<1> SUFFICES ASSUME IInv, [Next]_vars PROVE IInv'
  OBVIOUS
<1>1. node' \in Nodes /\ OpenIsCleared(node')
  <2>1. node \in Nodes /\ OpenIsCleared(node)
    BY DEF IInv, TypeOK, Nodes
  <2>2. CASE UNCHANGED node
    BY <2>1, <2>2
  <2>3. CASE \E u \in Tasks : Grows(node, node', u)
    BY <2>3 DEF Grows
  <2> QED BY <2>2, <2>3, NodeKept
<1>2. /\ run' \in [Tasks -> Runs]
      /\ \A t \in Tasks : /\ Status(t) # "absent" => run'[t].status # "absent"
                          /\ run'[t].status # "absent" =>
                                 Status(t) # "absent" \/ DependenciesSucceeded(node, t)
  <2>1. run \in [Tasks -> Runs]
    BY DEF IInv, TypeOK
  <2>2. CASE UNCHANGED run
    BY <2>1, <2>2 DEF Status
  <2>3. CASE \E t \in Tasks : SetsRun(t)
    <3>1. PICK t \in Tasks, r \in Runs :
              /\ r.status # "absent" /\ SetRun(t, r)
              /\ Status(t) # "absent" \/ DependenciesSucceeded(node, t)
      BY <2>3 DEF SetsRun, Present
    <3> DEFINE s == IF r.status = "paused" THEN r ELSE [r EXCEPT !.resume = "running"]
    <3>2. s \in Runs /\ s.status = r.status
      BY DEF Runs, RunStatuses, Wakeable, Runnable
    <3>3. run' = [run EXCEPT ![t] = s]
      BY <3>1 DEF SetRun
    <3> HIDE DEF s
    <3> QED BY <2>1, <3>1, <3>2, <3>3 DEF Status
  <2> QED BY <2>2, <2>3, RunKept
<1>3. /\ job' \in [Workers -> Jobs]
      /\ \A w \in Workers : GoodJob(job'[w]) /\ job'[w].task \in Tasks
      /\ \A w \in Workers : job'[w].pc = "insert" => DependenciesSucceeded(node, job'[w].task)
  BY JobsKept DEF GoodJob, Jobs
<1>4. TypeOK'
  BY <1>1, <1>2, <1>3, LedgerKept, TickKept, HistoryKept DEF TypeOK, Nodes
<1>5. \A t \in Tasks : Status(t) # "absent" => DependenciesSucceeded(node, t)
  BY DEF IInv, RunsAreCleared
<1>6. RunsAreCleared'
  BY <1>2, <1>3, <1>5, ClearedKept DEF RunsAreCleared, Status, At
<1>7. RunnersHaveRuns'
  BY <1>2, TickKept DEF RunnersHaveRuns, Status
<1>8. \A t \in Tasks : GoodTick(tick'[t])
  BY TickKept
<1> QED BY <1>1, <1>3, <1>4, <1>6, <1>7, <1>8 DEF IInv

\* The three stores, every call in progress and every runner are well typed in every
\* reachable state, for any plan, any number of workers and any bounds.
THEOREM TypeCorrect == Spec => []TypeOK
<1>1. IInv => TypeOK
  BY DEF IInv
<1> QED BY <1>1, InitIInv, NextIInv, PTL DEF Spec

-----------------------------------------------------------------------------
(* The scheduler implements TaskOrder *)

LEMMA InitOrder == Init => Order!Init
BY DEF Init, Order!Init, Order!Tasks, Tasks, Phase, Status, FirstNodes

LEMMA StepOrder == IInv /\ [Next]_vars => [Order!Next]_Phase
<1> SUFFICES ASSUME IInv, [Next]_vars PROVE [Order!Next]_Phase
  OBVIOUS
<1>1. /\ Order!Tasks = Tasks
      /\ \A t \in Tasks : Order!Released(t) <=> DependenciesSucceeded(node, t)
  <2>1. \A t \in Tasks : DependsOn[t] \subseteq Tasks
    BY PlanAssumption
  <2>2. \A t \in Tasks : Phase[t] = "done" <=> node[t].status = "succeeded"
    BY DEF Phase
  <2> QED BY <2>1, <2>2 DEF Order!Tasks, Tasks, Order!Released, DependenciesSucceeded
<1>2. node \in Nodes /\ run \in [Tasks -> Runs] /\ OpenIsCleared(node)
  BY DEF IInv, TypeOK, Nodes
<1>3. CASE UNCHANGED <<node, run>>
  BY <1>3 DEF Phase, Status
<1>4. ASSUME UNCHANGED run, NEW t \in Tasks, Grows(node, node', t)
      PROVE  [Order!Next]_Phase
  <2>1. \A u \in Tasks \ {t} : Phase'[u] = Phase[u]
    BY <1>4 DEF Phase, Status, Grows
  <2>2. CASE node'[t].status = "succeeded" /\ node[t].status # "succeeded"
    <3>1. DependenciesSucceeded(node, t)
      BY <1>2, <1>4, <2>2 DEF Grows, OpenIsCleared
    <3>2. Phase[t] # "done" /\ Phase' = [Phase EXCEPT ![t] = "done"]
      BY <2>1, <2>2 DEF Phase
    <3> QED BY <1>1, <3>1, <3>2 DEF Order!Next, Order!Finish
  <2>3. CASE node'[t].status = "succeeded" <=> node[t].status = "succeeded"
    BY <1>4, <2>1, <2>3 DEF Phase, Status
  <2> QED BY <1>4, <2>2, <2>3 DEF Grows
<1>5. ASSUME UNCHANGED node, NEW t \in Tasks, NEW r, Present(r), SetRun(t, r),
             Status(t) # "absent" \/ DependenciesSucceeded(node, t)
      PROVE  [Order!Next]_Phase
  <2>1. /\ \A u \in Tasks \ {t} : run'[u] = run[u]
        /\ run'[t].status # "absent"
    <3> DEFINE s == IF r.status = "paused" THEN r ELSE [r EXCEPT !.resume = "running"]
    <3>1. s.status # "absent"
      BY <1>5 DEF Present, Runs
    <3>2. run' = [run EXCEPT ![t] = s]
      BY <1>5 DEF SetRun
    <3> HIDE DEF s
    <3> QED BY <1>2, <3>1, <3>2
  <2>2. \A u \in Tasks \ {t} : Phase'[u] = Phase[u]
    BY <1>5, <2>1 DEF Phase, Status
  <2>3. CASE Status(t) = "absent" /\ node[t].status # "succeeded"
    <3>1. Phase[t] = "waiting" /\ Phase' = [Phase EXCEPT ![t] = "started"]
      BY <1>5, <2>1, <2>2, <2>3 DEF Phase, Status
    <3> QED BY <1>1, <1>5, <2>3, <3>1 DEF Order!Next, Order!Start
  <2>4. CASE Status(t) # "absent" \/ node[t].status = "succeeded"
    BY <1>5, <2>1, <2>2, <2>4 DEF Phase, Status
  <2> QED BY <2>3, <2>4
<1> QED BY <1>3, <1>4, <1>5, NodeKept, RunKept DEF SetsRun

\* No task is worked on before the tasks it depends on have succeeded, and a success is
\* never lost, whatever the scheduler's workers, the runners, the owner and any number of
\* crashes and failing notifications do in any order: the plan, the ledger and the Runs
\* together implement TaskOrder.
THEOREM TasksInOrder == Spec => ImplementsTaskOrder
<1> QED BY InitIInv, NextIInv, InitOrder, StepOrder, PTL DEF Spec, ImplementsTaskOrder, Order!Spec

-----------------------------------------------------------------------------
(* Who ends a lease *)

\* A reservation whose lease is running changes hands only through its holder's own
\* acknowledgement or release.
LEMMA TokenMoves ==
    ASSUME IInv, [Next]_vars, NEW t \in Tasks, ledger[t].live
    PROVE  \/ ledger'[t].token = ledger[t].token
           \/ \E w \in Workers : w = ledger[t].token /\ (Ack(w) \/ Release(w))
<1> DEFINE Goal == \/ ledger'[t].token = ledger[t].token
                   \/ \E w \in Workers : w = ledger[t].token /\ (Ack(w) \/ Release(w))
<1>1. ledger \in [Tasks -> Records] /\ \A w \in Workers : job[w].task \in Tasks
  BY DEF IInv, TypeOK, GoodJob, Jobs
<1>2. UNCHANGED ledger => Goal
  OBVIOUS
<1>3. ASSUME NEW u \in Tasks, NEW rec, SetRecord(u, rec), u # t \/ rec.token = ledger[t].token
      PROVE  Goal
  BY <1>1, <1>3 DEF SetRecord
<1>4. ASSUME NEW u \in Tasks
      PROVE  /\ \A state : [ledger[u] EXCEPT !.state = state].token = ledger[u].token
             /\ \A n : [ledger[u] EXCEPT !.attempt = n].token = ledger[u].token
             /\ \A state, n : [ledger[u] EXCEPT !.state = state, !.attempt = n].token
                                    = ledger[u].token
             /\ [ledger[u] EXCEPT !.live = FALSE].token = ledger[u].token
  BY <1>1 DEF Records
<1>5. ASSUME NEW w \in Workers, ScheduleStep(w) PROVE Goal
  <2>1. CASE Requeue(w) \/ Record(w) \/ Recount(w)
    <3>2. PICK u \in Tasks : u = job[w].task
      BY <1>1
    <3>1. PICK rec : /\ SetRecord(u, rec)
                     /\ \/ \E state : rec = [ledger[u] EXCEPT !.state = state]
                        \/ \E n : rec = [ledger[u] EXCEPT !.attempt = n]
      BY <2>1, <3>2 DEF Requeue, Record, Recount
    <3>3. ledger[u] \in Records
      BY <1>1
    <3>4. rec.token = ledger[u].token
      BY <3>1, <3>3 DEF Records
    <3>5. u # t \/ rec.token = ledger[t].token
      BY <3>4
    <3> QED BY <1>3, <3>1, <3>5
  <2>2. CASE \E u \in Tasks : Reserve(w, u)
    <3>1. PICK u \in Tasks : Reserve(w, u)
      BY <2>2
    <3>2. CASE UNCHANGED ledger
      BY <1>2, <3>2
    <3>3. CASE ~UNCHANGED ledger
      <4>1. PICK n : SetRecord(u, [ledger[u] EXCEPT !.state = "queued", !.attempt = n])
        BY <3>1, <3>3 DEF Reserve
      <4>2. PICK rec : rec = [ledger[u] EXCEPT !.state = "queued", !.attempt = n]
        OBVIOUS
      <4>3. rec.token = ledger[u].token
        BY <1>1, <4>2 DEF Records
      <4>4. u # t \/ rec.token = ledger[t].token
        BY <4>3
      <4> QED BY <1>3, <4>1, <4>2, <4>4
    <3> QED BY <3>2, <3>3
  <2>3. CASE Lease(w)
    BY <1>1, <1>2, <1>3, <2>3 DEF Lease
  <2>4. CASE Ack(w) \/ Release(w)
    <3>1. CASE ledger[job[w].task].token # w
      BY <1>2, <2>4, <3>1 DEF Ack, Release
    <3>2. CASE job[w].task # t
      BY <1>1, <1>2, <1>3, <2>4, <3>2 DEF Ack, Release
    <3> QED BY <2>4, <3>1, <3>2
  <2>5. CASE \/ \E u \in Tasks : ScanRecord(w, u)
             \/ EndScan(w) \/ Observe(w) \/ Unlock(w) \/ SweepAfter(w) \/ Look(w) \/ Create(w)
             \/ Insert(w) \/ Signal(w) \/ View(w) \/ Command(w) \/ CommandSync(w)
             \/ CommandApply(w) \/ Notify(w) \/ Decide(w)
    BY <1>2, <2>5
    DEF ScanRecord, EndScan, Observe, Unlock, SweepAfter, Look, Create, Insert, Signal, View,
        Command, CommandSync, CommandApply, Notify, Decide, stores
  <2> QED BY <1>5, <2>1, <2>2, <2>3, <2>4, <2>5 DEF ScheduleStep
<1>6. CASE \E u \in Tasks : Expire(u)
  BY <1>3, <1>4, <1>6 DEF Expire
<1>7. CASE \/ \E p \in Pumps : StartSweep(p)
           \/ \E w \in Workers : Crash(w)
           \/ \E u \in Tasks, transition \in OwnerMoves : TransitionTask(u, transition)
  BY <1>2, <1>7 DEF StartSweep, Crash, TransitionTask, stores
<1>8. CASE \E c \in Callers : Request(c)
  BY <1>2, <1>8 DEF Request, SchedulePlan, ReconcilePlan, ScheduleTask, Control, ControlDispatch,
                    Begin, stores
<1>9. CASE \E u \in Tasks : RunnerStep(u)
  BY <1>2, <1>9
     DEF RunnerStep, TickPlan, Plan, TickExecute, TickDone, TickReview, AnswerDiscarded, AnswerBad,
         AnswerStep, AnswerReview, TickRead, TickApply, TickRefused, Close, Throw, CrashRunner,
         Recover, stores
<1>10. CASE UNCHANGED vars
  BY <1>2, <1>10 DEF vars
<1> QED BY <1>5, <1>6, <1>7, <1>8, <1>9, <1>10 DEF Next

LeaseStep ==
    \A t \in Tasks, w \in Workers :
        ledger[t].live /\ ledger[t].token = w /\ ledger'[t].token # w
        => job[w].pc \in {"ack", "release"} /\ job'[w] # job[w]

LEMMA NextLease == IInv /\ [Next]_vars => LeaseStep
<1> SUFFICES ASSUME IInv, [Next]_vars, NEW t \in Tasks, NEW w \in Workers,
                    ledger[t].live, ledger[t].token = w, ledger'[t].token # w
             PROVE  job[w].pc \in {"ack", "release"} /\ job'[w] # job[w]
  BY DEF LeaseStep
<1>1. Ack(w) \/ Release(w)
  BY TokenMoves
<1>2. job \in [Workers -> Jobs] /\ job[w] \in Jobs
  BY DEF IInv, TypeOK, GoodJob
<1>3. job[w].pc \in {"ack", "release"}
  BY <1>1 DEF Ack, Release, At
<1>4. job'[w] = Resting(job[w]) \/ job'[w] = NoJob
  BY <1>1, <1>2 DEF Ack, Release, Rest, Abort, Become
<1>5. job'[w].pc \in {"idle", "loop", "sweep"}
  BY <1>2, <1>4, RestingGood, NoJobGood
<1> QED BY <1>3, <1>5

\* Between the stores a creator is alone: while its lease runs, nobody but the holder
\* ends it, whatever the other workers, the scans and the clock of other tasks do.
THEOREM LeasesAreHeld == Spec => LiveLeaseIsItsHolders
<1>1. IInv /\ [Next]_vars => [LeaseStep]_vars
  BY NextLease
<1> QED BY <1>1, InitIInv, NextIInv, PTL DEF Spec, LiveLeaseIsItsHolders, LeaseStep

-----------------------------------------------------------------------------
(* The Runs, step by step *)

\* A step is a runner's own, or a worker's that inserts or commands a Run, or
\* leaves the Runs alone.
LEMMA RunSteps ==
    ASSUME IInv, [Next]_vars
    PROVE  \/ \E t \in Tasks : RunnerStep(t)
           \/ /\ UNCHANGED tick
              /\ UNCHANGED run \/ \E w \in Workers : Insert(w) \/ Command(w)
<1> DEFINE Goal == \/ \E t \in Tasks : RunnerStep(t)
                   \/ /\ UNCHANGED tick
                      /\ UNCHANGED run \/ \E w \in Workers : Insert(w) \/ Command(w)
<1>1. ASSUME NEW w \in Workers, ScheduleStep(w) PROVE Goal
  <2>1. CASE Insert(w) \/ Command(w)
    BY <2>1 DEF Insert, Command
  <2>2. CASE \/ \E t \in Tasks : ScanRecord(w, t) \/ Reserve(w, t)
             \/ Requeue(w) \/ EndScan(w) \/ Observe(w) \/ Record(w) \/ Unlock(w) \/ SweepAfter(w)
             \/ Lease(w) \/ Look(w) \/ Create(w) \/ Signal(w) \/ View(w) \/ Ack(w) \/ Release(w)
             \/ CommandSync(w) \/ CommandApply(w) \/ Recount(w) \/ Notify(w) \/ Decide(w)
    BY <2>2 DEF ScanRecord, Reserve, Requeue, EndScan, Observe, Record, Unlock, SweepAfter, Lease,
                Look, Create, Signal, View, Ack, Release, CommandSync, CommandApply, Recount,
                Notify, Decide, stores
  <2> QED BY <1>1, <2>1, <2>2 DEF ScheduleStep
<1>2. CASE \/ \E p \in Pumps : StartSweep(p)
           \/ \E w \in Workers : Crash(w)
           \/ \E t \in Tasks, transition \in OwnerMoves : TransitionTask(t, transition)
           \/ \E t \in Tasks : Expire(t)
           \/ \E c \in Callers : Request(c)
  BY <1>2 DEF StartSweep, Crash, TransitionTask, Expire, Request, SchedulePlan, ReconcilePlan,
              ScheduleTask, Control, ControlDispatch, Begin, stores
<1>3. CASE UNCHANGED vars
  BY <1>3 DEF vars
<1> QED BY <1>1, <1>2, <1>3 DEF Next

LEMMA SetRunFacts ==
    ASSUME TypeOK, NEW t \in Tasks, NEW r \in Runs, SetRun(t, r)
    PROVE  /\ \A u \in Tasks \ {t} : run'[u] = run[u]
           /\ run'[t].status = r.status /\ run'[t].partial = r.partial
           /\ run'[t].resume \in {r.resume, "running"}
<1> DEFINE s == IF r.status = "paused" THEN r ELSE [r EXCEPT !.resume = "running"]
<1>1. s.status = r.status /\ s.partial = r.partial /\ s.resume \in {r.resume, "running"}
  BY DEF Runs
<1>2. run' = [run EXCEPT ![t] = s]
  BY DEF SetRun
<1> HIDE DEF s
<1> QED BY <1>1, <1>2 DEF TypeOK

\* What a command makes of a Run.
LEMMA AfterFacts ==
    ASSUME NEW r \in Runs, NEW act, NEW after \in After(r, act)
    PROVE  /\ after \in Runs
           /\ r.status \notin {"absent", "succeeded"}
           /\ r.status = "unknown" => act \in {"cancel", "reconcile"}
           /\ after.status \in Runnable \cup {"paused", "cancelled", r.resume}
           /\ after.resume \in Runnable \cup {r.resume}
           /\ after.partial = r.partial
<1>1. after \in Runs /\ r.status # "absent"
  BY AfterType
<1>2. /\ Restarted(r.stage) \in Runnable /\ "running" \in Runnable
      /\ Runnable \cap {"succeeded", "unknown", "paused", "failed"} = {}
  BY DEF Restarted, Runnable
<1>3. r.status # "succeeded" /\ (r.status = "unknown" => act \in {"cancel", "reconcile"})
  BY <1>2 DEF After
<1>4. \/ \E s \in Runnable \cup {"paused", "cancelled", r.resume} :
             after \in {[r EXCEPT !.status = s], Revived(r)}
      \/ r.status \in Runnable /\ after = [r EXCEPT !.status = "paused", !.resume = r.status]
  BY <1>2 DEF After
<1>5. ASSUME NEW s \in Runnable \cup {"paused", "cancelled", r.resume}, after = [r EXCEPT !.status = s]
      PROVE  after.status = s /\ after.resume = r.resume /\ after.partial = r.partial
  BY <1>5 DEF Runs
<1>6. ASSUME after = Revived(r)
      PROVE  after.status \in Runnable /\ after.resume = r.resume /\ after.partial = r.partial
  <2> DEFINE s == Restarted(r.stage)
             n == r.revived + 1
  <2>1. after = [r EXCEPT !.status = s, !.revived = n]
    BY <1>6 DEF Revived
  <2> HIDE DEF s, n
  <2>2. after.status = s /\ after.resume = r.resume /\ after.partial = r.partial
    BY <2>1 DEF Runs
  <2> QED BY <1>2, <2>2 DEF s
<1>7. ASSUME after = [r EXCEPT !.status = "paused", !.resume = r.status]
      PROVE  after.status = "paused" /\ after.resume = r.status /\ after.partial = r.partial
  BY <1>7 DEF Runs
<1> QED BY <1>1, <1>3, <1>4, <1>5, <1>6, <1>7

\* What a runner makes of its Run, which is not over.
RunnerSets(t, r) ==
    /\ r \in Runs /\ SetRun(t, r)
    /\ Status(t) \notin Terminal \cup {"absent"}
    /\ r.resume \in Runnable \cup {"needs_input", "failed", run[t].resume}
    /\ Status(t) = "unknown" => r.status = "unknown" \/ tick[t].pc \in {"asking", "judging"}
    /\ r.status = "succeeded" => r.partial \/ tick[t].pc = "closing"
    /\ t \in delivered \/ tick[t].pc \notin {"idle", "down", "read"}

LEMMA LandedFacts ==
    ASSUME TypeOK, NEW t \in Tasks, Open(t), Status(t) # "absent", NEW s \in RunStatuses
    PROVE  /\ Landed(t, s) \in Runs
           /\ Landed(t, s).status \in {s, "paused"} /\ Landed(t, s).resume \in {s, run[t].resume}
           /\ \A stage \in Stages : LET r == [Landed(t, s) EXCEPT !.stage = stage] IN
                 r \in Runs /\ r.status \in {s, "paused"} /\ r.resume \in {s, run[t].resume}
<1>1. run[t] \in Runs
  BY DEF TypeOK
<1>2. /\ Landed(t, s) \in Runs
      /\ Landed(t, s).status \in {s, "paused"} /\ Landed(t, s).resume \in {s, run[t].resume}
  BY <1>1 DEF Landed, Status, Runs
<1>3. \A stage \in Stages : LET r == [Landed(t, s) EXCEPT !.stage = stage] IN
          r \in Runs /\ r.status \in {s, "paused"} /\ r.resume \in {s, run[t].resume}
  BY <1>2 DEF Runs
<1> QED BY <1>2, <1>3

LEMMA RunnerRuns ==
    ASSUME IInv, NEW t \in Tasks, RunnerStep(t)
    PROVE  UNCHANGED run \/ \E r : RunnerSets(t, r)
<1> DEFINE Goal == UNCHANGED run \/ \E r : RunnerSets(t, r)
           Lands(r, s) == \/ r = Landed(t, s)
                          \/ \E stage \in Stages : r = [Landed(t, s) EXCEPT !.stage = stage]
<1>1. /\ TypeOK /\ run[t] \in Runs /\ Status(t) = run[t].status
      /\ tick[t].pc # "idle" => Status(t) # "absent"
  BY DEF IInv, TypeOK, RunnersHaveRuns, Status
<1>2. /\ {"queued", "running", "needs_approval", "needs_input", "reviewing", "succeeded", "failed",
           "unknown"} \subseteq RunStatuses
      /\ {"planned", "done", "accepted"} \subseteq Stages
      /\ Runnable = {"queued", "running", "reviewing"}
      /\ Terminal = {"succeeded", "failed", "cancelled"}
  BY DEF RunStatuses, Wakeable, Runnable, Terminal, Stages
<1>4. CASE Plan(t)
  <2>1. CASE UNCHANGED run
    BY <2>1
  <2>2. CASE ~UNCHANGED run
    <3>1. PICK s \in {"running", "needs_approval"} :
              SetRun(t, [run[t] EXCEPT !.status = s, !.stage = "planned"])
      BY <1>4, <2>2 DEF Plan
    <3>2. PICK r : r = [run[t] EXCEPT !.status = s, !.stage = "planned"]
      OBVIOUS
    <3>3. r \in Runs /\ r.status = s /\ r.resume = run[t].resume
      BY <1>1, <1>2, <3>2 DEF Runs
    <3>4. Status(t) = "queued" /\ tick[t].pc = "planned"
      BY <1>4, <2>2 DEF Plan
    <3>5. SetRun(t, r)
      BY <3>1, <3>2
    <3>6. RunnerSets(t, r)
      BY <1>2, <3>3, <3>4, <3>5 DEF RunnerSets
    <3> QED BY <3>6
  <2> QED BY <2>1, <2>2
<1>5. CASE TickDone(t)
  <2>1. PICK r : /\ SetRun(t, r)
                 /\ \/ r = [run[t] EXCEPT !.status = "reviewing"]
                    \/ r = [run[t] EXCEPT !.status = "succeeded", !.partial = TRUE]
    BY <1>5 DEF TickDone
  <2>2. r \in Runs /\ r.resume = run[t].resume /\ (r.status = "succeeded" => r.partial)
    BY <1>1, <1>2, <2>1 DEF Runs
  <2>3. Status(t) = "running" /\ t \in delivered
    BY <1>5 DEF TickDone, Due
  <2>4. RunnerSets(t, r)
    BY <1>2, <2>1, <2>2, <2>3 DEF RunnerSets
  <2> QED BY <2>4
<1>6. ASSUME NEW s \in {"needs_input", "reviewing", "running", "failed"},
             NEW r, SetRun(t, r), Open(t), Status(t) # "absent",
             Lands(r, s),
             tick[t].pc = "throw" => Status(t) # "unknown",
             tick[t].pc \in {"asking", "judging", "throw"}
      PROVE  Goal
  <2>1. s \in RunStatuses
    BY <1>2
  <2>2. r \in Runs /\ r.status \in {s, "paused"} /\ r.resume \in {s, run[t].resume}
    <3>1. CASE r = Landed(t, s)
      BY <1>1, <1>6, <2>1, <3>1, LandedFacts
    <3>2. CASE r # Landed(t, s)
      <4>1. PICK stage \in Stages : r = [Landed(t, s) EXCEPT !.stage = stage]
        BY <1>6, <3>2
      <4> QED BY <1>1, <1>6, <2>1, <4>1, LandedFacts
    <3> QED BY <3>1, <3>2
  <2>3. RunnerSets(t, r)
    BY <1>2, <1>6, <2>2 DEF RunnerSets, Open
  <2> QED BY <2>3
<1>7. CASE AnswerBad(t)
  <2>1. CASE UNCHANGED run
    BY <2>1
  <2>2. CASE ~UNCHANGED run
    <3>1. PICK r : /\ SetRun(t, r)
                   /\ \/ r = [run[t] EXCEPT !.status = "unknown"]
                      \/ r = [run[t] EXCEPT !.status = "succeeded", !.partial = TRUE]
      BY <1>7, <2>2 DEF AnswerBad
    <3>2. r \in Runs /\ r.resume = run[t].resume /\ (r.status = "succeeded" => r.partial)
      BY <1>1, <1>2, <3>1 DEF Runs
    <3>3. Open(t) /\ tick[t].pc \in {"asking", "judging"}
      BY <1>7 DEF AnswerBad
    <3>4. RunnerSets(t, r)
      BY <1>1, <3>1, <3>2, <3>3 DEF RunnerSets, Open
    <3> QED BY <3>4
  <2> QED BY <2>1, <2>2
<1>8. CASE AnswerStep(t)
  <2>1. Open(t) /\ tick[t].pc = "asking" /\ Status(t) # "absent"
    BY <1>1, <1>8 DEF AnswerStep
  <2>2. CASE SetRun(t, [run[t] EXCEPT !.stage = "done"])
    <3>1. PICK r : r = [run[t] EXCEPT !.stage = "done"]
      OBVIOUS
    <3>2. r \in Runs /\ r.status = run[t].status /\ r.resume = run[t].resume
      BY <1>1, <1>2, <3>1 DEF Runs
    <3>3. RunnerSets(t, r)
      BY <1>1, <1>2, <2>1, <2>2, <3>1, <3>2 DEF RunnerSets, Open
    <3> QED BY <3>3
  <2>3. CASE SetRun(t, Landed(t, "needs_input"))
    <3>1. PICK r : SetRun(t, r) /\ Lands(r, "needs_input")
      BY <2>3
    <3> HIDE DEF Lands, Goal
    <3>2. Goal
      BY <1>6, <2>1, <3>1
    <3> QED BY <3>2 DEF Goal
  <2>4. CASE UNCHANGED run
    BY <2>4
  <2> QED BY <1>8, <2>2, <2>3, <2>4 DEF AnswerStep
<1>9. CASE AnswerReview(t)
  <2>1. Open(t) /\ tick[t].pc = "judging" /\ Status(t) # "absent"
    BY <1>1, <1>9 DEF AnswerReview
  <2>2. \E s \in {"needs_input", "reviewing", "running", "failed"} :
            \E r : SetRun(t, r) /\ Lands(r, s)
    BY <1>2, <1>9 DEF AnswerReview
  <2> HIDE DEF Lands, Goal
  <2>3. Goal
    BY <1>6, <2>1, <2>2
  <2> QED BY <2>3 DEF Goal
<1>10. CASE Close(t) \/ Recover(t)
  <2>1. CASE UNCHANGED run
    BY <2>1
  <2>2. CASE ~UNCHANGED run
    <3>1. PICK r : /\ SetRun(t, r)
                   /\ \/ /\ r = [run[t] EXCEPT !.status = "succeeded"]
                         /\ tick[t].pc = "closing" /\ Status(t) = "reviewing"
                      \/ /\ r = [run[t] EXCEPT !.status = "unknown"]
                         /\ tick[t].pc = "cutoff" /\ Open(t)
      BY <1>10, <2>2 DEF Close, Recover
    <3>2. r \in Runs /\ r.resume = run[t].resume
      BY <1>1, <1>2, <3>1 DEF Runs
    <3>3. r.status = "succeeded" => tick[t].pc = "closing"
      BY <1>1, <3>1 DEF Runs
    <3>5. Status(t) = "unknown" => r.status = "unknown"
      BY <1>1, <3>1 DEF Runs
    <3>6. Status(t) \notin Terminal \cup {"absent"} /\ tick[t].pc \in {"closing", "cutoff"}
      BY <1>1, <1>2, <3>1 DEF Open
    <3>4. RunnerSets(t, r)
      BY <3>1, <3>2, <3>3, <3>5, <3>6 DEF RunnerSets
    <3> QED BY <3>4
  <2> QED BY <2>1, <2>2
<1>11. CASE Throw(t)
  <2>1. CASE UNCHANGED run
    BY <2>1
  <2>2. CASE ~UNCHANGED run
    BY <1>1, <1>6, <1>11, <2>2 DEF Throw, Open
  <2> QED BY <2>1, <2>2
<1>12. CASE \/ TickPlan(t) \/ TickExecute(t) \/ TickReview(t) \/ AnswerDiscarded(t) \/ TickRead(t)
            \/ TickApply(t) \/ TickRefused(t) \/ CrashRunner(t)
  BY <1>12 DEF TickPlan, TickExecute, TickReview, AnswerDiscarded, TickRead, TickApply,
               TickRefused, CrashRunner, stores
<1> QED BY <1>4, <1>5, <1>7, <1>8, <1>9, <1>10, <1>11, <1>12 DEF RunnerStep

-----------------------------------------------------------------------------
(* The calls, step by step *)

\* Where a worker may be with a task nobody has told a runner of.
ColdPCs == {"idle", "scan", "requeue", "loop", "sweep", "lease", "look", "create", "insert",
            "signal", "release"}

AtRest(j) == j.pc \in {"idle", "loop", "sweep"} /\ \A t \in Tasks : j.page[t] = Unread

LEMMA RestingRests ==
    /\ AtRest(NoJob) /\ \A j : AtRest(Resting(j))
    /\ \A t, ready : AtRest(Scheduled(t, ready))
<1>1. AtRest(NoJob)
  BY DEF AtRest, NoJob
<1>2. ASSUME NEW j PROVE AtRest(Resting(j))
  <2> DEFINE left == j.missing \cup j.queue
             p == IF left = {} THEN "sweep" ELSE "loop"
             ready == [t \in Tasks |-> IF t \in left THEN j.ready[t] ELSE 0]
             half == [NoJob EXCEPT !.pc = p, !.sweep = j.sweep, !.missing = j.missing]
             new == [half EXCEPT !.queue = j.queue, !.ready = ready]
  <2>1. Resting(j) = NoJob \/ Resting(j) = new
    BY DEF Resting
  <2> HIDE DEF ready, p
  <2>2. half.pc = p /\ half.page = NoJob.page
    BY DEF NoJob
  <2> HIDE DEF half
  <2>3. new.pc = half.pc /\ new.page = half.page
    OBVIOUS
  <2> HIDE DEF new
  <2>4. p \in {"sweep", "loop"}
    BY DEF p
  <2> QED BY <1>1, <2>1, <2>2, <2>3, <2>4 DEF AtRest
<1> QED BY <1>1, <1>2 DEF Scheduled

LEMMA Moves ==
    ASSUME IInv, NEW w \in Workers
    PROVE  /\ \A j : Become(w, j) => job'[w] = j
           /\ \A j : Become(w, j) => \A v \in Workers \ {w} : job'[v] = job[v]
           /\ \A p : Goto(w, p) => /\ job'[w].pc = p /\ job'[w].page = job[w].page
                                   /\ job'[w].task = job[w].task
           /\ \A p : Seeing(w, p) => /\ job'[w].pc = p /\ job'[w].page = job[w].page
                                     /\ job'[w].task = job[w].task
                                     /\ job'[w].seen = Glimpse(job[w].task)
           /\ Rest(w) \/ Abort(w) => AtRest(job'[w])
<1>1. job \in [Workers -> Jobs] /\ job[w] \in Jobs
  BY DEF IInv, TypeOK
<1>2. /\ \A j : Become(w, j) => job'[w] = j
      /\ \A j : Become(w, j) => \A v \in Workers \ {w} : job'[v] = job[v]
  BY <1>1 DEF Become
<1>3. ASSUME NEW p, Goto(w, p)
      PROVE  job'[w].pc = p /\ job'[w].page = job[w].page /\ job'[w].task = job[w].task
  BY <1>1, <1>2, <1>3 DEF Goto, Jobs
<1>4. ASSUME NEW p, Seeing(w, p)
      PROVE  /\ job'[w].pc = p /\ job'[w].page = job[w].page /\ job'[w].task = job[w].task
             /\ job'[w].seen = Glimpse(job[w].task)
  <2>1. PICK s : s = Glimpse(job[w].task)
    OBVIOUS
  <2>2. job'[w] = [job[w] EXCEPT !.pc = p, !.seen = s]
    BY <1>2, <1>4, <2>1 DEF Seeing
  <2> QED BY <1>1, <2>1, <2>2 DEF Jobs
<1>5. Rest(w) \/ Abort(w) => AtRest(job'[w])
  BY <1>2, RestingRests DEF Rest, Abort
<1> QED BY <1>2, <1>3, <1>4, <1>5

\* A call's step rests, goes on scanning, or stays with its task; it begins no command but
\* the redo of a failed Run.
JobMoves(w) ==
    \/ AtRest(job'[w])
    \/ job'[w].pc = "scan" /\ job'[w].page \in {job[w].page, Page}
    \/ /\ job'[w].page = job[w].page /\ job'[w].task = job[w].task /\ job'[w].pc # "command"
       /\ \/ job[w].pc \notin ColdPCs
          \/ job'[w].pc \in {"look", "create", "insert", "release"}
          \/ /\ job'[w].pc = "signal"
             /\ \/ job'[w].seen = "dispatched"
                \/ job'[w].seen = Glimpse(job[w].task) /\ Status(job[w].task) # "absent"
          \/ /\ job'[w].pc = "view" /\ job[w].pc = "signal"
             /\ job[w].seen = "dispatched" => job[w].task \in delivered'
    \/ \E t \in Tasks : ScanRecord(w, t) \/ Reserve(w, t)

LEMMA ReturnMoves ==
    ASSUME IInv, NEW w \in Workers, NEW j \in Jobs, Return(w, j), job[w].pc \notin ColdPCs,
           j.page = job[w].page, j.task = job[w].task
    PROVE  JobMoves(w)
<1>1. \/ job'[w] = Resting(j)
      \/ job'[w] = [j EXCEPT !.pc = "scan", !.task = 1, !.seen = "absent"]
      \/ job'[w] = [j EXCEPT !.pc = j.ret] /\ j.ret \in {"decide", "decideReady"}
  BY Moves DEF Return, Jobs
<1>2. CASE job'[w] = Resting(j)
  BY <1>2, RestingRests DEF JobMoves
<1>3. CASE job'[w] = [j EXCEPT !.pc = "scan", !.task = 1, !.seen = "absent"]
  <2>1. job'[w].pc = "scan" /\ job'[w].page = j.page
    BY <1>3 DEF Jobs
  <2> QED BY <2>1 DEF JobMoves
<1>4. CASE job'[w] = [j EXCEPT !.pc = j.ret] /\ j.ret \in {"decide", "decideReady"}
  <2>1. job'[w].pc # "command" /\ job'[w].page = j.page /\ job'[w].task = j.task
    BY <1>4 DEF Jobs
  <2> QED BY <2>1 DEF JobMoves
<1> QED BY <1>1, <1>2, <1>3, <1>4

LEMMA CallMoves ==
    ASSUME IInv, NEW w \in Workers, ScheduleStep(w) \/ Crash(w)
    PROVE  JobMoves(w)
<1>1. job[w] \in Jobs
  BY DEF IInv, TypeOK
<1>2. CASE Crash(w) \/ Requeue(w) \/ Ack(w) \/ Release(w)
  BY <1>2, Moves DEF Crash, Requeue, Ack, Release, JobMoves
<1>3. CASE Observe(w)
  <2>1. job[w].pc \notin ColdPCs
    BY <1>3 DEF Observe, At, ColdPCs
  <2>2. CASE Return(w, job[w])
    BY <1>1, <2>1, <2>2, ReturnMoves
  <2>3. CASE Seeing(w, "record")
    BY <2>1, <2>3, Moves DEF JobMoves
  <2> QED BY <1>3, <2>2, <2>3 DEF Observe
<1>4. CASE Record(w)
  <2>1. job[w].pc \notin ColdPCs
    BY <1>4 DEF Record, At, ColdPCs
  <2>2. PICK saw \in BOOLEAN : saw = (job[w].saw \/ job[w].seen = "succeeded")
    BY <1>1 DEF Jobs
  <2>3. PICK j : j = [job[w] EXCEPT !.saw = saw]
    OBVIOUS
  <2>4. j \in Jobs /\ j.page = job[w].page /\ j.task = job[w].task
    BY <1>1, <2>2, <2>3 DEF Jobs
  <2>5. Goto(w, "unlock") \/ Return(w, j)
    BY <1>4, <2>2, <2>3 DEF Record
  <2>6. CASE Return(w, j)
    BY <2>1, <2>4, <2>6, ReturnMoves
  <2>7. CASE Goto(w, "unlock")
    BY <2>1, <2>7, Moves DEF JobMoves
  <2> QED BY <2>5, <2>6, <2>7
<1>5. CASE EndScan(w) \/ Unlock(w)
  <2>1. \E j : job'[w] = Resting(j)
    BY <1>5, Moves DEF EndScan, Unlock
  <2> QED BY <2>1, RestingRests DEF JobMoves
<1>6. CASE SweepAfter(w)
  <2>1. job'[w] = Scanning
    BY <1>6, Moves DEF SweepAfter
  <2>2. Scanning.pc = "scan" /\ Scanning.page = Page
    BY DEF Scanning, NoJob
  <2> QED BY <2>1, <2>2 DEF JobMoves
<1>7. CASE Lease(w)
  <2>1. Rest(w) \/ Goto(w, "look")
    BY <1>7 DEF Lease
  <2> QED BY <2>1, Moves DEF JobMoves
<1>8. CASE Look(w)
  <2>1. Seeing(w, "create") \/ (Status(job[w].task) # "absent" /\ Seeing(w, "signal"))
    BY <1>8 DEF Look
  <2> QED BY <2>1, Moves DEF JobMoves
<1>9. CASE Create(w)
  <2>1. \/ Status(job[w].task) # "absent" /\ Seeing(w, "signal")
        \/ Goto(w, "insert") \/ Goto(w, "release")
    BY <1>9 DEF Create
  <2> QED BY <2>1, Moves DEF JobMoves
<1>10. CASE Insert(w)
  <2>1. \/ Become(w, [job[w] EXCEPT !.pc = "signal", !.seen = "dispatched"])
        \/ Status(job[w].task) # "absent" /\ Seeing(w, "signal")
    BY <1>10 DEF Insert
  <2>2. CASE Become(w, [job[w] EXCEPT !.pc = "signal", !.seen = "dispatched"])
    <3>1. job'[w] = [job[w] EXCEPT !.pc = "signal", !.seen = "dispatched"]
      BY <2>2, Moves
    <3>2. /\ job'[w].pc = "signal" /\ job'[w].seen = "dispatched"
          /\ job'[w].page = job[w].page /\ job'[w].task = job[w].task
      BY <1>1, <3>1 DEF Jobs
    <3> QED BY <3>2 DEF JobMoves
  <2> QED BY <2>1, <2>2, Moves DEF JobMoves
<1>11. CASE Signal(w)
  <2>1. \/ Rest(w) \/ Goto(w, "release")
        \/ /\ Goto(w, "view") /\ job[w].pc = "signal"
           /\ job[w].seen = "dispatched" => job[w].task \in delivered'
    BY <1>11 DEF Signal, At
  <2> QED BY <2>1, Moves DEF JobMoves
<1>12. CASE View(w) \/ Recount(w)
  <2>1. job[w].pc \notin ColdPCs /\ (Seeing(w, "ack") \/ Goto(w, "notify"))
    BY <1>12 DEF View, Recount, At, ColdPCs
  <2> QED BY <2>1, Moves DEF JobMoves
<1>13. ASSUME NEW j, job'[w] = j, job[w].pc \notin ColdPCs,
              j.page = job[w].page, j.task = job[w].task, j.pc # "command"
       PROVE  JobMoves(w)
  BY <1>13 DEF JobMoves
<1>14. CASE Command(w)
  <2>1. job[w].pc \notin ColdPCs
    BY <1>14 DEF Command, At, ColdPCs
  <2>2. CASE Abort(w)
    BY <2>2, Moves DEF JobMoves
  <2>3. CASE \E s : Become(w, [job[w] EXCEPT !.pc = "sync", !.seen = s])
    <3>1. PICK s : job'[w] = [job[w] EXCEPT !.pc = "sync", !.seen = s]
      BY <2>3, Moves
    <3>2. job'[w].pc = "sync" /\ job'[w].page = job[w].page /\ job'[w].task = job[w].task
      BY <1>1, <3>1 DEF Jobs
    <3> QED BY <1>13, <2>1, <3>2
  <2> QED BY <1>14, <2>2, <2>3 DEF Command
<1>15. ASSUME NEW todo, Reporting(w, todo), job[w].pc \notin ColdPCs PROVE JobMoves(w)
  <2> DEFINE p == CASE todo # <<>> -> "apply"
                    [] job[w].act \in {"retry", "redo"} -> "recount"
                    [] job[w].act \in {"pause", "cancel"} -> "observe"
                    [] OTHER -> "notify"
  <2>1. p # "command"
    OBVIOUS
  <2>2. job'[w] = [job[w] EXCEPT !.todo = todo, !.pc = p]
    BY <1>15, Moves DEF Reporting
  <2> HIDE DEF p
  <2>3. job'[w].pc = p /\ job'[w].page = job[w].page /\ job'[w].task = job[w].task
    BY <1>1, <2>2 DEF Jobs
  <2> QED BY <1>13, <1>15, <2>1, <2>3
<1>16. CASE CommandSync(w) \/ CommandApply(w)
  <2>1. job[w].pc \notin ColdPCs
    BY <1>16 DEF CommandSync, CommandApply, At, ColdPCs
  <2>2. Abort(w) \/ \E todo : Reporting(w, todo)
    BY <1>16 DEF CommandSync, CommandApply
  <2> QED BY <1>15, <2>1, <2>2, Moves DEF JobMoves
<1>17. CASE Notify(w)
  <2>1. job[w].pc \notin ColdPCs
    BY <1>17 DEF Notify, At, ColdPCs
  <2>2. Abort(w) \/ Goto(w, "observe")
    BY <1>17 DEF Notify, Abort, Goto
  <2> QED BY <2>1, <2>2, Moves DEF JobMoves
<1>18. CASE Decide(w)
  <2>1. job[w].pc \notin ColdPCs
    BY <1>18 DEF Decide, At, ColdPCs
  <2>2. \/ Abort(w) \/ \E t, ready : Become(w, Scheduled(t, ready))
        \/ Become(w, [job[w] EXCEPT !.pc = "notify", !.ret = "loop", !.act = "dispatch"])
    BY <1>18 DEF Decide
  <2>3. CASE \E t, ready : Become(w, Scheduled(t, ready))
    BY <2>3, Moves, RestingRests DEF JobMoves
  <2>4. CASE Become(w, [job[w] EXCEPT !.pc = "notify", !.ret = "loop", !.act = "dispatch"])
    <3>1. job'[w] = [job[w] EXCEPT !.pc = "notify", !.ret = "loop", !.act = "dispatch"]
      BY <2>4, Moves
    <3>2. job'[w].pc = "notify" /\ job'[w].page = job[w].page /\ job'[w].task = job[w].task
      BY <1>1, <3>1 DEF Jobs
    <3> QED BY <1>13, <2>1, <3>2
  <2> QED BY <2>2, <2>3, <2>4, Moves DEF JobMoves
<1>19. CASE \E t \in Tasks : ScanRecord(w, t) \/ Reserve(w, t)
  BY <1>19 DEF JobMoves
<1> QED BY <1>2, <1>3, <1>4, <1>5, <1>6, <1>7, <1>8, <1>9, <1>10, <1>11, <1>12, <1>14, <1>16,
           <1>17, <1>18, <1>19 DEF ScheduleStep

-----------------------------------------------------------------------------
(* The runners, step by step *)

Unstarted == {"absent", "queued"}

\* Where the runner of a Run may be that no notify was accepted for.
ColdTick(k) == k.pc \in {"idle", "down"} \/ (k.pc = "read" /\ k.mode = "recover")

\* What is left to send after a reading of the plan, or after a transition was sent.
Sends(t, todo) ==
    \/ TickRead(t) /\ todo = SyncSteps(ReadStatus(t), node[t].status)
    \/ TickApply(t) /\ todo = Tail(tick[t].todo)

\* A runner asks only a Run that runs or is in review, sends what it has decided on, and
\* closes its review only when everything was sent.
Turns(t, k) ==
    /\ tick' = [tick EXCEPT ![t] = k]
    /\ k.pc \in {"asking", "judging"} => Status(t) \in {"running", "reviewing"} /\ UNCHANGED run
    /\ k.pc \in {"apply", "closing"} =>
           /\ Sends(t, k.todo) /\ k.mode = tick[t].mode
           /\ k.pc = "apply" => k.todo # <<>>
           /\ k.pc = "closing" => k.todo = <<>> /\ k.mode \in {"finish", "refinish"}
    /\ ColdTick(tick[t]) /\ t \notin delivered /\ Status(t) \in Unstarted => ColdTick(k)

LEMMA ReportingTurns ==
    ASSUME NEW t \in Tasks, tick[t] \in Ticks, NEW todo, Sends(t, todo), TickReporting(t, todo)
    PROVE  \E k : Turns(t, k)
<1>1. /\ todo # <<>> /\ tick[t].pc = "read" => ReadStatus(t) \notin {"absent", "queued"}
      /\ tick[t].pc \in {"read", "apply"}
  BY DEF Sends, TickRead, TickApply, SyncSteps, LastReport
<1>2. CASE todo # <<>>
  <2>1. PICK k : k = [tick[t] EXCEPT !.pc = "apply", !.todo = todo]
    OBVIOUS
  <2>2. tick' = [tick EXCEPT ![t] = k]
    BY <1>2, <2>1 DEF TickReporting
  <2>3. k.pc = "apply" /\ k.todo = todo /\ k.mode = tick[t].mode
    BY <2>1 DEF Ticks
  <2>4. ~(ColdTick(tick[t]) /\ Status(t) \in Unstarted)
    BY <1>1, <1>2 DEF ColdTick, ReadStatus, Unstarted
  <2> QED BY <1>2, <2>2, <2>3, <2>4 DEF Turns
<1>3. CASE todo = <<>> /\ tick[t].mode \in {"finish", "refinish"}
  <2>1. PICK k : k = [tick[t] EXCEPT !.pc = "closing", !.todo = <<>>]
    OBVIOUS
  <2>2. tick' = [tick EXCEPT ![t] = k]
    BY <1>3, <2>1 DEF TickReporting
  <2>3. k.pc = "closing" /\ k.todo = todo /\ k.mode = tick[t].mode
    BY <1>3, <2>1 DEF Ticks
  <2>4. ~ColdTick(tick[t])
    BY <1>1, <1>3 DEF ColdTick
  <2> QED BY <1>3, <2>2, <2>3, <2>4 DEF Turns
<1>4. CASE todo = <<>> /\ tick[t].mode = "review"
  <2>1. PICK k : k = Syncing("trail")
    OBVIOUS
  <2>2. tick' = [tick EXCEPT ![t] = k]
    BY <1>4, <2>1 DEF TickReporting
  <2>3. k.pc = "read" /\ ~ColdTick(tick[t])
    BY <1>1, <1>4, <2>1 DEF Syncing, ColdTick
  <2> QED BY <2>2, <2>3 DEF Turns
<1>5. CASE todo = <<>> /\ tick[t].mode \notin {"finish", "refinish", "review"}
  <2>1. PICK k : k = NoTick
    OBVIOUS
  <2>2. tick' = [tick EXCEPT ![t] = k]
    BY <1>5, <2>1 DEF TickReporting
  <2>3. k.pc = "idle"
    BY <2>1 DEF NoTick
  <2> QED BY <2>2, <2>3 DEF Turns, ColdTick
<1> QED BY <1>2, <1>3, <1>4, <1>5

LEMMA RunnerTurns ==
    ASSUME IInv, NEW t \in Tasks, RunnerStep(t)
    PROVE  \E k : Turns(t, k)
<1>1. tick[t] \in Ticks
  BY DEF IInv, TypeOK
<1>2. ASSUME NEW p \in {"planned", "throw", "asking", "judging"}, TickGoto(t, p), Due(t),
             p \in {"asking", "judging"} => Status(t) \in {"running", "reviewing"} /\ UNCHANGED run
      PROVE  \E k : Turns(t, k)
  <2>1. PICK k : k = [tick[t] EXCEPT !.pc = p]
    OBVIOUS
  <2>2. k.pc = p /\ tick' = [tick EXCEPT ![t] = k]
    BY <1>1, <1>2, <2>1 DEF Ticks, TickGoto
  <2> QED BY <1>2, <2>2 DEF Turns, Due
<1>3. ASSUME NEW mode, TickSync(t, mode),
             mode = "recover" \/ t \in delivered \/ Status(t) \notin Unstarted \/ ~ColdTick(tick[t])
      PROVE  \E k : Turns(t, k)
  <2>1. PICK k : k = Syncing(mode)
    OBVIOUS
  <2>2. k.pc = "read" /\ k.mode = mode /\ tick' = [tick EXCEPT ![t] = k]
    BY <1>3, <2>1 DEF Syncing, TickSync
  <2> QED BY <1>3, <2>2 DEF Turns, ColdTick
<1>4. ASSUME NEW p \in {"idle", "throw", "down", "cutoff"},
             tick' = [tick EXCEPT ![t] = [NoTick EXCEPT !.pc = p]],
             p \in {"throw", "cutoff"} => ~ColdTick(tick[t])
      PROVE  \E k : Turns(t, k)
  <2>1. PICK k : k = [NoTick EXCEPT !.pc = p]
    OBVIOUS
  <2>2. k.pc = p
    BY <2>1 DEF NoTick
  <2> QED BY <1>4, <2>1, <2>2 DEF Turns, ColdTick
<1>5. CASE TickPlan(t) \/ TickExecute(t)
  BY <1>2, <1>5 DEF TickPlan, TickExecute, stores
<1>6. CASE TickReview(t)
  BY <1>2, <1>3, <1>6 DEF TickReview, stores, Due
<1>7. CASE Plan(t) \/ TickDone(t) \/ Throw(t) \/ AnswerDiscarded(t)
  <2>1. TickSync(t, "trail") /\ (t \in delivered \/ ~ColdTick(tick[t]))
    BY <1>7 DEF Plan, TickDone, Throw, AnswerDiscarded, Due, ColdTick
  <2> QED BY <1>3, <2>1
<1>8. CASE AnswerBad(t)
  <2>1. ~ColdTick(tick[t]) /\ (TickGoto(t, "throw") \/ TickSync(t, "trail"))
    BY <1>8 DEF AnswerBad, ColdTick
  <2>2. CASE TickGoto(t, "throw")
    <3>1. PICK k : k = [tick[t] EXCEPT !.pc = "throw"]
      OBVIOUS
    <3>2. k.pc = "throw" /\ tick' = [tick EXCEPT ![t] = k]
      BY <1>1, <2>2, <3>1 DEF Ticks, TickGoto
    <3> QED BY <2>1, <3>2 DEF Turns
  <2> QED BY <1>3, <2>1, <2>2
<1>9. CASE AnswerStep(t) \/ AnswerReview(t)
  <2>1. ~ColdTick(tick[t]) /\ \E mode : TickSync(t, mode)
    BY <1>9 DEF AnswerStep, AnswerReview, ColdTick
  <2> QED BY <1>3, <2>1
<1>10. CASE TickRead(t) \/ TickApply(t)
  <2>1. \E todo : Sends(t, todo) /\ TickReporting(t, todo)
    BY <1>10 DEF TickRead, TickApply, Sends
  <2> QED BY <1>1, <2>1, ReportingTurns
<1>11. CASE TickRefused(t)
  <2> DEFINE p == CASE tick[t].mode = "trail" -> "idle"
                    [] tick[t].mode \in {"finish", "review"} -> "throw"
                    [] OTHER -> "down"
  <2>1. p \in {"idle", "throw", "down", "cutoff"}
    OBVIOUS
  <2>2. tick' = [tick EXCEPT ![t] = [NoTick EXCEPT !.pc = p]] /\ ~ColdTick(tick[t])
    BY <1>11 DEF TickRefused, ColdTick
  <2> HIDE DEF p
  <2> QED BY <1>4, <2>1, <2>2
<1>12. CASE Close(t)
  <2>1. ~ColdTick(tick[t])
    BY <1>12 DEF Close, ColdTick
  <2>2. CASE TickSync(t, "trail")
    BY <1>3, <2>1, <2>2
  <2>3. CASE tick' = [tick EXCEPT ![t] = NoTick]
    <3>1. NoTick.pc = "idle"
      BY DEF NoTick
    <3> QED BY <2>1, <2>3, <3>1 DEF Turns
  <2> QED BY <1>12, <2>2, <2>3 DEF Close
<1>13. CASE CrashRunner(t)
  <2> DEFINE p == IF tick[t].pc \in {"asking", "judging"} THEN "cutoff" ELSE "down"
  <2>1. p \in {"idle", "throw", "down", "cutoff"} /\ (p = "cutoff" => ~ColdTick(tick[t])) /\ p # "throw"
    BY DEF ColdTick
  <2>2. tick' = [tick EXCEPT ![t] = [NoTick EXCEPT !.pc = p]]
    BY <1>13 DEF CrashRunner
  <2> HIDE DEF p
  <2> QED BY <1>4, <2>1, <2>2
<1>14. CASE Recover(t)
  <2>1. TickSync(t, "recover") \/ (TickSync(t, "refinish") /\ Status(t) = "reviewing")
    BY <1>14 DEF Recover
  <2>2. "reviewing" \notin Unstarted
    BY DEF Unstarted
  <2> QED BY <1>3, <2>1, <2>2
<1> QED BY <1>5, <1>6, <1>7, <1>8, <1>9, <1>10, <1>11, <1>12, <1>13, <1>14 DEF RunnerStep

-----------------------------------------------------------------------------
(* Who moves an unknown Run *)

\* No pause hides an unknown Run, no runner asks one, and every command but the pump's
\* redo of a failed Run is a caller's.
UnknownInv ==
    /\ \A t \in Tasks : run[t].resume \notin {"unknown", "succeeded"}
    /\ \A t \in Tasks : tick[t].pc \in {"asking", "judging"} => Status(t) # "unknown"
    /\ \A w \in Workers : At(w, "command") => w \in Callers \/ job[w].act = "redo"

LEMMA InitUnknown == Init => UnknownInv
BY DEF Init, UnknownInv, NoTick, NoJob, At

LEMMA RunsStay ==
    ASSUME IInv, [Next]_vars, NEW t \in Tasks
    PROVE  \/ run'[t] = run[t]
           \/ /\ UNCHANGED tick /\ Status(t) = "absent" /\ run'[t].status = "queued"
              /\ run'[t].resume \in {run[t].resume, "running"}
              /\ \E w \in Workers : At(w, "insert") /\ job[w].task = t
           \/ /\ UNCHANGED tick
              /\ \E w \in Workers : /\ At(w, "command") /\ job[w].task = t
                     /\ \E r \in After(run[t], job[w].act) : r \in Runs /\ SetRun(t, r)
           \/ RunnerStep(t) /\ \E r : RunnerSets(t, r)
<1>1. run \in [Tasks -> Runs] /\ TypeOK /\ \A w \in Workers : job[w].task \in Tasks
  BY DEF IInv, TypeOK, GoodJob, Jobs
<1>2. CASE UNCHANGED run
  BY <1>2
<1>3. CASE \E u \in Tasks : RunnerStep(u)
  <2>1. PICK u \in Tasks : RunnerStep(u)
    BY <1>3
  <2>2. CASE \E r : RunnerSets(u, r)
    <3>1. PICK r : RunnerSets(u, r)
      BY <2>2
    <3>2. \A v \in Tasks \ {u} : run'[v] = run[v]
      BY <1>1, <3>1, SetRunFacts DEF RunnerSets
    <3> QED BY <2>1, <3>1, <3>2
  <2> QED BY <1>2, <2>1, <2>2, RunnerRuns
<1>4. CASE UNCHANGED tick /\ \E w \in Workers : Insert(w)
  <2>1. PICK w \in Workers : Insert(w)
    BY <1>4
  <2>2. PICK u \in Tasks : u = job[w].task
    BY <1>1
  <2>3. CASE Status(u) = "absent"
    <3>1. PICK r : r = [run[u] EXCEPT !.status = "queued"]
      OBVIOUS
    <3>2. r \in Runs /\ r.status = "queued" /\ r.resume = run[u].resume
      BY <1>1, <3>1 DEF Runs, RunStatuses, Wakeable, Runnable
    <3>3. SetRun(u, r)
      BY <2>1, <2>2, <2>3, <3>1 DEF Insert
    <3>4. /\ \A v \in Tasks \ {u} : run'[v] = run[v]
          /\ run'[u].status = "queued" /\ run'[u].resume \in {run[u].resume, "running"}
      BY <1>1, <3>2, <3>3, SetRunFacts
    <3> QED BY <1>4, <2>1, <2>2, <2>3, <3>4 DEF Insert
  <2>4. CASE Status(u) # "absent"
    BY <1>2, <2>1, <2>2, <2>4 DEF Insert
  <2> QED BY <2>3, <2>4
<1>5. CASE UNCHANGED tick /\ \E w \in Workers : Command(w)
  <2>1. PICK w \in Workers : Command(w)
    BY <1>5
  <2>2. PICK u \in Tasks : u = job[w].task
    BY <1>1
  <2>3. CASE \E r \in After(run[u], job[w].act) : SetRun(u, r)
    <3>1. PICK r \in After(run[u], job[w].act) : SetRun(u, r)
      BY <2>3
    <3>2. r \in Runs
      BY <1>1, <3>1, AfterFacts
    <3>3. \A v \in Tasks \ {u} : run'[v] = run[v]
      BY <1>1, <3>1, <3>2, SetRunFacts
    <3> QED BY <1>5, <2>1, <2>2, <3>1, <3>2, <3>3 DEF Command
  <2> QED BY <1>2, <2>1, <2>2, <2>3 DEF Command
<1> QED BY <1>2, <1>3, <1>4, <1>5, RunSteps

LEMMA TicksStay ==
    ASSUME IInv, [Next]_vars, NEW t \in Tasks
    PROVE  tick'[t] = tick[t] \/ (RunnerStep(t) /\ Turns(t, tick'[t]))
<1>1. tick \in [Tasks -> Ticks]
  BY DEF IInv, TypeOK
<1>2. CASE UNCHANGED tick
  BY <1>2
<1>3. CASE \E u \in Tasks : RunnerStep(u)
  <2>1. PICK u \in Tasks : RunnerStep(u)
    BY <1>3
  <2>2. PICK k : Turns(u, k)
    BY <2>1, RunnerTurns
  <2>3. tick'[u] = k /\ \A v \in Tasks \ {u} : tick'[v] = tick[v]
    BY <1>1, <2>2 DEF Turns
  <2> QED BY <2>1, <2>2, <2>3
<1> QED BY <1>2, <1>3, RunSteps

\* A call stays where it is, goes on, or begins with a task that is addressed by that.
LEMMA CallsStay ==
    ASSUME IInv, [Next]_vars, NEW w \in Workers
    PROVE  \/ job'[w] = job[w] \/ JobMoves(w)
           \/ w \in Callers /\ job'[w].task \in addressed' /\ \A t \in Tasks : job'[w].page[t] = Unread
<1> DEFINE Goal == \/ job'[w] = job[w] \/ JobMoves(w)
                   \/ /\ w \in Callers /\ job'[w].task \in addressed'
                      /\ \A t \in Tasks : job'[w].page[t] = Unread
<1>1. Scanning.pc = "scan" /\ Scanning.page = Page
  BY DEF Scanning, NoJob
<1>2. CASE UNCHANGED job
  BY <1>2
<1>3. ASSUME NEW v \in Workers, v # w, \E j : Become(v, j) PROVE Goal
  BY <1>3, Moves
<1>4. ASSUME NEW v \in Workers, ScheduleStep(v) \/ Crash(v) PROVE Goal
  <2>1. CASE v = w
    BY <1>4, <2>1, CallMoves
  <2>2. CASE v # w
    <3>1. \E j : Become(v, j)
      BY <1>4, ScheduleSteps DEF StepsJob
    <3> QED BY <1>3, <2>2, <3>1
  <2> QED BY <2>1, <2>2
<1>5. ASSUME NEW v \in Workers, Become(v, Scanning) PROVE Goal
  BY <1>1, <1>3, <1>5, Moves DEF JobMoves
<1>6. ASSUME NEW c \in Callers, Request(c) PROVE Goal
  <2>1. c \in Workers
    BY DEF Workers
  <2>2. CASE c # w
    <3>1. \E j : Become(c, j)
      BY <1>6, RequestSteps DEF StepsJob
    <3> QED BY <1>3, <2>1, <2>2, <3>1
  <2>3. CASE SchedulePlan(c)
    <3>1. \E j : Become(c, Resting(j))
      BY <2>3 DEF SchedulePlan, Begin
    <3> QED BY <1>3, <2>1, <3>1, Moves, RestingRests DEF JobMoves
  <2>4. CASE ReconcilePlan(c)
    BY <1>5, <2>1, <2>4 DEF ReconcilePlan, Begin
  <2>5. ASSUME NEW t \in Tasks, NEW j, Become(c, j), addressed' = addressed \cup {t},
               j.task = t, j.page = NoJob.page
        PROVE  Goal
    <3>1. \A u \in Tasks : j.page[u] = Unread
      BY <2>5 DEF NoJob
    <3> QED BY <1>3, <2>1, <2>5, <3>1, Moves
  <2>6. CASE \E t \in Tasks : ScheduleTask(c, t)
    <3>1. PICK t \in Tasks : ScheduleTask(c, t)
      BY <2>6
    <3>2. CASE Become(c, Scheduled(t, ReadyNodes))
      BY <1>3, <2>1, <3>2, Moves, RestingRests DEF JobMoves
    <3>3. CASE /\ Become(c, [NoJob EXCEPT !.pc = "observe", !.task = t])
               /\ addressed' = addressed \cup {t}
      <4>1. PICK j : j = [NoJob EXCEPT !.pc = "observe", !.task = t]
        OBVIOUS
      <4>2. j.task = t /\ j.page = NoJob.page
        BY <4>1 DEF NoJob
      <4> QED BY <2>5, <3>3, <4>1, <4>2
    <3> QED BY <3>1, <3>2, <3>3 DEF ScheduleTask, Begin
  <2>7. CASE \E t \in Tasks, act \in Commands \cap Requests : Control(c, t, act)
    <3>1. PICK t \in Tasks, act \in Commands : Control(c, t, act)
      BY <2>7
    <3>2. PICK j : j = [NoJob EXCEPT !.pc = "command", !.task = t, !.act = act]
      OBVIOUS
    <3>3. j.task = t /\ j.page = NoJob.page
      BY <3>2 DEF NoJob
    <3> QED BY <2>5, <3>1, <3>2, <3>3 DEF Control, Begin
  <2>8. CASE \E t \in Tasks : ControlDispatch(c, t)
    <3>1. PICK t \in Tasks : ControlDispatch(c, t)
      BY <2>8
    <3>2. PICK ret : ret = IF t \in ReadyTasks THEN "decideReady" ELSE "decide"
      OBVIOUS
    <3>3. PICK half : half = [NoJob EXCEPT !.pc = "observe", !.task = t]
      OBVIOUS
    <3>4. PICK j : j = [half EXCEPT !.ready = ReadyNodes, !.ret = ret]
      OBVIOUS
    <3>5. half.task = t /\ half.page = NoJob.page
      BY <3>3 DEF NoJob
    <3>6. j.task = t /\ j.page = NoJob.page
      BY <3>4, <3>5
    <3>7. Become(c, j) /\ addressed' = addressed \cup {t}
      BY <3>1, <3>2, <3>3, <3>4 DEF ControlDispatch, Begin
    <3> QED BY <2>5, <3>6, <3>7
  <2> QED BY <1>6, <2>3, <2>4, <2>6, <2>7, <2>8 DEF Request
<1>7. CASE \E p \in Pumps : StartSweep(p)
  BY <1>5, <1>7 DEF StartSweep, Workers
<1>8. CASE \/ \E t \in Tasks, transition \in OwnerMoves : TransitionTask(t, transition)
           \/ \E t \in Tasks : Expire(t)
  BY <1>2, <1>8 DEF TransitionTask, Expire
<1>9. CASE \E t \in Tasks : RunnerStep(t)
  BY <1>2, <1>9
     DEF RunnerStep, TickPlan, Plan, TickExecute, TickDone, TickReview, AnswerDiscarded, AnswerBad,
         AnswerStep, AnswerReview, TickRead, TickApply, TickRefused, Close, Throw, CrashRunner,
         Recover, stores
<1> QED BY <1>2, <1>4, <1>6, <1>7, <1>8, <1>9 DEF Next, vars

LEMMA ScanRecordMoves ==
    ASSUME IInv, NEW w \in Workers, NEW t \in Tasks, ScanRecord(w, t)
    PROVE  /\ job'[w].task = t /\ \A u \in Tasks : job'[w].page[u] \in {job[w].page[u], Unread}
           /\ job'[w].pc \in {"scan", "observe", "record", "requeue"}
           /\ job'[w].pc = "observe" =>
                  Status(t) # "absent" /\ (Status(t) = "queued" => t \in delivered')
           /\ job'[w].pc = "record" => job[w].page[t].state \notin {"absent", "queued"}
<1> DEFINE rec == job[w].page[t]
           page == [job[w].page EXCEPT ![t] = Unread]
<1>1. job[w] \in Jobs
  BY DEF IInv, TypeOK
<1>2. PICK saw : saw = (job[w].saw \/ rec.state = "succeeded")
  OBVIOUS
<1>3. PICK half : half = [job[w] EXCEPT !.page[t] = Unread, !.saw = @ \/ rec.state = "succeeded"]
  OBVIOUS
<1>4. PICK rest : rest = [half EXCEPT !.task = t, !.ret = "scan"]
  OBVIOUS
<1>5. half.page = page /\ half.pc = job[w].pc /\ DOMAIN half = DOMAIN job[w]
  BY <1>1, <1>3 DEF Jobs
<1>6. rest.task = t /\ rest.page = page /\ rest.pc = "scan" /\ DOMAIN rest = DOMAIN job[w]
  BY <1>1, <1>4, <1>5 DEF Jobs, ScanRecord, At
<1>7. rest = [job[w] EXCEPT !.page[t] = Unread, !.saw = @ \/ rec.state = "succeeded",
                            !.task = t, !.ret = "scan"]
  BY <1>3, <1>4
<1>8. /\ t \in Unscanned(job[w])
      /\ \/ Become(w, rest)
         \/ Become(w, [rest EXCEPT !.missing = rest.missing \cup {t}])
         \/ /\ Become(w, [rest EXCEPT !.pc = "observe"]) /\ Status(t) # "absent"
            /\ Status(t) = "queued" => t \in delivered'
         \/ Become(w, [rest EXCEPT !.pc = "requeue"])
         \/ Become(w, [rest EXCEPT !.pc = "record", !.seen = Glimpse(t)]) /\ rec.state # "queued"
  BY <1>7 DEF ScanRecord, Wakes, Wakeable, Runnable
<1>9. rec.state # "absent"
  BY <1>8 DEF Unscanned
<1>10. \A u \in Tasks : page[u] \in {job[w].page[u], Unread}
  BY <1>1 DEF Jobs
<1> HIDE DEF page
<1>11. /\ job'[w].task = t /\ job'[w].page = page
       /\ \/ job'[w].pc \in {"scan", "requeue"}
          \/ /\ job'[w].pc = "observe" /\ Status(t) # "absent"
             /\ Status(t) = "queued" => t \in delivered'
          \/ job'[w].pc = "record" /\ rec.state # "queued"
  <2>1. CASE Become(w, rest)
    BY <1>6, <2>1, Moves
  <2>2. CASE Become(w, [rest EXCEPT !.missing = rest.missing \cup {t}])
    <3>1. job'[w] = [rest EXCEPT !.missing = rest.missing \cup {t}]
      BY <2>2, Moves
    <3> QED BY <1>1, <1>6, <3>1 DEF Jobs
  <2>3. CASE /\ Become(w, [rest EXCEPT !.pc = "observe"]) /\ Status(t) # "absent"
             /\ Status(t) = "queued" => t \in delivered'
    <3>1. job'[w] = [rest EXCEPT !.pc = "observe"]
      BY <2>3, Moves
    <3> QED BY <1>1, <1>6, <2>3, <3>1 DEF Jobs
  <2>4. CASE Become(w, [rest EXCEPT !.pc = "requeue"])
    <3>1. job'[w] = [rest EXCEPT !.pc = "requeue"]
      BY <2>4, Moves
    <3> QED BY <1>1, <1>6, <3>1 DEF Jobs
  <2>5. CASE Become(w, [rest EXCEPT !.pc = "record", !.seen = Glimpse(t)]) /\ rec.state # "queued"
    <3>1. PICK s : s = Glimpse(t)
      OBVIOUS
    <3>2. job'[w] = [rest EXCEPT !.pc = "record", !.seen = s]
      BY <2>5, <3>1, Moves
    <3>3. job'[w].pc = "record" /\ job'[w].task = t /\ job'[w].page = page
      BY <1>1, <1>6, <3>2 DEF Jobs
    <3> QED BY <2>5, <3>3
  <2> QED BY <1>8, <2>1, <2>2, <2>3, <2>4, <2>5
<1> QED BY <1>9, <1>10, <1>11

LEMMA ReserveMoves ==
    ASSUME IInv, NEW w \in Workers, NEW t \in Tasks, Reserve(w, t)
    PROVE  \/ AtRest(job'[w])
           \/ /\ job'[w].task = t /\ job'[w].page = job[w].page
              /\ job'[w].pc = "lease" \/ ledger[t].state \notin Unstarted
              /\ job'[w].pc = "command" => job'[w].act = "redo"
<1>1. job[w] \in Jobs
  BY DEF IInv, TypeOK
<1>2. PICK half : half = [job[w] EXCEPT !.task = t, !.ret = "loop"]
  OBVIOUS
<1>3. PICK rest : rest = [half EXCEPT !.missing = @ \ {t},
                              !.queue = IF t \in job[w].missing THEN @ ELSE @ \ {t}]
  OBVIOUS
<1>4. half.task = t /\ half.page = job[w].page /\ DOMAIN half = DOMAIN job[w]
  BY <1>1, <1>2 DEF Jobs
<1>5. rest.task = t /\ rest.page = job[w].page /\ DOMAIN rest = DOMAIN job[w]
  BY <1>1, <1>3, <1>4 DEF Jobs
<1>6. rest = [job[w] EXCEPT !.task = t, !.ret = "loop", !.missing = @ \ {t},
                            !.queue = IF t \in job[w].missing THEN @ ELSE @ \ {t}]
  BY <1>1, <1>2, <1>3 DEF Jobs
<1>7. \/ job'[w] = Resting(rest)
      \/ job'[w] = [rest EXCEPT !.pc = "lease"]
      \/ job'[w] = [rest EXCEPT !.pc = "observe"] /\ ledger[t].state \in {"dispatched", "waiting"}
      \/ job'[w] = [rest EXCEPT !.pc = "command", !.act = "redo"] /\ ledger[t].state = "failed"
  BY <1>6, Moves DEF Reserve
<1>8. CASE job'[w] = Resting(rest)
  BY <1>8, RestingRests
<1>9. CASE job'[w] = [rest EXCEPT !.pc = "lease"]
  BY <1>1, <1>5, <1>9 DEF Jobs
<1>10. CASE job'[w] = [rest EXCEPT !.pc = "observe"] /\ ledger[t].state \in {"dispatched", "waiting"}
  BY <1>1, <1>5, <1>10 DEF Jobs, Unstarted
<1>11. CASE job'[w] = [rest EXCEPT !.pc = "command", !.act = "redo"] /\ ledger[t].state = "failed"
  BY <1>1, <1>5, <1>11 DEF Jobs, Unstarted
<1> QED BY <1>7, <1>8, <1>9, <1>10, <1>11

LEMMA NextUnknown == IInv /\ UnknownInv /\ [Next]_vars => UnknownInv'
<1> SUFFICES ASSUME IInv, UnknownInv, [Next]_vars PROVE UnknownInv'
  OBVIOUS
<1>1. \A t \in Tasks : run[t] \in Runs /\ Status(t) = run[t].status
  BY DEF IInv, TypeOK, Status
<1>2. Runnable \cap {"succeeded", "unknown"} = {} /\ TypeOK
  BY DEF Runnable, IInv
<1>3. ASSUME NEW t \in Tasks
      PROVE  /\ run'[t].resume \notin {"unknown", "succeeded"}
             /\ tick'[t].pc \in {"asking", "judging"} => run'[t].status # "unknown"
  <2>1. CASE run'[t] = run[t]
    <3>1. tick'[t].pc \in {"asking", "judging"} => Status(t) # "unknown"
      BY TicksStay DEF UnknownInv, Turns
    <3> QED BY <1>1, <2>1, <3>1 DEF UnknownInv
  <2>2. CASE UNCHANGED tick /\ run'[t].status = "queued" /\ run'[t].resume \in {run[t].resume, "running"}
    BY <2>2 DEF UnknownInv
  <2>3. CASE \E w \in Workers : \E r \in After(run[t], job[w].act) : r \in Runs /\ SetRun(t, r)
    <3>0. PICK w \in Workers : \E r \in After(run[t], job[w].act) : r \in Runs /\ SetRun(t, r)
      BY <2>3
    <3>1. PICK r \in After(run[t], job[w].act) : r \in Runs /\ SetRun(t, r)
      BY <3>0
    <3>2. /\ r.status \in Runnable \cup {"paused", "cancelled", run[t].resume}
          /\ r.resume \in Runnable \cup {run[t].resume}
      BY <1>1, <3>1, AfterFacts
    <3>3. run'[t].status = r.status /\ run'[t].resume \in {r.resume, "running"}
      BY <1>2, <3>1, SetRunFacts
    <3> QED BY <1>2, <3>2, <3>3 DEF UnknownInv
  <2>4. CASE RunnerStep(t) /\ \E r : RunnerSets(t, r)
    <3>1. PICK r : RunnerSets(t, r)
      BY <2>4
    <3>2. run'[t].status = r.status /\ run'[t].resume \in {r.resume, "running"}
      BY <1>2, <3>1, SetRunFacts DEF RunnerSets
    <3>3. run'[t].resume \notin {"unknown", "succeeded"}
      BY <1>2, <3>1, <3>2 DEF RunnerSets, UnknownInv
    <3>4. PICK k : Turns(t, k)
      BY <2>4, RunnerTurns
    <3>5. tick'[t] = k
      BY <3>4 DEF Turns, IInv, TypeOK
    <3>6. k.pc \in {"asking", "judging"} => run'[t] = run[t] /\ Status(t) # "unknown"
      BY <3>4 DEF Turns
    <3> QED BY <1>1, <3>3, <3>5, <3>6
  <2> QED BY <2>1, <2>2, <2>3, <2>4, RunsStay
<1>4. ASSUME NEW w \in Workers, job'[w].pc = "command" PROVE w \in Callers \/ job'[w].act = "redo"
  <2>1. CASE job'[w] = job[w]
    BY <1>4, <2>1 DEF UnknownInv, At
  <2>2. CASE \E t \in Tasks : ScanRecord(w, t)
    BY <1>4, <2>2, ScanRecordMoves
  <2>3. CASE \E t \in Tasks : Reserve(w, t)
    BY <1>4, <2>3, ReserveMoves DEF AtRest
  <2> QED BY <1>4, <2>1, <2>2, <2>3, CallsStay DEF JobMoves, AtRest
<1> QED BY <1>3, <1>4 DEF UnknownInv, Status, At

UnknownStep ==
    \A t \in Tasks : Status(t) = "unknown" /\ Status(t)' # "unknown" =>
        \E c \in Callers : /\ job[c].pc = "command" /\ job[c].task = t
                           /\ job[c].act \in {"reconcile", "cancel"}

LEMMA NextUnknownStep == IInv /\ UnknownInv /\ [Next]_vars => UnknownStep
<1> SUFFICES ASSUME IInv, UnknownInv, [Next]_vars, NEW t \in Tasks,
                    Status(t) = "unknown", Status(t)' # "unknown"
             PROVE  \E c \in Callers : /\ job[c].pc = "command" /\ job[c].task = t
                                       /\ job[c].act \in {"reconcile", "cancel"}
  BY DEF UnknownStep
<1>1. run[t] \in Runs /\ run[t].status = "unknown" /\ run'[t].status # "unknown" /\ TypeOK
  BY DEF IInv, TypeOK, Status
<1>2. CASE \E w \in Workers : /\ At(w, "command") /\ job[w].task = t
               /\ \E r \in After(run[t], job[w].act) : r \in Runs /\ SetRun(t, r)
  <2>1. PICK w \in Workers : /\ At(w, "command") /\ job[w].task = t
                 /\ \E r \in After(run[t], job[w].act) : r \in Runs /\ SetRun(t, r)
    BY <1>2
  <2>2. job[w].act \in {"cancel", "reconcile"}
    BY <1>1, <2>1, AfterFacts
  <2> QED BY <2>1, <2>2 DEF UnknownInv, At
<1>3. CASE RunnerStep(t) /\ \E r : RunnerSets(t, r)
  <2>1. PICK r : RunnerSets(t, r)
    BY <1>3
  <2>2. run'[t].status = r.status
    BY <1>1, <2>1, SetRunFacts DEF RunnerSets
  <2> QED BY <1>1, <2>1, <2>2 DEF RunnerSets, UnknownInv
<1> QED BY <1>1, <1>2, <1>3, RunsStay DEF Status

\* A Run whose outcome is unknown is never resent silently: no sweep, no notify, no runner
\* and no recovery moves it, for any number of pumps; an owner's reconcile or cancel does.
THEOREM UnknownIsTheOwners == Spec => UnknownAwaitsOwner
<1>1. IInv /\ UnknownInv /\ [Next]_vars => [UnknownStep]_vars
  BY NextUnknownStep
<1> QED BY <1>1, InitIInv, NextIInv, InitUnknown, NextUnknown, PTL
        DEF Spec, UnknownAwaitsOwner, UnknownStep

-----------------------------------------------------------------------------
(* A review that is closed *)

LEMMA SucceedReports ==
    ASSUME NEW nodes \in Nodes, OpenIsCleared(nodes), NEW t \in Tasks, Accepts(nodes, t, "succeed")
    PROVE  Reported(nodes, t, "succeed")[t].status = "succeeded"
<1>1. CASE Redundant(nodes, t, "succeed")
  BY <1>1 DEF Reported, Redundant, Reached
<1>2. CASE ~Redundant(nodes, t, "succeed")
  <2> DEFINE to == CHOOSE s \in TaskStatuses : <<nodes[t].status, "succeed", s>> \in Table
             mid == Transitioned(nodes, t, "succeed")
  <2>1. to \in TaskStatuses /\ <<nodes[t].status, "succeed", to>> \in Table
    BY <1>2 DEF Accepts, CanMove
  <2>2. to = "succeeded"
    BY <2>1 DEF Table, Suspended
  <2> HIDE DEF to
  <2>3. mid[t].status = to
    BY DEF Transitioned, to, Nodes
  <2>4. mid \in Nodes /\ OpenIsCleared(mid)
    BY <1>2, TransitionedFacts DEF Accepts, Grows
  <2>5. Reported(nodes, t, "succeed") = RefreshReady(mid)
    BY <1>2 DEF Reported, Moved
  <2> HIDE DEF mid
  <2> QED BY <2>2, <2>3, <2>4, <2>5, RefreshFacts
<1> QED BY <1>1, <1>2

\* A success is reported last, and not at all only where it is there.
LEMMA SuccessIsReported ==
    ASSUME NEW status
    PROVE  LET todo == SyncSteps("succeeded", status) IN
           /\ todo = <<>> => status = "succeeded"
           /\ todo # <<>> => todo[Len(todo)] = "succeed"
<1>1. "succeeded" \in DOMAIN LastReport /\ LastReport["succeeded"] = <<"succeed">>
  BY DEF LastReport
<1>2. TaskStatusFor("succeeded") = "succeeded"
  BY DEF TaskStatusFor
<1>3. SyncSteps("succeeded", status) = IF status = "succeeded" THEN <<>>
                                       ELSE (Reopened(status) \o <<"start">>) \o <<"succeed">>
  BY <1>1, <1>2 DEF SyncSteps
<1>4. PICK before \in Seq(Transitions) : before = Reopened(status) \o <<"start">>
  <2>1. {"retry", "start"} \subseteq Transitions
    BY DEF Transitions
  <2>6. \A transition \in Transitions : <<transition>> \in Seq(Transitions)
    OBVIOUS
  <2>7. <<"start">> \in Seq(Transitions) /\ <<"retry">> \in Seq(Transitions)
        /\ <<>> \in Seq(Transitions)
    BY <2>1, <2>6
  <2>2. PICK start : start = <<"start">> /\ start \in Seq(Transitions)
    BY <2>7
  <2>3. Reopened(status) = <<>> \/ Reopened(status) = <<"retry">>
    BY DEF Reopened
  <2>4. PICK opened \in Seq(Transitions) : opened = Reopened(status)
    BY <2>3, <2>7
  <2>5. opened \o start \in Seq(Transitions)
    BY <2>2, <2>4
  <2> QED BY <2>2, <2>4, <2>5
<1>5. /\ Len(before \o <<"succeed">>) = Len(before) + 1
      /\ (before \o <<"succeed">>)[Len(before) + 1] = "succeed"
  BY DEF Transitions
<1> QED BY <1>3, <1>4, <1>5

LEMMA SuccessStays ==
    ASSUME IInv, [Next]_vars, NEW t \in Tasks, node[t].status = "succeeded"
    PROVE  node'[t].status = "succeeded"
<1>1. CASE UNCHANGED node
  BY <1>1
<1>2. CASE \E u \in Tasks : Grows(node, node', u)
  BY <1>2 DEF Grows
<1> QED BY <1>1, <1>2, NodeKept

\* The close of a review sends the task's success last, and comes after it.
ReviewInv ==
    /\ ReviewedRunSucceededTask
    /\ \A t \in Tasks : tick[t].pc = "closing" => node[t].status = "succeeded"
    /\ \A t \in Tasks : tick[t].pc = "apply" /\ tick[t].mode \in {"finish", "refinish"} =>
                            tick[t].todo[Len(tick[t].todo)] = "succeed"

LEMMA InitReview == Init => ReviewInv
BY DEF Init, ReviewInv, ReviewedRunSucceededTask, Status, NoTick

LEMMA NextReview == IInv /\ UnknownInv /\ ReviewInv /\ [Next]_vars => ReviewInv'
<1> SUFFICES ASSUME IInv, UnknownInv, ReviewInv, [Next]_vars PROVE ReviewInv'
  OBVIOUS
<1>1. /\ TypeOK /\ node \in Nodes /\ OpenIsCleared(node)
      /\ \A t \in Tasks : run[t] \in Runs /\ GoodTick(tick[t])
  BY DEF IInv, TypeOK, Nodes
<1>2. ASSUME NEW t \in Tasks, run'[t].status = "succeeded", ~run'[t].partial
      PROVE  node'[t].status = "succeeded"
  <2>1. CASE run'[t] = run[t]
    BY <1>2, <2>1, SuccessStays DEF ReviewInv, ReviewedRunSucceededTask, Status
  <2>2. CASE run'[t].status = "queued"
    BY <1>2, <2>2
  <2>3. CASE \E w \in Workers : \E r \in After(run[t], job[w].act) : r \in Runs /\ SetRun(t, r)
    <3>1. PICK w \in Workers : \E r \in After(run[t], job[w].act) : r \in Runs /\ SetRun(t, r)
      BY <2>3
    <3>2. PICK r \in After(run[t], job[w].act) : r \in Runs /\ SetRun(t, r)
      BY <3>1
    <3>3. r.status \in Runnable \cup {"paused", "cancelled", run[t].resume}
      BY <1>1, <3>2, AfterFacts
    <3>4. r.status # "succeeded"
      BY <3>3 DEF Runnable, UnknownInv
    <3>5. run'[t].status = r.status
      BY <1>1, <3>2, SetRunFacts
    <3> QED BY <1>2, <3>4, <3>5
  <2>4. CASE \E r : RunnerSets(t, r)
    <3>1. PICK r : RunnerSets(t, r)
      BY <2>4
    <3>2. run'[t].status = r.status /\ run'[t].partial = r.partial
      BY <1>1, <3>1, SetRunFacts DEF RunnerSets
    <3>3. tick[t].pc = "closing"
      BY <1>2, <3>1, <3>2 DEF RunnerSets
    <3> QED BY <3>3, SuccessStays DEF ReviewInv
  <2> QED BY <2>1, <2>2, <2>3, <2>4, RunsStay
<1>3. ASSUME NEW t \in Tasks
      PROVE  /\ tick'[t].pc = "closing" => node'[t].status = "succeeded"
             /\ tick'[t].pc = "apply" /\ tick'[t].mode \in {"finish", "refinish"} =>
                    tick'[t].todo[Len(tick'[t].todo)] = "succeed"
  <2>1. CASE tick'[t] = tick[t]
    BY <2>1, SuccessStays DEF ReviewInv
  <2>2. CASE Turns(t, tick'[t]) /\ tick'[t].pc \in {"closing", "apply"}
             /\ tick'[t].mode \in {"finish", "refinish"}
    <3>1. PICK todo : todo = tick'[t].todo
      OBVIOUS
    <3>2. /\ Sends(t, todo) /\ tick[t].mode \in {"finish", "refinish"}
          /\ tick'[t].pc = "apply" => todo # <<>>
          /\ tick'[t].pc = "closing" => todo = <<>>
      BY <2>2, <3>1 DEF Turns
    <3>3. CASE TickRead(t) /\ todo = SyncSteps(ReadStatus(t), node[t].status)
      <4>1. ReadStatus(t) = "succeeded"
        BY <3>2 DEF ReadStatus
      <4>2. /\ todo = <<>> => node[t].status = "succeeded"
            /\ todo # <<>> => todo[Len(todo)] = "succeed"
        BY <3>3, <4>1, SuccessIsReported
      <4> QED BY <3>1, <3>2, <4>2, SuccessStays
    <3>4. CASE TickApply(t) /\ todo = Tail(tick[t].todo)
      <4>1. PICK old \in Seq(Transitions) : old = tick[t].todo
        BY <1>1 DEF GoodTick, Ticks
      <4>2. old # <<>> /\ old[Len(old)] = "succeed"
        BY <1>1, <3>2, <3>4, <4>1 DEF TickApply, GoodTick, ReviewInv
      <4>3. Accepts(node, t, Head(old)) /\ node' = Reported(node, t, Head(old))
        BY <3>4, <4>1 DEF TickApply
      <4>4. CASE todo = <<>>
        <5>0. Len(Tail(old)) = Len(old) - 1 /\ Head(old) = old[1] /\ Len(old) \in Nat
          BY <4>1, <4>2
        <5>3. Len(todo) = 0 /\ todo = Tail(old)
          BY <3>4, <4>1, <4>4
        <5>1. Len(old) = 1 /\ Head(old) = old[1]
          BY <5>0, <5>3
        <5>2. Head(old) = "succeed"
          BY <4>2, <5>1
        <5> QED BY <1>1, <3>2, <4>3, <4>4, <5>2, SucceedReports
      <4>5. CASE todo # <<>>
        <5>1. todo[Len(todo)] = old[Len(old)]
          BY <3>4, <4>1, <4>2, <4>5
        <5> QED BY <3>1, <3>2, <4>2, <4>5, <5>1
      <4> QED BY <4>4, <4>5
    <3> QED BY <3>2, <3>3, <3>4 DEF Sends
  <2>3. CASE Turns(t, tick'[t]) /\ tick'[t].pc = "closing" /\ tick'[t].mode \notin {"finish", "refinish"}
    BY <2>3 DEF Turns
  <2> QED BY <2>1, <2>2, <2>3, TicksStay
<1> QED BY <1>2, <1>3 DEF ReviewInv, ReviewedRunSucceededTask, Status

\* No client ever sees a Run that its review closed as succeeded while its task is not:
\* whatever the owner does to the task by hand, wherever the runner is cut off between the
\* task's receipt and the close, and whichever commands the Run gets meanwhile.
THEOREM ReviewClosesAfterTask == Spec => []ReviewedRunSucceededTask
<1>1. ReviewInv => ReviewedRunSucceededTask
  BY DEF ReviewInv
<1> QED BY <1>1, InitIInv, NextIInv, InitUnknown, NextUnknown, InitReview, NextReview, PTL DEF Spec

-----------------------------------------------------------------------------
(* A reservation nobody has addressed *)

LEMMA HistoryGrows ==
    ASSUME IInv, [Next]_vars
    PROVE  delivered \subseteq delivered' /\ addressed \subseteq addressed'
<1> DEFINE Goal == delivered \subseteq delivered' /\ addressed \subseteq addressed'
<1>1. CASE UNCHANGED <<delivered, addressed>>
  BY <1>1
<1>2. ASSUME NEW w \in Workers, ScheduleStep(w) \/ Crash(w) PROVE Goal
  <2>1. ASSUME NEW t \in Tasks, ScanRecord(w, t) PROVE Goal
    BY <2>1 DEF ScanRecord, Quiet, counters, Fault
  <2>2. CASE Signal(w) \/ Notify(w)
    BY <2>2 DEF Signal, Notify, Quiet, counters, Fault
  <2>3. CASE Create(w) \/ Crash(w)
    BY <2>3 DEF Create, Crash, Quiet, counters, Fault, stores
  <2>4. CASE \/ \E t \in Tasks : Reserve(w, t)
             \/ Requeue(w) \/ EndScan(w) \/ Observe(w) \/ Record(w) \/ Unlock(w) \/ SweepAfter(w)
             \/ Lease(w) \/ Look(w) \/ Insert(w) \/ View(w) \/ Ack(w) \/ Release(w)
    BY <2>4 DEF Reserve, Requeue, EndScan, Observe, Record, Unlock, SweepAfter, Lease, Look,
                Insert, View, Ack, Release, stores, counters
  <2>5. CASE Command(w) \/ CommandSync(w) \/ CommandApply(w) \/ Recount(w) \/ Decide(w)
    BY <2>5 DEF Command, CommandSync, CommandApply, Recount, Decide, stores, counters
  <2> QED BY <1>2, <2>1, <2>2, <2>3, <2>4, <2>5 DEF ScheduleStep
<1>3. CASE \E t \in Tasks, transition \in OwnerMoves : TransitionTask(t, transition)
  BY <1>3 DEF TransitionTask
<1>4. CASE (\E p \in Pumps : StartSweep(p)) \/ (\E t \in Tasks : Expire(t))
  BY <1>4 DEF StartSweep, Expire, stores, counters
<1>5. CASE \E c \in Callers : Request(c)
  BY <1>5 DEF Request, SchedulePlan, ReconcilePlan, ScheduleTask, Control, ControlDispatch, Begin,
              stores
<1>6. CASE \E t \in Tasks : RunnerStep(t)
  BY <1>6 DEF RunnerStep, TickPlan, Plan, TickExecute, TickDone, TickReview, AnswerDiscarded,
              AnswerBad, AnswerStep, AnswerReview, TickRead, TickApply, TickRefused, Close, Throw,
              CrashRunner, Recover, Fault, stores, counters
<1>7. CASE UNCHANGED vars
  BY <1>7 DEF vars
<1> QED BY <1>2, <1>3, <1>4, <1>5, <1>6, <1>7 DEF Next

\* Only a call that has seen the Run writes more than `queued` into a record.
LEMMA LedgerStays ==
    ASSUME IInv, [Next]_vars, NEW t \in Tasks
    PROVE  \/ ledger'[t].state \in {ledger[t].state, "queued"}
           \/ \E w \in Workers : job[w].task = t /\ job[w].pc \in {"record", "ack"}
<1> DEFINE Goal == \/ ledger'[t].state \in {ledger[t].state, "queued"}
                   \/ \E w \in Workers : job[w].task = t /\ job[w].pc \in {"record", "ack"}
<1>1. /\ ledger \in [Tasks -> Records] /\ \A u \in Tasks : ledger[u] \in Records
      /\ \A w \in Workers : job[w].task \in Tasks
  BY DEF IInv, TypeOK, GoodJob, Jobs
<1>2. UNCHANGED ledger => Goal
  OBVIOUS
<1>3. ASSUME NEW u \in Tasks, NEW rec, SetRecord(u, rec),
             u # t \/ rec.state \in {ledger[t].state, "queued"}
      PROVE  Goal
  BY <1>1, <1>3 DEF SetRecord
<1>4. ASSUME NEW u \in Tasks
      PROVE  /\ LET rec == [ledger[u] EXCEPT !.state = "queued"] IN rec.state = "queued"
             /\ \A n : LET rec == [ledger[u] EXCEPT !.state = "queued", !.attempt = n] IN
                           rec.state = "queued"
             /\ LET rec == [ledger[u] EXCEPT !.live = FALSE] IN rec.state = ledger[u].state
             /\ Closed(u, "queued").state = "queued"
  BY <1>1 DEF Records, Closed
<1>5. ASSUME NEW w \in Workers, ScheduleStep(w) PROVE Goal
  <2> PICK u \in Tasks : u = job[w].task
    BY <1>1
  <2>1. CASE Requeue(w)
    BY <1>3, <1>4, <2>1 DEF Requeue
  <2>2. CASE \E v \in Tasks : Reserve(w, v)
    <3>1. PICK v \in Tasks : Reserve(w, v)
      BY <2>2
    <3>2. PICK n : n = job[w].ready[v]
      OBVIOUS
    <3>3. UNCHANGED ledger \/ SetRecord(v, [ledger[v] EXCEPT !.state = "queued", !.attempt = n])
      BY <3>1, <3>2 DEF Reserve
    <3> QED BY <1>2, <1>3, <1>4, <3>3
  <2>3. CASE Lease(w)
    <3>1. PICK rec : rec = [ledger[u] EXCEPT !.token = w, !.live = TRUE]
      OBVIOUS
    <3>2. u # t \/ rec.state = ledger[t].state
      BY <1>1, <3>1 DEF Records
    <3>3. UNCHANGED ledger \/ SetRecord(u, rec)
      BY <2>3, <3>1 DEF Lease
    <3> QED BY <1>2, <1>3, <3>2, <3>3
  <2>4. CASE Release(w)
    <3>1. UNCHANGED ledger \/ SetRecord(u, Closed(u, "queued"))
      BY <2>4 DEF Release
    <3> QED BY <1>2, <1>3, <1>4, <3>1
  <2>5. CASE Record(w) \/ Ack(w)
    <3>1. /\ job[w].pc \in {"record", "ack"}
          /\ UNCHANGED ledger \/ \E rec : SetRecord(u, rec)
      BY <2>5 DEF Record, Ack, At
    <3> QED BY <1>2, <1>3, <3>1
  <2>6. CASE Recount(w)
    <3>1. \E n, rec : rec = [ledger[u] EXCEPT !.attempt = n] /\ SetRecord(u, rec)
      BY <2>6 DEF Recount
    <3>2. PICK n, rec : rec = [ledger[u] EXCEPT !.attempt = n] /\ SetRecord(u, rec)
      BY <3>1
    <3>3. u # t \/ rec.state = ledger[t].state
      BY <1>1, <3>2 DEF Records
    <3> QED BY <1>3, <3>2, <3>3
  <2>7. CASE \/ \E v \in Tasks : ScanRecord(w, v)
             \/ EndScan(w) \/ Observe(w) \/ Unlock(w) \/ SweepAfter(w) \/ Look(w) \/ Create(w)
             \/ Insert(w) \/ Signal(w) \/ View(w) \/ Command(w) \/ CommandSync(w)
             \/ CommandApply(w) \/ Notify(w) \/ Decide(w)
    BY <1>2, <2>7
    DEF ScanRecord, EndScan, Observe, Unlock, SweepAfter, Look, Create, Insert, Signal, View,
        Command, CommandSync, CommandApply, Notify, Decide, stores
  <2> QED BY <1>5, <2>1, <2>2, <2>3, <2>4, <2>5, <2>6, <2>7 DEF ScheduleStep
<1>6. CASE \E u \in Tasks : Expire(u)
  BY <1>3, <1>4, <1>6 DEF Expire
<1>7. CASE \/ \E p \in Pumps : StartSweep(p)
           \/ \E w \in Workers : Crash(w)
           \/ \E u \in Tasks, transition \in OwnerMoves : TransitionTask(u, transition)
  BY <1>2, <1>7 DEF StartSweep, Crash, TransitionTask, stores
<1>8. CASE \E c \in Callers : Request(c)
  BY <1>2, <1>8 DEF Request, SchedulePlan, ReconcilePlan, ScheduleTask, Control, ControlDispatch,
                    Begin, stores
<1>9. CASE \E u \in Tasks : RunnerStep(u)
  BY <1>2, <1>9
     DEF RunnerStep, TickPlan, Plan, TickExecute, TickDone, TickReview, AnswerDiscarded, AnswerBad,
         AnswerStep, AnswerReview, TickRead, TickApply, TickRefused, Close, Throw, CrashRunner,
         Recover, stores
<1>10. CASE UNCHANGED vars
  BY <1>2, <1>10 DEF vars
<1> QED BY <1>5, <1>6, <1>7, <1>8, <1>9, <1>10 DEF Next

\* A call remembers of such a task only that it was not reserved or queued, and where it is
\* about to signal the Run's runner, that there is a Run to be woken.
ColdJob(j, t) ==
    /\ j.page[t].state \in Unstarted
    /\ j.task = t => j.pc \in ColdPCs /\ (j.pc = "signal" => j.seen = "dispatched")

\* Until somebody addresses a task or its runner is told of it, its Run has not begun.
ColdInv ==
    \A t \in Tasks \ (delivered \cup addressed) :
        /\ Status(t) \in Unstarted /\ ledger[t].state \in Unstarted /\ ColdTick(tick[t])
        /\ \A w \in Workers : ColdJob(job[w], t)

LEMMA InitCold == Init => ColdInv
<1> SUFFICES ASSUME Init PROVE ColdInv
  OBVIOUS
<1>1. \A t \in Tasks : ColdJob(NoJob, t)
  BY DEF NoJob, ColdJob, Unread, Unstarted, ColdPCs
<1>2. ColdTick(NoTick)
  BY DEF NoTick, ColdTick
<1> QED BY <1>1, <1>2 DEF Init, ColdInv, Status, Unstarted

LEMMA ColdJobsStay ==
    ASSUME IInv, ColdInv, [Next]_vars, NEW t \in Tasks, t \notin delivered' \cup addressed',
           NEW w \in Workers
    PROVE  ColdJob(job'[w], t)
<1>1. /\ t \notin delivered \cup addressed
      /\ Status(t) \in Unstarted /\ ledger[t].state \in Unstarted /\ ColdJob(job[w], t)
  BY HistoryGrows DEF ColdInv
<1>2. /\ Unread.state \in Unstarted /\ Page[t].state = ledger[t].state
      /\ {"idle", "loop", "sweep", "scan", "look", "create", "insert", "release", "lease",
          "requeue", "signal"} \subseteq ColdPCs
      /\ "signal" \notin {"idle", "loop", "sweep", "scan", "lease", "requeue"}
  BY DEF Unread, Unstarted, Page, ColdPCs
<1>3. CASE job'[w] = job[w]
  BY <1>1, <1>3
<1>4. CASE job'[w].task \in addressed' /\ \A u \in Tasks : job'[w].page[u] = Unread
  BY <1>2, <1>4 DEF ColdJob
<1>5. CASE AtRest(job'[w])
  BY <1>2, <1>5 DEF AtRest, ColdJob
<1>6. CASE job'[w].pc = "scan" /\ job'[w].page \in {job[w].page, Page}
  BY <1>1, <1>2, <1>6 DEF ColdJob
<1>7. CASE /\ job'[w].page = job[w].page /\ job'[w].task = job[w].task
           /\ \/ job[w].pc \notin ColdPCs
              \/ job'[w].pc \in {"look", "create", "insert", "release"}
              \/ /\ job'[w].pc = "signal"
                 /\ \/ job'[w].seen = "dispatched"
                    \/ job'[w].seen = Glimpse(job[w].task) /\ Status(job[w].task) # "absent"
              \/ /\ job'[w].pc = "view" /\ job[w].pc = "signal"
                 /\ job[w].seen = "dispatched" => job[w].task \in delivered'
  <2>1. CASE job[w].task # t
    BY <1>1, <1>7, <2>1 DEF ColdJob
  <2>2. CASE job[w].task = t
    <3>1. job[w].pc \in ColdPCs /\ (job[w].pc = "signal" => job[w].seen = "dispatched")
      BY <1>1, <2>2 DEF ColdJob
    <3>2. Status(t) # "absent" => Glimpse(t) = "dispatched"
      BY <1>1 DEF Unstarted, Glimpse, StateForRun, Terminal
    <3> QED BY <1>1, <1>2, <1>7, <2>2, <3>1, <3>2 DEF ColdJob
  <2> QED BY <2>1, <2>2
<1>8. CASE \E u \in Tasks : ScanRecord(w, u)
  <2>1. PICK u \in Tasks : ScanRecord(w, u)
    BY <1>8
  <2>2. /\ job'[w].task = u /\ job'[w].page[t] \in {job[w].page[t], Unread}
        /\ job'[w].pc \in {"scan", "observe", "record", "requeue"}
        /\ job'[w].pc = "observe" =>
               Status(u) # "absent" /\ (Status(u) = "queued" => u \in delivered')
        /\ job'[w].pc = "record" => job[w].page[u].state \notin {"absent", "queued"}
    BY <2>1, ScanRecordMoves
  <2>3. job'[w].page[t].state \in Unstarted
    BY <1>1, <1>2, <2>2 DEF ColdJob
  <2>4. ASSUME u = t PROVE job'[w].pc \in {"scan", "requeue"}
    BY <1>1, <2>2, <2>4 DEF ColdJob, Unstarted
  <2> QED BY <1>2, <2>2, <2>3, <2>4 DEF ColdJob
<1>9. CASE \E u \in Tasks : Reserve(w, u)
  <2>1. PICK u \in Tasks : Reserve(w, u)
    BY <1>9
  <2>2. CASE ~AtRest(job'[w])
    <3>1. /\ job'[w].task = u /\ job'[w].page = job[w].page
          /\ job'[w].pc = "lease" \/ ledger[u].state \notin Unstarted
      BY <2>1, <2>2, ReserveMoves
    <3> QED BY <1>1, <1>2, <3>1 DEF ColdJob
  <2> QED BY <1>5, <2>2
<1> QED BY <1>3, <1>4, <1>5, <1>6, <1>7, <1>8, <1>9, CallsStay DEF JobMoves

LEMMA NextCold == IInv /\ ColdInv /\ [Next]_vars => ColdInv'
<1> SUFFICES ASSUME IInv, ColdInv, [Next]_vars,
                    NEW t \in Tasks, t \notin delivered' \cup addressed'
             PROVE  /\ run'[t].status \in Unstarted /\ ledger'[t].state \in Unstarted
                    /\ ColdTick(tick'[t]) /\ \A w \in Workers : ColdJob(job'[w], t)
  BY DEF ColdInv, Status
<1>1. /\ t \notin delivered /\ Status(t) \in Unstarted /\ ledger[t].state \in Unstarted
      /\ ColdTick(tick[t]) /\ \A w \in Workers : ColdJob(job[w], t)
  BY HistoryGrows DEF ColdInv
<1>2. "queued" \in Unstarted
  BY DEF Unstarted
<1>3. \A w \in Workers : job[w].task = t => job[w].pc \notin {"record", "ack", "command"}
  BY <1>1 DEF ColdJob, ColdPCs
<1>4. ledger'[t].state \in Unstarted
  BY <1>1, <1>2, <1>3, LedgerStays
<1>5. ColdTick(tick'[t])
  BY <1>1, TicksStay DEF Turns
<1>6. run'[t].status \in Unstarted
  <2>1. CASE run'[t] = run[t]
    BY <1>1, <2>1 DEF Status
  <2>2. CASE run'[t].status = "queued"
    BY <1>2, <2>2
  <2>3. CASE \E r : RunnerSets(t, r)
    BY <1>1, <2>3 DEF RunnerSets, ColdTick
  <2>4. CASE \E w \in Workers : At(w, "command") /\ job[w].task = t
    BY <1>3, <2>4 DEF At
  <2> QED BY <2>1, <2>2, <2>3, <2>4, RunsStay
<1> QED BY <1>4, <1>5, <1>6, ColdJobsStay

\* The pump acknowledges a reservation only after a notify for its Run was accepted: that
\* the Run exists, that its creator crashed and that a scan adopted it are not enough.
THEOREM AcknowledgedMeansTold == Spec => []UnaddressedMeansDelivered
<1>1. ColdInv => UnaddressedMeansDelivered
  BY DEF ColdInv, UnaddressedMeansDelivered, Unstarted
<1> QED BY <1>1, InitIInv, NextIInv, InitCold, NextCold, PTL DEF Spec
=============================================================================
