--------------------------- MODULE ControllerJobs ---------------------------
(***************************************************************************)
(* Controller implements JobLifecycle, and so has the properties proved of *)
(* it, for every set of nodes, domains and certificates and every bound.   *)
(*                                                                         *)
(* The proof is about one job at a time: every action of Controller is     *)
(* shown to leave each job where it was or to move it as JobLifecycle      *)
(* allows (Moves), or to create it (Born).                                 *)
(***************************************************************************)
EXTENDS ControllerTypes

\* It is the job's turn on its node.
Turn(j) ==
  \A i \in JobIds : AgentJob(jobs[i]) /\ jobs[i].node = jobs[j].node =>
    /\ jobs[i].status # "running"
    /\ i < j => jobs[i].status # "queued"

\* r is what becomes of job j, as far as JobLifecycle sees it.
Moves(j, r) ==
  \/ View(r) = View(jobs[j])
  \/ /\ View(r) = View(Dispatched(jobs[j]))
     /\ IF AgentJob(jobs[j]) THEN jobs[j].status = "queued" /\ Turn(j) ELSE Active(jobs[j])
  \/ jobs[j].status = "running" /\ View(r) = View(Redelivered(jobs[j]))
  \/ jobs[j].status = "running" /\ jobs[j].attempts < MaxAttempts /\ View(r) = View(Requeue(jobs[j]))
  \/ jobs[j].status = "running" /\ View(r) = View(Succeed(jobs[j]))
  \/ (jobs[j].status = "absent" => j = NoJob) /\ View(r) = View(Fail(jobs[j]))
  \/ j \in Clearable /\ r = AbsentJob

Born(j) ==
  /\ lastId < j /\ j <= lastId'
  /\ jobs[j].status = "absent"
  /\ jobs'[j].status = "queued" /\ jobs'[j].attempts = 0

\* No job has the identifier, or its place, yet: it was not given, or was given to
\* a retry that waits for its Update.
Unused(j) == lastId < j \/ retrying[j] # NoJob

\* Identifiers are given in order.
FreshIds ==
  \A j \in JobIds :
    /\ retrying[j] # NoJob => j # NoJob /\ j <= lastId
    /\ Unused(j) => jobs[j].status = "absent"

JobsInv == TypeOK /\ FreshIds

JobSteps ==
  /\ lastId <= lastId'
  /\ \A j \in JobIds : Moves(j, jobs'[j]) \/ Born(j)

New(r) == r.status = "queued" /\ r.attempts = 0

-----------------------------------------------------------------------------
(* JobSteps is a step of JobLifecycle *)

LEMMA MovesRefine ==
  ASSUME JobsInv, TypeOK', NEW j \in JobIds, Moves(j, jobs'[j])
  PROVE  Jobs!Step(j)
<1>. DEFINE V  == [i \in JobIds |-> View(jobs[i])]
            W  == [i \in JobIds |-> View(jobs'[i])]
<1>1. jobs[j] \in Job /\ jobs'[j] \in Job /\ jobs[j].attempts \in Nat
  BY DEF JobsInv, TypeOK, StateTypeOK, Job
<1>2. CASE View(jobs'[j]) = View(jobs[j])
  BY <1>2 DEF Jobs!Step
<1>3. CASE /\ View(jobs'[j]) = View(Dispatched(jobs[j]))
           /\ IF AgentJob(jobs[j]) THEN jobs[j].status = "queued" /\ Turn(j) ELSE Active(jobs[j])
  <2>1. AgentJob(jobs[j]) => Jobs!IsNext(j)
    BY <1>3 DEF Turn, Jobs!IsNext, Jobs!Ids, Jobs!Rivals, JobIds, View
  <2>2. View(Dispatched(jobs[j])) =
          [status |-> "running", node |-> jobs[j].node, remote |-> AgentJob(jobs[j]),
           attempts |-> jobs[j].attempts + 1,
           retry |-> jobs[j].retryOf # NoJob]
    BY <1>1 DEF View, Dispatched, AgentJob, Job
  <2>3. Jobs!Started(j)
    BY <1>3, <2>1, <2>2 DEF Jobs!Started, Jobs!Keeps, Jobs!IsActive, Active, View
  <2>. QED
    BY <2>3 DEF Jobs!Step
<1>4. CASE jobs[j].status = "running" /\ View(jobs'[j]) = View(Redelivered(jobs[j]))
  <2>1. View(Redelivered(jobs[j])) =
          [status |-> "running", node |-> jobs[j].node, remote |-> AgentJob(jobs[j]),
           attempts |-> IF jobs[j].attempts < MaxAttempts THEN jobs[j].attempts + 1
                                                          ELSE jobs[j].attempts,
           retry |-> jobs[j].retryOf # NoJob]
    BY <1>1, <1>4 DEF View, Redelivered, AgentJob, Job
  <2>2. CASE jobs[j].attempts < MaxAttempts
    <3>1. Jobs!Resent(j)
      BY <1>4, <2>1, <2>2 DEF Jobs!Resent, Jobs!Keeps, View
    <3>. QED
      BY <3>1 DEF Jobs!Step
  <2>3. CASE ~(jobs[j].attempts < MaxAttempts)
    <3>1. View(jobs'[j]) = View(jobs[j])
      BY <1>4, <2>1, <2>3 DEF View
    <3>. QED
      BY <3>1 DEF Jobs!Step
  <2>. QED
    BY <2>2, <2>3
<1>5. CASE /\ jobs[j].status = "running" /\ jobs[j].attempts < MaxAttempts
           /\ View(jobs'[j]) = View(Requeue(jobs[j]))
  <2>1. View(Requeue(jobs[j])) =
          [status |-> "queued", node |-> jobs[j].node, remote |-> AgentJob(jobs[j]),
           attempts |-> jobs[j].attempts, retry |-> jobs[j].retryOf # NoJob]
    BY <1>1 DEF View, Requeue, AgentJob, Job
  <2>2. Jobs!PutBack(j)
    BY <1>5, <2>1 DEF Jobs!PutBack, Jobs!Keeps, View
  <2>. QED
    BY <2>2 DEF Jobs!Step
<1>6. CASE jobs[j].status = "running" /\ View(jobs'[j]) = View(Succeed(jobs[j]))
  <2>1. View(Succeed(jobs[j])) =
          [status |-> "succeeded", node |-> jobs[j].node, remote |-> AgentJob(jobs[j]),
           attempts |-> jobs[j].attempts, retry |-> jobs[j].retryOf # NoJob]
    BY <1>1 DEF View, Succeed, AgentJob, Job
  <2>2. Jobs!Succeeded(j)
    BY <1>6, <2>1 DEF Jobs!Succeeded, Jobs!Keeps, View
  <2>. QED
    BY <2>2 DEF Jobs!Step
<1>7. CASE (jobs[j].status = "absent" => j = NoJob) /\ View(jobs'[j]) = View(Fail(jobs[j]))
  <2>1. View(Fail(jobs[j])) =
          [status |-> "failed", node |-> jobs[j].node, remote |-> AgentJob(jobs[j]),
           attempts |-> jobs[j].attempts, retry |-> jobs[j].retryOf # NoJob]
    BY <1>1 DEF View, Fail, AgentJob, Job
  <2>2. Jobs!Failed(j)
    BY <1>7, <2>1 DEF Jobs!Failed, Jobs!Keeps, View, NoJob
  <2>. QED
    BY <2>2 DEF Jobs!Step
<1>8. CASE j \in Clearable /\ jobs'[j] = AbsentJob
  <2>1. Jobs!Forgotten(j)
    BY <1>8 DEF Jobs!Forgotten, Clearable, View, AbsentJob
  <2>. QED
    BY <2>1 DEF Jobs!Step
<1>. QED
  BY <1>2, <1>3, <1>4, <1>5, <1>6, <1>7, <1>8 DEF Moves

LEMMA ViewsType ==
  ASSUME TypeOK'
  PROVE  /\ Jobs!Ids = JobIds /\ lastId' \in JobIds
         /\ [j \in JobIds |-> View(jobs'[j])] \in [JobIds -> Jobs!Job]
<1>1. \A j \in JobIds : View(jobs'[j]) \in Jobs!Job
  <2>. SUFFICES ASSUME NEW j \in JobIds PROVE View(jobs'[j]) \in Jobs!Job
    OBVIOUS
  <2>1. jobs'[j] \in Job
    BY DEF TypeOK, StateTypeOK
  <2>. QED
    BY <2>1 DEF View, AgentJob, Jobs!Job, Job, Statuses
<1>2. Jobs!Ids = JobIds /\ lastId' \in JobIds
  BY DEF Jobs!Ids, JobIds, TypeOK, StateTypeOK
<1>. QED
  BY <1>1, <1>2

LEMMA StepsRefine ==
  ASSUME JobsInv, TypeOK', JobSteps, UNCHANGED retrying
  PROVE  Jobs!Next /\ FreshIds'
<1>. lastId \in Nat /\ lastId' \in Nat /\ JobIds \subseteq Nat
  BY ConstantFacts DEF JobsInv, TypeOK, StateTypeOK
<1>1. \A j \in JobIds : Jobs!Step(j)
  <2>. SUFFICES ASSUME NEW j \in JobIds PROVE Jobs!Step(j)
    OBVIOUS
  <2>1. CASE Born(j)
    <3>1. retrying'[j] = NoJob
      BY <2>1 DEF Born, JobsInv, FreshIds
    <3>. QED
      BY <2>1, <3>1 DEF Jobs!Step, Jobs!Created, Born, View
  <2>. QED
    BY <2>1, MovesRefine DEF JobSteps
<1>4. Jobs!Next
  BY <1>1, ViewsType DEF Jobs!Next, JobSteps
<1>5. FreshIds'
  <2>. SUFFICES ASSUME NEW j \in JobIds, Unused(j)' PROVE jobs'[j].status = "absent"
    <3>1. \A j \in JobIds : retrying'[j] # NoJob => j # NoJob /\ j <= lastId'
      BY DEF JobsInv, FreshIds, JobSteps
    <3>. QED
      BY <3>1 DEF FreshIds
  <2>2. Unused(j) /\ j # NoJob /\ ~Born(j)
    BY DEF Unused, JobSteps, Born, NoJob, JobsInv, FreshIds
  <2>3. jobs[j].status = "absent"
    BY <2>2 DEF JobsInv, FreshIds
  <2>4. Moves(j, jobs'[j])
    BY <2>2 DEF JobSteps
  <2>. QED
    BY <2>2, <2>3, <2>4 DEF Moves, View, Active, Clearable, AbsentJob
<1>. QED
  BY <1>4, <1>5

\* A retry is refused, or forgotten when the controller stops.
LEMMA DropsRefine ==
  ASSUME JobsInv, TypeOK', UNCHANGED <<jobs, lastId>>,
         \A j \in JobIds : retrying'[j] \in {retrying[j], NoJob}
  PROVE  Jobs!Next /\ FreshIds'
<1>. lastId \in Nat
  BY ConstantFacts DEF JobsInv, TypeOK, StateTypeOK
<1>1. FreshIds'
  BY DEF JobsInv, FreshIds, Unused
<1>2. \A j \in JobIds : Jobs!Step(j)
  BY DEF Jobs!Step
<1>3. Jobs!Next
  BY <1>2, ViewsType DEF Jobs!Next
<1>. QED
  BY <1>1, <1>3

\* A retry takes the place it was given when it was received.
LEMMA RetriesRefine ==
  ASSUME JobsInv, TypeOK', RetryRequests
  PROVE  Jobs!Next /\ FreshIds'
<1>. lastId \in Nat /\ JobIds \subseteq Nat
  BY ConstantFacts DEF JobsInv, TypeOK, StateTypeOK
<1>. retrying \in [JobIds -> JobIds] /\ jobs \in [JobIds -> Job]
  BY DEF JobsInv, TypeOK, AdminTypeOK, StateTypeOK
<1>1. PICK i \in JobIds : ReceiveRetry(i) \/ RetryJob(i) \/ RefuseRetry(i)
  BY DEF RetryRequests
<1>2. \/ /\ lastId' = NextId /\ NextId \in JobIds /\ UNCHANGED jobs
         /\ retrying' = [retrying EXCEPT ![NextId] = i]
      \/ /\ UNCHANGED <<lastId, jobs>>
         /\ retrying' = [retrying EXCEPT ![i] = NoJob]
      \/ RetryJob(i)
  BY <1>1 DEF ReceiveRetry, RefuseRetry, stateVars
<1>3. CASE RetryJob(i)
  <2>. DEFINE k == retrying[i]
  <2>1. k \in JobIds /\ k # NoJob /\ jobs[k].status = "failed"
    BY <1>3 DEF RetryJob, MayRetry, Retriable
  <2>2. i # NoJob /\ i <= lastId /\ jobs[i].status = "absent" /\ i # k
    BY <2>1 DEF JobsInv, FreshIds, Unused
  <2>3. /\ jobs'[k] = [jobs[k] EXCEPT !.retryJob = i] /\ jobs'[i] = Retry(k)
        /\ \A j \in JobIds \ {i, k} : jobs'[j] = jobs[j]
        /\ UNCHANGED lastId /\ retrying' = [retrying EXCEPT ![i] = NoJob]
    BY <1>3, <2>2 DEF RetryJob
  <2>. HIDE DEF k
  <2>4. jobs[k] \in Job /\ View(jobs'[k]) = View(jobs[k])
    BY <2>1, <2>3 DEF View, AgentJob, Job
  <2>5. jobs'[i].status = "queued" /\ jobs'[i].attempts = 0 /\ jobs'[i].retryOf = k
    BY <2>3, <2>4 DEF Retry, Job
  <2>6. Jobs!Created(i)
    <3>1. View(jobs'[i]).retry
      BY <2>1, <2>5 DEF View
    <3>2. retrying[i] # NoJob /\ retrying'[i] = NoJob
      BY <2>1, <2>3 DEF k
    <3>. QED
      BY <2>2, <2>5, <3>1, <3>2 DEF Jobs!Created, View
  <2>7. \A j \in JobIds : Jobs!Step(j)
    BY <2>3, <2>4, <2>6 DEF Jobs!Step
  <2>8. FreshIds'
    <3>. SUFFICES ASSUME NEW j \in JobIds
                  PROVE  /\ retrying'[j] # NoJob => j # NoJob /\ j <= lastId'
                         /\ Unused(j)' => jobs'[j].status = "absent"
      BY DEF FreshIds
    <3>1. retrying'[j] # NoJob => retrying[j] # NoJob /\ j # i
      BY <2>3
    <3>2. Unused(j)' => Unused(j) /\ j # i
      BY <2>2, <2>3, <3>1 DEF Unused
    <3>3. Unused(j) => j # k
      BY <2>1 DEF JobsInv, FreshIds
    <3>. QED
      BY <2>3, <3>1, <3>2, <3>3 DEF JobsInv, FreshIds
  <2>9. /\ {j \in JobIds : retrying'[j] # NoJob} \subseteq {j \in JobIds : retrying[j] # NoJob}
        /\ lastId <= lastId'
    BY <2>3
  <2>10. Jobs!Next
    BY <2>3, <2>7, <2>9, ViewsType DEF Jobs!Next
  <2>. QED
    BY <2>8, <2>10
<1>4. CASE /\ lastId' = NextId /\ NextId \in JobIds /\ UNCHANGED jobs
           /\ retrying' = [retrying EXCEPT ![NextId] = i]
  <2>0. /\ lastId' = lastId + 1 /\ lastId < NextId /\ NextId <= lastId' /\ NextId # NoJob
        /\ \A j \in JobIds \ {NextId} : retrying'[j] = retrying[j]
        /\ \A j \in JobIds : j # NextId => (lastId' < j <=> lastId < j)
    BY <1>4 DEF NextId, NoJob
  <2>1. FreshIds'
    <3>. SUFFICES ASSUME NEW j \in JobIds
                  PROVE  /\ retrying'[j] # NoJob => j # NoJob /\ j <= lastId'
                         /\ Unused(j)' => jobs[j].status = "absent"
      BY <1>4 DEF FreshIds
    <3>1. CASE j = NextId
      BY <2>0, <3>1 DEF JobsInv, FreshIds, Unused
    <3>2. CASE j # NextId
      BY <2>0, <3>2 DEF JobsInv, FreshIds, Unused
    <3>. QED
      BY <3>1, <3>2
  <2>2. \A j \in JobIds : Jobs!Step(j)
    BY <1>4 DEF Jobs!Step
  <2>3. {j \in JobIds : retrying'[j] # NoJob} \subseteq
          {j \in JobIds : retrying[j] # NoJob} \cup {j \in JobIds : lastId < j /\ j <= lastId'}
    BY <2>0
  <2>4. lastId <= lastId'
    BY <2>0
  <2>5. Jobs!Next
    BY <2>2, <2>3, <2>4, ViewsType DEF Jobs!Next
  <2>. QED
    BY <2>1, <2>5
<1>5. CASE /\ UNCHANGED <<lastId, jobs>>
           /\ retrying' = [retrying EXCEPT ![i] = NoJob]
  BY <1>5, DropsRefine
<1>. QED
  BY <1>2, <1>3, <1>4, <1>5
-----------------------------------------------------------------------------
(* What the helpers do to jobs *)

LEMMA KeptMoves ==
  ASSUME NEW j \in JobIds
  PROVE  Moves(j, jobs[j])
BY DEF Moves

LEMMA Unmoved ==
  ASSUME JobsInv, UNCHANGED <<jobs, lastId>>
  PROVE  JobSteps
<1>1. lastId \in Nat
  BY ConstantFacts DEF JobsInv, TypeOK, StateTypeOK
<1>. QED
  BY <1>1, KeptMoves DEF JobSteps

LEMMA MovedSteps ==
  ASSUME JobsInv, NEW J \in [JobIds -> Job], \A j \in JobIds : Moves(j, J[j]),
         jobs' = J, UNCHANGED lastId
  PROVE  JobSteps
<1>1. lastId \in Nat
  BY ConstantFacts DEF JobsInv, TypeOK, StateTypeOK
<1>. QED
  BY <1>1 DEF JobSteps

LEMMA OneMoves ==
  ASSUME JobsInv, NEW j \in JobIds, NEW r, Moves(j, r)
  PROVE  \A i \in JobIds : Moves(i, [jobs EXCEPT ![j] = r][i])
BY KeptMoves DEF JobsInv, TypeOK, StateTypeOK

LEMMA OneMovesSteps ==
  ASSUME JobsInv, NEW j \in JobIds, NEW r, Moves(j, r),
         jobs' = [jobs EXCEPT ![j] = r], UNCHANGED lastId
  PROVE  JobSteps
<1>1. lastId \in Nat
  BY ConstantFacts DEF JobsInv, TypeOK, StateTypeOK
<1>. QED
  BY <1>1, OneMoves DEF JobSteps

LEMMA EnqueueOneSteps ==
  ASSUME JobsInv, NEW J \in [JobIds -> Job], \A j \in JobIds : Moves(j, J[j]),
         NEW rec, New(rec), EnqueueOne(J, rec)
  PROVE  JobSteps
<1>1. lastId \in Nat /\ JobIds \subseteq Nat
  BY ConstantFacts DEF JobsInv, TypeOK, StateTypeOK
<1>2. NextId \in JobIds /\ jobs' = [J EXCEPT ![NextId] = rec] /\ lastId' = lastId + 1
  BY DEF EnqueueOne, NextId
<1>3. Born(NextId)
  <2>1. lastId < NextId /\ NextId <= lastId'
    BY <1>1, <1>2 DEF NextId
  <2>. QED
    BY <1>2, <2>1 DEF Born, New, JobsInv, FreshIds, Unused
<1>. QED
  BY <1>1, <1>2, <1>3 DEF JobSteps

LEMMA AddJobsSteps ==
  ASSUME JobsInv, NEW J \in [JobIds -> Job], \A j \in JobIds : Moves(j, J[j]),
         NEW recs, \A r \in recs : New(r),
         NEW last \in lastId..MaxJobs, NEW at \in Numberings(recs, last),
         jobs' = AddJobs(J, at), lastId' = last
  PROVE  JobSteps
<1>1. lastId \in Nat /\ JobIds \subseteq Nat /\ MaxJobs \in Nat
  BY ConstantFacts, ControllerAssumption DEF JobsInv, TypeOK, StateTypeOK
<1>2. at \in [(lastId + 1)..last -> recs]
  BY DEF Numberings, NextId
<1>3. \A j \in JobIds : j \in DOMAIN at => Born(j)
  <2>. SUFFICES ASSUME NEW j \in JobIds, j \in DOMAIN at PROVE Born(j)
    OBVIOUS
  <2>1. at[j] \in recs /\ jobs'[j] = at[j]
    BY <1>2 DEF AddJobs
  <2>2. lastId < j /\ j <= lastId'
    BY <1>1, <1>2
  <2>. QED
    BY <2>1, <2>2 DEF Born, New, JobsInv, FreshIds, Unused
<1>4. \A j \in JobIds : j \notin DOMAIN at => Moves(j, jobs'[j])
  BY DEF AddJobs
<1>5. lastId <= lastId'
  BY <1>1
<1>. QED
  BY <1>3, <1>4, <1>5 DEF JobSteps

LEMMA EnqueueAllSteps ==
  ASSUME JobsInv, NEW J \in [JobIds -> Job], \A j \in JobIds : Moves(j, J[j]),
         NEW recs, \A r \in recs : New(r), EnqueueAll(J, recs)
  PROVE  JobSteps
<1>1. PICK last \in lastId..MaxJobs :
        \E at \in Numberings(recs, last) : jobs' = AddJobs(J, at) /\ lastId' = last
  BY DEF EnqueueAll
<1>2. PICK at \in Numberings(recs, last) : jobs' = AddJobs(J, at) /\ lastId' = last
  BY <1>1
<1>. QED
  BY <1>2, AddJobsSteps

LEMMA NewRecords ==
  /\ \A type, n, d : New(NewJob(type, n, d))
  /\ \A n, d, c : New(SyncJob(n, d, c))
  /\ \A n, d, c, capture : New(ApplyJob(n, d, c, capture))
  /\ \A n, d : New(DomainIssueJob(n, d))
  /\ \A n, c, name, renew, targets : New(CertIssueJob(n, c, name, renew, targets))
  /\ \A S, d, c : \A r \in Syncs(S, d, c) : New(r)
<1>1. \A type, n, d : New(NewJob(type, n, d))
  BY DEF New, NewJob, AbsentJob
<1>2. \A n, d, c : New(SyncJob(n, d, c))
  BY DEF New, SyncJob, NewJob, AbsentJob
<1>3. \A n, d, c, capture : New(ApplyJob(n, d, c, capture))
  BY DEF New, ApplyJob, NewJob, AbsentJob
<1>4. \A n, d : New(DomainIssueJob(n, d))
  BY DEF New, DomainIssueJob, NewJob, AbsentJob
<1>5. \A n, c, name, renew, targets : New(CertIssueJob(n, c, name, renew, targets))
  BY DEF New, CertIssueJob, NewJob, AbsentJob
<1>6. \A S, d, c : \A r \in Syncs(S, d, c) : New(r)
  BY <1>2 DEF Syncs
<1>. QED
  BY <1>1, <1>2, <1>3, <1>4, <1>5, <1>6

LEMMA CompletesSteps ==
  ASSUME JobsInv, NEW j \in JobIds, jobs[j].status = "running", NEW c \in AnyCert, NEW C,
         CompletesWith(j, c, C)
  PROVE  JobSteps
<1>. DEFINE J == [jobs EXCEPT ![j] = Succeed(@)]
<1>1. J \in [JobIds -> Job]
  BY StatusChangeType DEF JobsInv, TypeOK, StateTypeOK
<1>2. \A i \in JobIds : Moves(i, J[i])
  <2>1. Moves(j, Succeed(jobs[j]))
    BY DEF Moves
  <2>. QED
    BY <2>1, OneMoves
<1>3. \/ jobs' = J /\ UNCHANGED lastId
      \/ \E recs : (\A r \in recs : New(r)) /\ EnqueueAll(J, recs)
      \/ \E rec : New(rec) /\ EnqueueOne(J, rec)
  <2>1. CASE jobs[j].type = "apply"
    <3>. DEFINE cert == IF c # NoCert THEN c ELSE domains[jobs[j].domain].cert
                recs == IF cert = NoCert THEN {}
                        ELSE Syncs(domains[jobs[j].domain].syncs, jobs[j].domain, cert)
    <3>1. CompletesApply(J, j, c, C)
      BY <2>1 DEF CompletesWith
    <3>2. EnqueueAll(J, recs)
      BY <3>1 DEF CompletesApply
    <3>3. \A r \in recs : New(r)
      BY NewRecords
    <3>. QED
      BY <3>2, <3>3
  <2>2. CASE jobs[j].type = "delete"
    BY <2>2 DEF CompletesWith, CompletesDelete
  <2>3. CASE jobs[j].type = "sync"
    BY <2>3 DEF CompletesWith, CompletesSync
  <2>4. CASE jobs[j].type = "capture"
    <3>1. EnqueueAll(J, Syncs(jobs[j].targets, NoDomain, c))
      BY <2>4 DEF CompletesWith, CompletesCapture
    <3>. QED
      BY <3>1, NewRecords
  <2>5. CASE jobs[j].type = "issue"
    <3>1. CompletesIssue(J, j, c, C)
      BY <2>5 DEF CompletesWith
    <3>2. CASE jobs[j].domain # NoDomain
      <4>1. EnqueueOne(J, ApplyJob(domains[jobs[j].domain].node, jobs[j].domain, c, FALSE))
        BY <3>1, <3>2 DEF CompletesIssue
      <4>. QED
        BY <4>1, NewRecords
    <3>3. CASE jobs[j].domain = NoDomain
      <4>1. EnqueueAll(J, Syncs(jobs[j].targets, NoDomain, c))
        BY <3>1, <3>3 DEF CompletesIssue
      <4>. QED
        BY <4>1, NewRecords
    <3>. QED
      BY <3>2, <3>3
  <2>6. CASE jobs[j].type \notin {"apply", "delete", "sync", "capture", "issue"}
    BY <2>6 DEF CompletesWith
  <2>. QED
    BY <2>1, <2>2, <2>3, <2>4, <2>5, <2>6
<1>. HIDE DEF J
<1>4. CASE jobs' = J /\ UNCHANGED lastId
  BY <1>1, <1>2, <1>4, MovedSteps
<1>5. ASSUME NEW recs, \A r \in recs : New(r), EnqueueAll(J, recs)
      PROVE  JobSteps
  BY <1>1, <1>2, <1>5, EnqueueAllSteps
<1>6. ASSUME NEW rec, New(rec), EnqueueOne(J, rec)
      PROVE  JobSteps
  BY <1>1, <1>2, <1>6, EnqueueOneSteps
<1>. QED
  BY <1>3, <1>4, <1>5, <1>6

LEMMA RevokesSteps ==
  ASSUME JobsInv, NEW S, Revokes(S)
  PROVE  JobSteps
<1>. DEFINE J == [j \in JobIds |-> IF j \in JobsOf(S) THEN Fail(jobs[j]) ELSE jobs[j]]
<1>1. J \in [JobIds -> Job]
  BY StatusChangeType DEF JobsInv, TypeOK, StateTypeOK
<1>2. \A j \in JobIds : Moves(j, J[j])
  BY DEF Moves, JobsOf, Active
<1>3. jobs' = J /\ UNCHANGED lastId
  BY DEF Revokes
<1>. QED
  BY <1>1, <1>2, <1>3, MovedSteps
-----------------------------------------------------------------------------
(* The actions *)

LEMMA PollObservesSteps ==
  ASSUME JobsInv, NEW n \in Nodes, PollObserves(n)
  PROVE  JobSteps
<1>1. PICK j \in AwaitedAt(n) :
        \/ jobs' = [jobs EXCEPT ![j] = Fail(jobs[j])]
        \/ jobs' = [jobs EXCEPT ![j] = Succeed(jobs[j])]
        \/ UNCHANGED jobs
  BY DEF PollObserves
<1>2. j \in JobIds /\ jobs[j].status = "running" /\ UNCHANGED lastId
  BY DEF AwaitedAt, Awaiting, PollObserves
<1>3. Moves(j, Fail(jobs[j])) /\ Moves(j, Succeed(jobs[j]))
  BY <1>2 DEF Moves
<1>. QED
  BY <1>1, <1>2, <1>3, OneMovesSteps, Unmoved

LEMMA RedeliverySteps ==
  ASSUME JobsInv, NEW n \in Nodes, NEW h \in Handlers, PollRedelivers(n, h) \/ PollAdopts(n, h)
  PROVE  JobSteps
<1>1. CASE PollRedelivers(n, h)
  <2>. DEFINE j == running[n]
  <2>1. j \in JobIds /\ jobs[j].status = "running"
    BY <1>1 DEF PollRedelivers, Pointed, JobsInv, TypeOK, StateTypeOK
  <2>2. Moves(j, Redelivered(jobs[j]))
    BY <2>1 DEF Moves
  <2>3. jobs' = [jobs EXCEPT ![j] = Redelivered(jobs[j])] /\ UNCHANGED lastId
    BY <1>1 DEF PollRedelivers
  <2>. QED
    BY <2>1, <2>2, <2>3, OneMovesSteps
<1>2. CASE PollAdopts(n, h)
  <2>. DEFINE j == Oldest(Orphans(n))
  <2>1. Orphans(n) \subseteq RunningAt(n) /\ RunningAt(n) \subseteq JobIds
    BY DEF Orphans, RunningAt
  <2>2. j \in RunningAt(n)
    BY <1>2, <2>1, OldestIn DEF PollAdopts
  <2>3. j \in JobIds /\ jobs[j].status = "running"
    BY <2>2 DEF RunningAt
  <2>4. Moves(j, Redelivered(jobs[j]))
    BY <2>3 DEF Moves
  <2>5. jobs' = [jobs EXCEPT ![j] = Redelivered(jobs[j])] /\ UNCHANGED lastId
    BY <1>2 DEF PollAdopts
  <2>. QED
    BY <2>3, <2>4, <2>5, OneMovesSteps
<1>. QED
  BY <1>1, <1>2

\* The poll has seen that nothing runs on the node, and takes the oldest job.
LEMMA DispatchSteps ==
  ASSUME JobsInv, NEW n \in Nodes, NEW h \in Handlers, PollDispatches(n, h)
  PROVE  JobSteps
<1>. DEFINE j == Oldest(QueuedAt(n))
<1>1. QueuedAt(n) \in SUBSET JobIds /\ QueuedAt(n) # {}
  BY DEF QueuedAt, PollDispatches
<1>2. j \in QueuedAt(n) /\ \A k \in QueuedAt(n) : j <= k
  BY <1>1, OldestIn
<1>3. jobs' = [jobs EXCEPT ![j] = Dispatched(jobs[j])] /\ UNCHANGED lastId
  BY DEF PollDispatches
<1>4. RunningAt(n) = {}
  BY DEF PollDispatches, Orphans
<1>. HIDE DEF j
<1>5. j \in JobIds /\ jobs[j].status = "queued" /\ jobs[j].node = n /\ AgentJob(jobs[j])
  BY <1>2 DEF QueuedAt
<1>6. Turn(j)
  <2>. SUFFICES ASSUME NEW i \in JobIds, AgentJob(jobs[i]), jobs[i].node = n
                PROVE  jobs[i].status # "running" /\ (i < j => jobs[i].status # "queued")
    BY <1>5 DEF Turn
  <2>1. jobs[i].status # "running"
    BY <1>4 DEF RunningAt
  <2>2. jobs[i].status = "queued" => i \in QueuedAt(n)
    BY DEF QueuedAt
  <2>3. i \in Nat /\ j \in Nat
    BY <1>5, ConstantFacts
  <2>. QED
    BY <1>2, <2>1, <2>2, <2>3
<1>7. Moves(j, Dispatched(jobs[j]))
  BY <1>5, <1>6 DEF Moves
<1>. QED
  BY <1>3, <1>5, <1>7, OneMovesSteps

LEMMA FailDispatchSteps ==
  ASSUME JobsInv, NEW h \in Handlers, FailDispatch(h)
  PROVE  JobSteps
<1>. DEFINE j       == handlers[h].job
            current == IF jobs[j].status = "absent" THEN NoJob ELSE j
<1>1. j \in JobIds
  BY DEF JobsInv, TypeOK, AgentTypeOK, Handler
<1>2. current \in JobIds /\ (jobs[current].status = "absent" => current = NoJob)
  BY <1>1, ConstantFacts
<1>3. jobs' = [jobs EXCEPT ![current] = Fail(jobs[current])] /\ UNCHANGED lastId
  BY DEF FailDispatch
<1>. HIDE DEF current
<1>4. Moves(current, Fail(jobs[current]))
  BY <1>2 DEF Moves
<1>. QED
  BY <1>2, <1>3, <1>4, OneMovesSteps

LEMMA ResultSteps ==
  ASSUME JobsInv, NEW r \in results,
         ResultAwaitsVersion(r) \/ ResultFails(r) \/ ResultSucceeds(r)
  PROVE  JobSteps
<1>1. r.job \in JobIds /\ jobs[r.job].status = "running"
  <2>1. Accepts(r)
    BY DEF ResultAwaitsVersion, ResultFails, ResultSucceeds
  <2>. QED
    BY <2>1 DEF JobsInv, TypeOK, AgentTypeOK, Result, Accepts
<1>2. CASE ResultAwaitsVersion(r)
  <2>1. jobs[r.job] \in Job
    BY <1>1 DEF JobsInv, TypeOK, StateTypeOK
  <2>2. Moves(r.job, [jobs[r.job] EXCEPT !.accepted = TRUE, !.overdue = FALSE])
    BY <2>1 DEF Moves, View, AgentJob, Job
  <2>3. jobs' = [jobs EXCEPT ![r.job] = [jobs[r.job] EXCEPT !.accepted = TRUE, !.overdue = FALSE]]
        /\ UNCHANGED lastId
    BY <1>2 DEF ResultAwaitsVersion
  <2>. QED
    BY <1>1, <2>2, <2>3, OneMovesSteps
<1>3. CASE ResultFails(r)
  <2>1. UNCHANGED lastId
    BY <1>3 DEF ResultFails
  <2>2. CASE TriedAgain(r)
    <3>1. jobs' = [jobs EXCEPT ![r.job] = Requeue(jobs[r.job])]
      BY <1>3, <2>2 DEF ResultFails
    <3>2. Moves(r.job, Requeue(jobs[r.job]))
      BY <1>1, <2>2 DEF Moves, TriedAgain
    <3>. QED
      BY <1>1, <2>1, <3>1, <3>2, OneMovesSteps
  <2>3. CASE ~TriedAgain(r)
    <3>1. jobs' = [jobs EXCEPT ![r.job] = Fail(jobs[r.job])]
      BY <1>3, <2>3 DEF ResultFails
    <3>2. Moves(r.job, Fail(jobs[r.job]))
      BY <1>1 DEF Moves
    <3>. QED
      BY <1>1, <2>1, <3>1, <3>2, OneMovesSteps
  <2>. QED
    BY <2>2, <2>3
<1>4. CASE ResultSucceeds(r)
  <2>1. CASE CompletesWith(r.job, NoCert, certs)
    BY <1>1, <2>1, CompletesSteps DEF AnyCert
  <2>2. CASE UNCHANGED stateVars
    BY <2>2, Unmoved DEF stateVars
  <2>. QED
    BY <1>4, <2>1, <2>2 DEF ResultSucceeds
<1>. QED
  BY <1>2, <1>3, <1>4

LEMMA CommitSteps ==
  ASSUME JobsInv, NEW k \in commits, CommitResult(k)
  PROVE  JobSteps
<1>1. k.job \in JobIds /\ k.cert \in AnyCert
  BY DEF JobsInv, TypeOK, AgentTypeOK, Commit, AnyCert
<1>2. CASE Accepts(k) /\ CompletesWith(k.job, k.cert, Stored(k))
  BY <1>1, <1>2, CompletesSteps DEF Accepts
<1>3. CASE UNCHANGED stateVars
  BY <1>3, Unmoved DEF stateVars
<1>. QED
  BY <1>2, <1>3 DEF CommitResult

LEMMA AgentSteps ==
  ASSUME JobsInv, AgentNext
  PROVE  JobSteps
<1>1. ASSUME NEW n \in Nodes,
             \/ PollObserves(n) \/ PollFindsNothing(n)
             \/ PostResult(n) \/ AgentCrash(n) \/ Unregister(n)
      PROVE  JobSteps
  <2>1. CASE PollObserves(n)
    BY <2>1, PollObservesSteps
  <2>2. CASE PollFindsNothing(n) \/ PostResult(n) \/ AgentCrash(n)
    BY <2>2, Unmoved DEF PollFindsNothing, PostResult, AgentCrash, stateVars
  <2>3. CASE Unregister(n)
    BY <2>3, RevokesSteps DEF Unregister
  <2>. QED
    BY <1>1, <2>1, <2>2, <2>3
<1>2. ASSUME NEW n \in Nodes, NEW h \in Handlers,
             PollRedelivers(n, h) \/ PollAdopts(n, h) \/ PollDispatches(n, h)
      PROVE  JobSteps
  BY <1>2, RedeliverySteps, DispatchSteps
<1>3. ASSUME NEW h \in Handlers, Respond(h) \/ CannotBuild(h) \/ FailDispatch(h) \/ GiveUp(h)
      PROVE  JobSteps
  <2>1. CASE Respond(h) \/ CannotBuild(h) \/ GiveUp(h)
    BY <2>1, Unmoved DEF Respond, CannotBuild, GiveUp, stateVars
  <2>. QED
    BY <1>3, <2>1, FailDispatchSteps
<1>4. ASSUME NEW r \in results,
             \/ LoseResult(r) \/ ResultChangesNothing(r) \/ ResultAwaitsVersion(r)
             \/ ResultFails(r) \/ ResultSucceeds(r) \/ PrepareResult(r)
      PROVE  JobSteps
  <2>1. CASE LoseResult(r) \/ ResultChangesNothing(r) \/ PrepareResult(r)
    BY <2>1, Unmoved DEF LoseResult, ResultChangesNothing, PrepareResult, stateVars
  <2>. QED
    BY <1>4, <2>1, ResultSteps
<1>5. ASSUME NEW k \in commits, CommitResult(k)
      PROVE  JobSteps
  BY <1>5, CommitSteps
<1>. QED
  BY <1>1, <1>2, <1>3, <1>4, <1>5 DEF AgentNext

LEMMA IssuerSteps ==
  ASSUME JobsInv, IssuerNext
  PROVE  JobSteps
<1>1. issuer.job \in JobIds /\ issuer.cert \in AnyCert
  BY DEF JobsInv, TypeOK, IssuerTypeOK, Worker, AnyCert
<1>2. ASSUME NEW j \in JobIds, IssuerStart(j)
      PROVE  JobSteps
  <2>1. Active(jobs[j]) /\ ~AgentJob(jobs[j])
    BY <1>2 DEF IssuerStart, IssueJobs, AgentJob
  <2>2. Moves(j, Dispatched(jobs[j]))
    BY <2>1 DEF Moves
  <2>. QED
    BY <1>2, <2>2, OneMovesSteps DEF IssuerStart
<1>3. CASE IssuerResolves \/ IssuerObtains \/ IssuerFails
  BY <1>3, Unmoved DEF IssuerResolves, IssuerObtains, IssuerFails, stateVars
<1>4. CASE IssuerCommits
  <2>1. CASE StillMine /\ CompletesWith(issuer.job, issuer.cert, [certs EXCEPT ![issuer.cert] = issuer.record])
    BY <1>1, <2>1, CompletesSteps DEF StillMine
  <2>2. CASE UNCHANGED stateVars
    BY <2>2, Unmoved DEF stateVars
  <2>. QED
    BY <1>4, <2>1, <2>2 DEF IssuerCommits
<1>5. CASE IssuerReportsFailure
  <2>. DEFINE j == issuer.job
              r == IF jobs[j].attempts < MaxAttempts THEN Requeue(jobs[j]) ELSE Fail(jobs[j])
  <2>1. UNCHANGED lastId
    BY <1>5 DEF IssuerReportsFailure
  <2>2. CASE StillMine
    <3>1. jobs' = [jobs EXCEPT ![j] = r]
      BY <1>5, <2>2 DEF IssuerReportsFailure
    <3>2. Moves(j, r)
      BY <2>2 DEF StillMine, Moves
    <3>. QED
      BY <1>1, <2>1, <3>1, <3>2, OneMovesSteps
  <2>3. CASE ~StillMine
    BY <1>5, <2>1, <2>3, Unmoved DEF IssuerReportsFailure
  <2>. QED
    BY <2>2, <2>3
<1>. QED
  BY <1>2, <1>3, <1>4, <1>5 DEF IssuerNext
LEMMA MaintenanceSteps ==
  ASSUME JobsInv, Maintenance
  PROVE  JobSteps
<1>. DEFINE A == AfterTimeouts
<1>1. PICK F \in Recoveries(A) :
        \E last \in lastId..MaxJobs : \E at \in Numberings(NewJobs(A, F), last) :
          jobs' = AddJobs(Recovered(A, at), at) /\ lastId' = last
  BY DEF Maintenance
<1>2. PICK last \in lastId..MaxJobs :
        \E at \in Numberings(NewJobs(A, F), last) :
          jobs' = AddJobs(Recovered(A, at), at) /\ lastId' = last
  BY <1>1
<1>3. PICK at \in Numberings(NewJobs(A, F), last) :
          jobs' = AddJobs(Recovered(A, at), at) /\ lastId' = last
  BY <1>2
<1>4. A \in [JobIds -> Job] /\ StateTypeOK
  BY AfterTimeoutsType DEF JobsInv, TypeOK
<1>5. \A j \in JobIds : Moves(j, A[j])
  <2>. SUFFICES ASSUME NEW j \in JobIds PROVE Moves(j, A[j])
    OBVIOUS
  <2>1. CASE GivenUp(j)
    <3>1. A[j] = Fail(jobs[j]) /\ jobs[j].status # "absent"
      BY <2>1 DEF AfterTimeouts, GivenUp, Unclaimed, Unanswered
    <3>. QED
      BY <3>1 DEF Moves
  <2>2. CASE ~GivenUp(j) /\ Retried(j)
    <3>1. A[j] = Requeue(jobs[j]) /\ jobs[j].status = "running" /\ jobs[j].attempts < MaxAttempts
      BY <2>2 DEF AfterTimeouts, Retried, Unanswered
    <3>. QED
      BY <3>1 DEF Moves
  <2>3. CASE ~GivenUp(j) /\ ~Retried(j)
    BY <2>3, KeptMoves DEF AfterTimeouts
  <2>. QED
    BY <2>1, <2>2, <2>3
<1>6. NewJobs(A, F) \in SUBSET Job /\ \A r \in NewJobs(A, F) : New(r)
  <2>1. F \in SUBSET JobIds
    BY DEF Recoveries, Recoverable
  <2>2. \A j \in F : New(Recovery(j))
    BY NewRecords DEF Recovery, New, SyncJob, NewJob, AbsentJob
  <2>3. \A c : New(Renewal(c))
    BY NewRecords DEF Renewal
  <2>. QED
    BY <1>4, <2>1, <2>2, <2>3, NewRecords, NewJobsType DEF NewJobs
<1>. HIDE DEF A
<1>7. DOMAIN at \subseteq JobIds
  BY <1>4, <1>6, AddJobsType DEF StateTypeOK
<1>8. Recovered(A, at) \in [JobIds -> Job]
  BY <1>4, <1>7, RecoveredType
<1>9. \A j \in JobIds : Moves(j, Recovered(A, at)[j])
  <2>. SUFFICES ASSUME NEW j \in JobIds PROVE Moves(j, Recovered(A, at)[j])
    OBVIOUS
  <2>1. CASE Recovered(A, at)[j] = A[j]
    BY <1>5, <2>1
  <2>2. CASE Recovered(A, at)[j] # A[j]
    <3>1. j # NoJob /\ \E i \in DOMAIN at : at[i].retryOf = j
      BY <2>2 DEF Recovered
    <3>2. PICK i \in JobIds : Recovered(A, at)[j] = [A[j] EXCEPT !.retryJob = i]
      BY <1>7, <3>1 DEF Recovered
    <3>3. A[j] \in Job
      BY <1>4
    <3>4. View(Recovered(A, at)[j]) = View(A[j])
      BY <3>2, <3>3 DEF View, AgentJob, Job
    <3>5. CASE A[j] # AbsentJob
      BY <1>5, <3>4, <3>5 DEF Moves
    <3>6. CASE A[j] = AbsentJob
      <4>1. jobs[j] = AbsentJob
        BY <3>6 DEF A, AfterTimeouts, Fail, Requeue, AbsentJob
      <4>. QED
        BY <3>4, <3>6, <4>1 DEF Moves
    <3>. QED
      BY <3>5, <3>6
  <2>. QED
    BY <2>1, <2>2
<1>. QED
  BY <1>3, <1>6, <1>8, <1>9, AddJobsSteps

LEMMA ClockSteps ==
  ASSUME JobsInv, NEW j \in JobIds, TimePasses(j)
  PROVE  JobSteps
<1>1. jobs[j] \in Job
  BY DEF JobsInv, TypeOK, StateTypeOK
<1>2. Moves(j, [jobs[j] EXCEPT !.overdue = TRUE])
  BY <1>1 DEF Moves, View, AgentJob, Job
<1>3. jobs' = [jobs EXCEPT ![j] = [jobs[j] EXCEPT !.overdue = TRUE]] /\ UNCHANGED lastId
  BY DEF TimePasses
<1>. QED
  BY <1>2, <1>3, OneMovesSteps

-----------------------------------------------------------------------------
(* The administrator's requests *)

\* Most of them create one job, some a set of jobs, and change no other.
LEMMA CreatesSteps ==
  ASSUME JobsInv,
         \/ UNCHANGED <<jobs, lastId>>
         \/ \E rec : New(rec) /\ EnqueueOne(jobs, rec)
         \/ \E recs : (\A r \in recs : New(r)) /\ EnqueueAll(jobs, recs)
  PROVE  JobSteps
<1>1. jobs \in [JobIds -> Job] /\ \A j \in JobIds : Moves(j, jobs[j])
  BY KeptMoves DEF JobsInv, TypeOK, StateTypeOK
<1>2. ASSUME NEW rec, New(rec), EnqueueOne(jobs, rec)
      PROVE  JobSteps
  BY <1>1, <1>2, EnqueueOneSteps
<1>3. ASSUME NEW recs, \A r \in recs : New(r), EnqueueAll(jobs, recs)
      PROVE  JobSteps
  BY <1>1, <1>3, EnqueueAllSteps
<1>. QED
  BY <1>2, <1>3, Unmoved

LEMMA DomainSteps ==
  ASSUME JobsInv, DomainRequests
  PROVE  JobSteps
<1>1. ASSUME NEW d, DeleteDomain(d)
      PROVE  JobSteps
  BY <1>1, NewRecords, CreatesSteps DEF DeleteDomain
<1>2. ASSUME NEW d, NEW n, NEW takeover, NEW tls, AdoptDomain(d, n, takeover, tls)
      PROVE  JobSteps
  BY <1>2, NewRecords, CreatesSteps DEF AdoptDomain
<1>3. ASSUME NEW d, NEW config, UpdateDomainConfig(d, config)
      PROVE  JobSteps
  <2>. DEFINE cert == IF domains[d].mode \in {"acme", "upload"} THEN domains[d].cert ELSE NoCert
              job  == [ApplyJob(domains[d].node, d, cert, FALSE) EXCEPT !.config = config]
  <2>1. EnqueueOne(jobs, job)
    BY <1>3 DEF UpdateDomainConfig
  <2>2. New(job)
    BY DEF New, ApplyJob, NewJob, AbsentJob
  <2>. QED
    BY <2>1, <2>2, CreatesSteps
<1>4. ASSUME NEW d, NEW n, NEW m, NEW c, NEW rn, NEW S, CreateDomain(d, n, m, c, rn, S)
      PROVE  JobSteps
  <2>1. EnqueueOne(jobs, IF m = "acme" THEN DomainIssueJob(n, d) ELSE ApplyJob(n, d, c, m = "local"))
    BY <1>4 DEF CreateDomain
  <2>2. New(IF m = "acme" THEN DomainIssueJob(n, d) ELSE ApplyJob(n, d, c, m = "local"))
    BY NewRecords
  <2>. QED
    BY <2>1, <2>2, CreatesSteps
<1>5. ASSUME NEW d, NEW n, NEW m, NEW c, NEW rn, NEW S, UpdateDomain(d, n, m, c, rn, S)
      PROVE  JobSteps
  <2>. DEFINE cert == EditedCert(d, m, c)
              job  == IF m = "acme" /\ cert = NoCert THEN DomainIssueJob(n, d)
                      ELSE ApplyJob(n, d, IF m = "local" THEN NoCert ELSE cert, m = "local")
  <2>1. UNCHANGED <<jobs, lastId>> \/ EnqueueOne(jobs, job)
    BY <1>5 DEF UpdateDomain
  <2>2. New(job)
    BY NewRecords
  <2>. QED
    BY <2>1, <2>2, CreatesSteps
<1>. QED
  BY <1>1, <1>2, <1>3, <1>4, <1>5 DEF DomainRequests

LEMMA ClearSteps ==
  ASSUME JobsInv, ClearPending
  PROVE  JobSteps
<1>. DEFINE J == [j \in JobIds |-> IF j \in Clearable THEN AbsentJob ELSE jobs[j]]
<1>1. J \in [JobIds -> Job]
  BY ConstantFacts DEF JobsInv, TypeOK, StateTypeOK
<1>2. \A j \in JobIds : Moves(j, J[j])
  BY DEF Moves
<1>3. jobs' = J /\ UNCHANGED lastId
  BY DEF ClearPending
<1>. QED
  BY <1>1, <1>2, <1>3, MovedSteps

LEMMA CertificateSteps ==
  ASSUME JobsInv, CertificateRequests
  PROVE  JobSteps
<1>1. ASSUME NEW c, DeleteCertificate(c) \/ RenewCertificate(c)
      PROVE  JobSteps
  BY <1>1, NewRecords, CreatesSteps DEF DeleteCertificate, RenewCertificate
<1>2. ASSUME NEW c, NEW S, SyncCertificate(c, S)
      PROVE  JobSteps
  BY <1>2, NewRecords, CreatesSteps DEF SyncCertificate
<1>3. ASSUME NEW c, NEW enabled, SetCertificateAutoRenew(c, enabled)
      PROVE  JobSteps
  BY <1>3, CreatesSteps DEF SetCertificateAutoRenew
<1>4. ASSUME NEW c, NEW n, NEW rn, UpdateCertificateAutomation(c, n, rn)
      PROVE  JobSteps
  BY <1>4, CreatesSteps DEF UpdateCertificateAutomation
<1>5. ASSUME NEW c, NEW name, NEW sans, NEW n, NEW rn, NEW S, UploadCertificate(c, name, sans, n, rn, S)
      PROVE  JobSteps
  BY <1>5, NewRecords, CreatesSteps DEF UploadCertificate
<1>6. ASSUME NEW n, NEW c, NEW name, NEW rn, NEW S, IssueCertificate(n, c, name, rn, S)
      PROVE  JobSteps
  BY <1>6, NewRecords, CreatesSteps DEF IssueCertificate
<1>7. ASSUME NEW n, NEW c, NEW name, NEW rn, NEW S, ImportCertificate(n, c, name, rn, S)
      PROVE  JobSteps
  <2>. DEFINE job == [NewJob("capture", n, NoDomain) EXCEPT
                        !.cert = c, !.name = name, !.renew = rn, !.targets = S \ {n}]
  <2>1. EnqueueOne(jobs, job)
    BY <1>7 DEF ImportCertificate
  <2>2. New(job)
    BY DEF New, NewJob, AbsentJob
  <2>. QED
    BY <2>1, <2>2, CreatesSteps
<1>. QED
  BY <1>1, <1>2, <1>3, <1>4, <1>5, <1>6, <1>7 DEF CertificateRequests

LEMMA AdminSteps ==
  ASSUME JobsInv, DomainRequests \/ JobRequests \/ CertificateRequests
  PROVE  JobSteps
<1>1. ASSUME NEW n, NEW type, UpdateNode(n, type)
      PROVE  JobSteps
  BY <1>1, NewRecords, CreatesSteps DEF UpdateNode
<1>2. ASSUME NEW S, RevokeNodes(S)
      PROVE  JobSteps
  BY <1>2, RevokesSteps DEF RevokeNodes
<1>. QED
  BY <1>1, <1>2, DomainSteps, ClearSteps, CertificateSteps DEF JobRequests

-----------------------------------------------------------------------------
(* The theorems *)

LEMMA NextSteps ==
  ASSUME JobsInv, Next
  PROVE  \/ JobSteps /\ UNCHANGED retrying
         \/ RetryRequests
         \/ ControllerRestart
<1>1. CASE Agents
  BY <1>1, AgentSteps DEF Agents
<1>2. CASE Issuing
  BY <1>2, IssuerSteps DEF Issuing
<1>3. CASE Admin
  BY <1>3, AdminSteps DEF Admin, AdminNext
<1>4. CASE Clock
  BY <1>4, ClockSteps DEF Clock
<1>5. CASE Aging
  BY <1>5, Unmoved DEF Aging, CertificateAges
<1>6. CASE Maintains
  BY <1>6, MaintenanceSteps DEF Maintains
<1>. QED
  BY <1>1, <1>2, <1>3, <1>4, <1>5, <1>6 DEF Next

LEMMA NextRefines ==
  ASSUME JobsInv, TypeOK', Next
  PROVE  Jobs!Next /\ FreshIds'
<1>1. CASE ControllerRestart
  BY <1>1, DropsRefine DEF ControllerRestart, stateVars
<1>. QED
  BY <1>1, NextSteps, StepsRefine, RetriesRefine

\* The controller implements JobLifecycle: every step of a poll, a result, a request,
\* the scheduler or the certificate worker moves each job as it allows; only an
\* administrator's retry is created where its request had its place.
THEOREM ImplementsJobLifecycle == Spec => JobsRefined
<1>1. Init => FreshIds
  <2>. SUFFICES ASSUME Init PROVE FreshIds
    OBVIOUS
  <2>1. \A j \in JobIds : jobs[j] = AbsentJob /\ retrying[j] = NoJob
    BY DEF Init, StateInit, AdminInit
  <2>. QED
    BY <2>1 DEF FreshIds, AbsentJob
<1>2. TypeOK /\ TypeOK' /\ FreshIds /\ [Next]_vars => FreshIds' /\ [Jobs!Next]_(Jobs!jobVars)
  <2>. SUFFICES ASSUME TypeOK, TypeOK', FreshIds, [Next]_vars
                PROVE  FreshIds' /\ [Jobs!Next]_(Jobs!jobVars)
    OBVIOUS
  <2>1. CASE Next
    BY <2>1, NextRefines DEF JobsInv
  <2>2. CASE UNCHANGED vars
    BY <2>2 DEF vars, stateVars, FreshIds, Unused, Jobs!jobVars
  <2>. QED
    BY <2>1, <2>2
<1>3. Init => Jobs!Init
  <2>. SUFFICES ASSUME Init PROVE Jobs!Init
    OBVIOUS
  <2>1. /\ jobs = [j \in JobIds |-> AbsentJob] /\ lastId = 0
        /\ {j \in JobIds : retrying[j] # NoJob} = {}
    BY DEF Init, StateInit, AdminInit, NoJob
  <2>2. View(AbsentJob) \in Jobs!Job /\ View(AbsentJob).status = "absent"
    BY DEF View, AgentJob, AbsentJob, Jobs!Job
  <2>. QED
    BY <2>1, <2>2 DEF Jobs!Init, Jobs!Ids, JobIds
<1>. QED
  BY <1>1, <1>2, <1>3, TypeCorrect, PTL DEF Spec, JobsRefined, Jobs!Spec

Lifecycle == INSTANCE JobLifecycleProofs WITH
  Places   <- Nodes \cup {NoNode},
  job      <- [j \in JobIds |-> View(jobs[j])],
  last     <- lastId,
  promised <- {j \in JobIds : retrying[j] # NoJob}

\* Jobs and Lifecycle are one instance, the latter with its theorems.
LEMMA SameInstance == Jobs!Spec => Lifecycle!Spec
<1>1. Jobs!Init => Lifecycle!Init
  BY DEF Jobs!Init, Lifecycle!Init, Jobs!Ids, Lifecycle!Ids, Jobs!Job, Lifecycle!Job
<1>2. ASSUME NEW j, Jobs!Step(j) PROVE Lifecycle!Step(j)
  <2>1. Jobs!IsNext(j) <=> Lifecycle!IsNext(j)
    BY DEF Jobs!IsNext, Lifecycle!IsNext, Jobs!Ids, Lifecycle!Ids, Jobs!Rivals, Lifecycle!Rivals
  <2>2. Jobs!Created(j) <=> Lifecycle!Created(j)
    BY DEF Jobs!Created, Lifecycle!Created
  <2>3. Jobs!Started(j) <=> Lifecycle!Started(j)
    BY <2>1 DEF Jobs!Started, Lifecycle!Started, Jobs!Keeps, Lifecycle!Keeps,
                Jobs!IsActive, Lifecycle!IsActive
  <2>4. Jobs!Resent(j) <=> Lifecycle!Resent(j)
    BY DEF Jobs!Resent, Lifecycle!Resent, Jobs!Keeps, Lifecycle!Keeps
  <2>5. Jobs!PutBack(j) <=> Lifecycle!PutBack(j)
    BY DEF Jobs!PutBack, Lifecycle!PutBack, Jobs!Keeps, Lifecycle!Keeps
  <2>6. Jobs!Succeeded(j) <=> Lifecycle!Succeeded(j)
    BY DEF Jobs!Succeeded, Lifecycle!Succeeded, Jobs!Keeps, Lifecycle!Keeps
  <2>7. Jobs!Failed(j) <=> Lifecycle!Failed(j)
    BY DEF Jobs!Failed, Lifecycle!Failed, Jobs!Keeps, Lifecycle!Keeps
  <2>8. Jobs!Forgotten(j) <=> Lifecycle!Forgotten(j)
    BY DEF Jobs!Forgotten, Lifecycle!Forgotten
  <2>. QED
    BY <1>2, <2>2, <2>3, <2>4, <2>5, <2>6, <2>7, <2>8 DEF Jobs!Step, Lifecycle!Step
<1>3. Jobs!Next => Lifecycle!Next
  BY <1>2 DEF Jobs!Next, Lifecycle!Next, Jobs!Ids, Lifecycle!Ids, Jobs!Job, Lifecycle!Job
<1>4. [Jobs!Next]_(Jobs!jobVars) => [Lifecycle!Next]_(Lifecycle!jobVars)
  BY <1>3 DEF Jobs!jobVars, Lifecycle!jobVars
<1>. QED
  BY <1>1, <1>4, PTL DEF Jobs!Spec, Lifecycle!Spec

\* A node runs one job at a time, in the order the jobs were created unless an
\* administrator's retry was overtaken, and no job is tried more often than
\* MaxAttempts.
THEOREM JobsSafe == Spec => [](OneRunningJob /\ InOrder /\ AttemptsBounded)
<1>1. Lifecycle!Spec => [](Lifecycle!OneAtATime /\ Lifecycle!OldestFirst /\ Lifecycle!Bounded)
  BY Lifecycle!LifecycleSafe, ControllerAssumption
<1>2. Lifecycle!Ids = JobIds
  BY DEF Lifecycle!Ids, JobIds
<1>3. Lifecycle!OneAtATime => OneRunningJob
  BY <1>2 DEF Lifecycle!OneAtATime, Lifecycle!Rivals, OneRunningJob, RunningAt, View
<1>4. Lifecycle!OldestFirst => InOrder
  BY <1>2 DEF Lifecycle!OldestFirst, Lifecycle!Rivals, Lifecycle!IsActive, InOrder, Active, View
<1>5. Lifecycle!Bounded => AttemptsBounded
  BY <1>2 DEF Lifecycle!Bounded, AttemptsBounded, View
<1>. QED
  BY <1>1, <1>3, <1>4, <1>5, ImplementsJobLifecycle, SameInstance, PTL DEF JobsRefined

\* A job that ended is never active again and one that failed never succeeds,
\* whatever a handler read before it ended.
THEOREM EndedJobsStay == Spec => NeverRevived
<1>1. Lifecycle!Spec => Lifecycle!EndedForGood
  BY Lifecycle!LifecycleEnds
<1>2. [Lifecycle!StaysEnded]_(Lifecycle!jobVars)
        => [\A j \in JobIds : Finished(jobs[j]) =>
              /\ ~Active(jobs'[j])
              /\ jobs[j].status = "failed" => jobs'[j].status # "succeeded"]_vars
  <2>1. Lifecycle!Ids = JobIds
    BY DEF Lifecycle!Ids, JobIds
  <2>. QED
    BY <2>1 DEF Lifecycle!StaysEnded, Lifecycle!HasEnded, Lifecycle!IsActive, Lifecycle!jobVars,
                Finished, Active, View
<1>. QED
  BY <1>1, <1>2, ImplementsJobLifecycle, SameInstance, PTL
     DEF JobsRefined, NeverRevived, Lifecycle!EndedForGood
=============================================================================
