-------------------------- MODULE ControllerSafety --------------------------
(***************************************************************************)
(* What holds of nodes, jobs, domains and certificates together, for every *)
(* set of them, every bound and every set of requests and faults.          *)
(*                                                                         *)
(* None of these invariants is inductive alone: a late result or failure   *)
(* acts on what a handler copied some steps ago, a job that starts acts on *)
(* records its domain had when it was created.  SafetyInv is their         *)
(* conjunction with HeldInv, which says what the copies are worth.         *)
(*                                                                         *)
(* Every action is summarised once, by StepFacts; that the invariants are  *)
(* preserved follows from the summary without looking at the actions.      *)
(* DeletionSteps is a second summary, for the domains being deleted: with  *)
(* SafetyInv it gives DeletingHasDeleteJob.                                *)
(***************************************************************************)
EXTENDS ControllerJobs

-----------------------------------------------------------------------------
(* What is held between two Updates *)

\* The job stored under the empty identifier by failDispatch is of no type.
ZeroUnused == jobs[NoJob].type = "none" /\ jobs[NoJob].status \in {"absent", "failed"}

\* A job retries one that was created, whose identifier no other job gets.
RetriesPast == \A k \in JobIds : ~Unused(jobs[k].retryOf)

\* r was copied from job j: while j is kept, it is the same job.
CopyOf(j, r) ==
  /\ j # NoJob /\ ~Unused(j)
  /\ jobs[j].status # "absent" => jobs[j].type = r.type /\ jobs[j].node = r.node

\* A delete job can always be resolved, so no handler fails one.
RequestsHeld ==
  \A h \in Handlers : handlers[h].stage # "idle" =>
    /\ CopyOf(handlers[h].job, handlers[h])
    /\ handlers[h].stage = "failing" => handlers[h].type # "delete"

SignedBy(record, n) == record.state = "live" /\ record.issuer = n

WorkHeld ==
  issuer.stage # "free" =>
    /\ CopyOf(issuer.job, issuer.copy)
    /\ issuer.copy.type = "issue"
    /\ issuer.stage = "issued" =>
         issuer.cert \in Certs /\ SignedBy(issuer.record, issuer.copy.node)

CommitsHeld == \A k \in commits : SignedBy(k.record, k.node)

HeldInv == ZeroUnused /\ RetriesPast /\ RequestsHeld /\ WorkHeld /\ CommitsHeld

-----------------------------------------------------------------------------
(* Records *)

\* What RevokedUnreferenced, LinkedRenewalWorks and CertificatesInUseExist say
\* of one domain and one certificate.
SoundDomain(r) ==
  r.state = "live" =>
    /\ r.node \notin revoked /\ r.syncs \cap revoked = {}
    /\ r.renew => r.acct /\ r.node \in Nodes
    /\ r.cert # NoCert => LiveCert(r.cert)

SoundCert(r) == r.state = "live" => r.issuer \notin revoked

RecordsInv ==
  /\ \A d \in Domains : SoundDomain(domains[d])
  /\ \A c \in Certs : SoundCert(certs[c])

\* What an apply or sync job that waits or runs will install exists.
Installs(r) == Active(r) /\ r.type \in {"apply", "sync"} /\ r.cert # NoCert

JobsInstallLive == \A j \in JobIds : Installs(jobs[j]) => LiveCert(jobs[j].cert)

SafetyInv ==
  /\ JobsInv /\ HeldInv /\ PointerValid /\ RevokedIdle /\ RetriedOnce
  /\ RecordsInv /\ JobsInstallLive

-----------------------------------------------------------------------------
(* The summary of a step *)

\* r is what becomes of job j: the same job, which starts only where it may, and
\* is not active on a node revoked by this step.
Continues(j, r) ==
  /\ r.type = jobs[j].type /\ r.node = jobs[j].node /\ r.domain = jobs[j].domain
  /\ r.cert = jobs[j].cert /\ r.retryOf = jobs[j].retryOf
  /\ r.retryJob = jobs[j].retryJob \/ jobs[j].retryJob = NoJob
  /\ Active(r) => /\ Active(jobs[j])
                  /\ r.status = "running" => jobs[j].status = "running" \/ r.node \notin revoked'
                  /\ r.node \in revoked' => r.node \in revoked

\* A job is created only where it can be executed.
Wanted(r) ==
  /\ r.status = "queued"
  /\ r.type = "issue" => r.node \notin revoked'
  /\ r.type \in {"apply", "sync"} /\ r.cert # NoCert
       => r.cert \in Certs /\ certs'[r.cert].state = "live"

\* A job is created as the first retry of the job it retries, which then names it.
FirstRetry(j) ==
  LET i == jobs'[j].retryOf IN
  i # NoJob => /\ jobs[i].status # "absent" /\ jobs[i].retryJob = NoJob
               /\ jobs'[i].status = "failed" /\ jobs'[i].retryJob = j

TaskStep(j) ==
  \/ Continues(j, jobs'[j])
  \/ j \in Clearable /\ jobs'[j] = AbsentJob
  \/ Unused(j) /\ Wanted(jobs'[j]) /\ FirstRetry(j)

TaskSteps == \A j \in JobIds : TaskStep(j)

\* A pointer is cleared, or names a job that runs on its node after the step.
PointerSteps ==
  \A n \in Nodes : running'[n] # NoJob =>
    /\ jobs'[running'[n]].status = "running" /\ AgentJob(jobs'[running'[n]])
    /\ jobs'[running'[n]].node = n

\* No certificate a job waits to install disappears.
UsedStays ==
  \A j \in JobIds : Installs(jobs[j]) => certs'[jobs[j].cert].state = "live"

\* A handler goes on with its copy, or takes one of a job that runs.
HandlerSteps ==
  \A h \in Handlers : handlers'[h].stage # "idle" =>
    \/ /\ handlers[h].stage # "idle"
       /\ handlers'[h].job = handlers[h].job /\ handlers'[h].type = handlers[h].type
       /\ handlers'[h].node = handlers[h].node
       /\ handlers'[h].stage = "failing" => handlers[h].stage = "failing" \/ handlers[h].type # "delete"
    \/ /\ handlers'[h].stage = "selected"
       /\ handlers'[h].job \in JobIds /\ jobs[handlers'[h].job].status # "absent"
       /\ handlers'[h].job # NoJob
       /\ handlers'[h].type = jobs[handlers'[h].job].type
       /\ handlers'[h].node = jobs[handlers'[h].job].node

WorkerSteps ==
  issuer'.stage # "free" =>
    /\ \/ /\ issuer.stage # "free"
          /\ issuer'.job = issuer.job /\ issuer'.copy = issuer.copy
       \/ /\ issuer'.job \in JobIds /\ issuer'.job # NoJob
          /\ jobs[issuer'.job].status # "absent"
          /\ issuer'.copy = jobs[issuer'.job] /\ issuer'.copy.type = "issue"
    /\ issuer'.stage = "issued" =>
         \/ issuer' = issuer
         \/ issuer'.cert \in Certs /\ SignedBy(issuer'.record, issuer'.copy.node)

PreparedSteps == \A k \in commits' : k \in commits \/ SignedBy(k.record, k.node)

HeldSteps == HandlerSteps /\ WorkerSteps /\ PreparedSteps

StepFacts == TaskSteps /\ PointerSteps /\ RecordsInv' /\ UsedStays /\ HeldSteps

-----------------------------------------------------------------------------
(* The summary preserves the invariants *)

\* What a step does to jobs that ended and to those that are gone: neither they
\* nor their identifiers are used again.
IdsKept ==
  \A j \in JobIds :
    /\ ~Unused(j) => ~Unused(j)'
    /\ jobs[j].status = "failed" => jobs'[j].status \in {"failed", "absent"}
    /\ ~Unused(j) /\ jobs[j].status = "absent" =>
         jobs'[j].status = "absent" \/ (j = NoJob /\ jobs'[j].status = "failed")

LEMMA UnusedNumbers ==
  ASSUME JobsInv
  PROVE  /\ lastId \in Nat /\ JobIds \subseteq Nat /\ NoJob \in JobIds /\ ~Unused(NoJob)
         /\ \A j \in JobIds : lastId < j => Unused(j) /\ retrying[j] = NoJob
<1>1. lastId \in Nat /\ JobIds \subseteq Nat /\ NoJob \in JobIds
  BY ConstantFacts DEF JobsInv, TypeOK, StateTypeOK
<1>. QED
  BY <1>1 DEF JobsInv, FreshIds, Unused, NoJob

LEMMA MovesKeepIds ==
  ASSUME JobsInv, TypeOK', JobSteps, UNCHANGED retrying
  PROVE  IdsKept
<1>. SUFFICES ASSUME NEW j \in JobIds
              PROVE  /\ ~Unused(j) => ~Unused(j)'
                     /\ jobs[j].status = "failed" => jobs'[j].status \in {"failed", "absent"}
                     /\ ~Unused(j) /\ jobs[j].status = "absent" =>
                          jobs'[j].status = "absent" \/ (j = NoJob /\ jobs'[j].status = "failed")
  BY DEF IdsKept
<1>1. /\ jobs[j] \in Job /\ jobs'[j] \in Job /\ lastId \in Nat /\ lastId' \in Nat /\ j \in Nat
      /\ lastId <= lastId'
  BY ConstantFacts DEF JobsInv, TypeOK, StateTypeOK, JobSteps
<1>2. ~Unused(j) => ~Unused(j)'
  BY <1>1 DEF Unused
<1>3. CASE Born(j)
  BY <1>2, <1>3 DEF Born, Unused
<1>4. CASE Moves(j, jobs'[j])
  <2>1. CASE jobs[j].status \in {"failed", "absent"}
    <3>1. \/ View(jobs'[j]) = View(jobs[j])
          \/ (jobs[j].status = "absent" => j = NoJob) /\ View(jobs'[j]) = View(Fail(jobs[j]))
          \/ jobs'[j] = AbsentJob
      BY <1>4, <2>1 DEF Moves, Active
    <3>2. View(Fail(jobs[j])).status = "failed"
      BY <1>1 DEF View, Fail, Job
    <3>. QED
      BY <1>2, <2>1, <3>1, <3>2 DEF View, AbsentJob
  <2>. QED
    BY <1>2, <2>1
<1>. QED
  BY <1>3, <1>4 DEF JobSteps

LEMMA DropsKeepIds ==
  ASSUME UNCHANGED <<jobs, lastId>>, \A j \in JobIds : retrying'[j] \in {retrying[j], NoJob}
  PROVE  IdsKept
BY DEF IdsKept, Unused

LEMMA RetriesKeepIds ==
  ASSUME JobsInv, RetryRequests
  PROVE  IdsKept
<1>0. /\ lastId \in Nat /\ JobIds \subseteq Nat /\ jobs \in [JobIds -> Job]
      /\ retrying \in [JobIds -> JobIds]
  BY ConstantFacts DEF JobsInv, TypeOK, StateTypeOK, AdminTypeOK
<1>1. PICK i \in JobIds : ReceiveRetry(i) \/ RetryJob(i) \/ RefuseRetry(i)
  BY DEF RetryRequests
<1>2. CASE ReceiveRetry(i)
  <2>1. /\ lastId' = lastId + 1 /\ lastId + 1 \in JobIds /\ UNCHANGED jobs
        /\ retrying' = [retrying EXCEPT ![lastId + 1] = i]
    BY <1>2 DEF ReceiveRetry, NextId
  <2>2. \A j \in JobIds : ~Unused(j) => ~Unused(j)'
    BY <1>0, <2>1 DEF Unused
  <2>. QED
    BY <2>1, <2>2 DEF IdsKept
<1>3. CASE RefuseRetry(i)
  BY <1>0, <1>3, DropsKeepIds DEF RefuseRetry, stateVars
<1>4. CASE RetryJob(i)
  <2>. DEFINE k == retrying[i]
  <2>1. k \in JobIds /\ k # NoJob /\ jobs[k].status = "failed" /\ Unused(i) /\ i # k
    BY <1>0, <1>4 DEF RetryJob, MayRetry, Retriable, JobsInv, FreshIds, Unused
  <2>2. /\ jobs'[k] = [jobs[k] EXCEPT !.retryJob = i]
        /\ \A j \in JobIds \ {i, k} : jobs'[j] = jobs[j]
        /\ UNCHANGED lastId /\ retrying' = [retrying EXCEPT ![i] = NoJob]
    BY <1>0, <1>4, <2>1 DEF RetryJob
  <2>3. jobs'[k].status = "failed"
    BY <1>0, <2>1, <2>2 DEF Job
  <2>4. \A j \in JobIds : ~Unused(j) => ~Unused(j)'
    BY <1>0, <2>2 DEF Unused
  <2>5. jobs[i].status = "absent"
    BY <2>1 DEF JobsInv, FreshIds
  <2>. HIDE DEF k
  <2>. QED
    BY <2>1, <2>2, <2>3, <2>4, <2>5 DEF IdsKept
<1>. QED
  BY <1>1, <1>2, <1>3, <1>4

LEMMA RevokedStayIdle ==
  ASSUME TypeOK, TypeOK', RevokedIdle, TaskSteps, PointerSteps
  PROVE  RevokedIdle'
<1>. SUFFICES ASSUME NEW n \in revoked'
              PROVE  /\ RunningAt(n)' = {} /\ running'[n] = NoJob
                     /\ \A j \in JobIds : jobs'[j].node = n /\ jobs'[j].type = "issue" => ~Active(jobs'[j])
  BY DEF RevokedIdle
<1>0. n \in Nodes
  BY DEF TypeOK, StateTypeOK
<1>1. ASSUME NEW j \in JobIds, jobs'[j].node = n, jobs'[j].status = "running"
      PROVE  ~AgentJob(jobs'[j])
  <2>1. Continues(j, jobs'[j])
    BY <1>1 DEF TaskSteps, TaskStep, Wanted, AbsentJob
  <2>2. jobs[j].status = "running" /\ jobs[j].node = n /\ n \in revoked /\ jobs'[j].type = jobs[j].type
    BY <1>1, <2>1 DEF Continues, Active
  <2>3. RunningAt(n) = {}
    BY <2>2 DEF RevokedIdle
  <2>. QED
    BY <2>2, <2>3 DEF RunningAt, AgentJob
<1>2. RunningAt(n)' = {}
  BY <1>1 DEF RunningAt
<1>3. running'[n] = NoJob
  <2>1. running'[n] \in JobIds
    BY <1>0 DEF TypeOK, StateTypeOK
  <2>. QED
    BY <1>0, <1>1, <2>1 DEF PointerSteps
<1>4. ASSUME NEW j \in JobIds, jobs'[j].node = n, jobs'[j].type = "issue", Active(jobs'[j])
      PROVE  FALSE
  <2>1. Continues(j, jobs'[j])
    BY <1>4 DEF TaskSteps, TaskStep, Wanted, AbsentJob, Active
  <2>2. Active(jobs[j]) /\ jobs[j].node = n /\ n \in revoked /\ jobs[j].type = "issue"
    BY <1>4, <2>1 DEF Continues
  <2>. QED
    BY <2>2 DEF RevokedIdle
<1>. QED
  BY <1>2, <1>3, <1>4

LEMMA PointersStayValid ==
  ASSUME TypeOK', PointerSteps
  PROVE  PointerValid'
BY DEF PointerValid, PointerSteps, RunningAt, TypeOK, StateTypeOK

LEMMA JobsStayInstallable ==
  ASSUME JobsInstallLive, TaskSteps, UsedStays
  PROVE  JobsInstallLive'
<1>. SUFFICES ASSUME NEW j \in JobIds, Installs(jobs'[j])
              PROVE  jobs'[j].cert \in Certs /\ certs'[jobs'[j].cert].state = "live"
  BY DEF JobsInstallLive, Installs, Active, LiveCert
<1>1. CASE Continues(j, jobs'[j])
  <2>1. Installs(jobs[j]) /\ jobs[j].cert = jobs'[j].cert
    BY <1>1 DEF Continues, Installs
  <2>2. jobs[j].cert \in Certs
    BY <2>1 DEF JobsInstallLive, LiveCert
  <2>. QED
    BY <2>1, <2>2 DEF UsedStays
<1>2. CASE Wanted(jobs'[j])
  BY <1>2 DEF Wanted, Installs
<1>. QED
  BY <1>1, <1>2 DEF TaskSteps, TaskStep, Installs, Active, AbsentJob

\* A job that exists was created, so its identifier is used.
LEMMA UsedIds ==
  ASSUME JobsInv, NEW j \in JobIds, jobs[j].status # "absent"
  PROVE  ~Unused(j) /\ j <= lastId
<1>1. lastId \in Nat /\ j \in Nat
  BY ConstantFacts DEF JobsInv, TypeOK, StateTypeOK
<1>. QED
  BY <1>1 DEF JobsInv, FreshIds, Unused

LEMMA RetriesStayUnique ==
  ASSUME JobsInv, TypeOK', IdsKept, HeldInv, RetriedOnce, TaskSteps
  PROVE  RetriedOnce'
<1>0. lastId \in Nat /\ JobIds \subseteq Nat /\ jobs \in [JobIds -> Job] /\ jobs' \in [JobIds -> Job]
  BY ConstantFacts DEF JobsInv, TypeOK, StateTypeOK
\* The job that k retries stays failed and names k.
<1>1. ASSUME NEW i \in JobIds \ {NoJob}, NEW k \in JobIds \ {NoJob},
             jobs'[k].retryOf = i, jobs'[i].status # "absent"
      PROVE  jobs'[i].status = "failed" /\ jobs'[i].retryJob = k
  <2>1. CASE Continues(k, jobs'[k])
    <3>1. jobs[k].retryOf = i /\ ~Unused(i)
      BY <1>1, <2>1 DEF Continues, HeldInv, RetriesPast
    <3>2. jobs[i].status # "absent"
      BY <1>1, <3>1 DEF IdsKept
    <3>3. jobs[i].status = "failed" /\ jobs[i].retryJob = k
      BY <3>1, <3>2 DEF RetriedOnce
    <3>4. jobs'[i].status = "failed"
      BY <1>1, <3>3 DEF IdsKept
    <3>5. jobs'[i] # AbsentJob
      BY <1>1 DEF AbsentJob
    <3>6. Continues(i, jobs'[i])
      BY <3>1, <3>5 DEF TaskSteps, TaskStep
    <3>. QED
      BY <3>3, <3>4, <3>6 DEF Continues
  <2>2. CASE FirstRetry(k)
    BY <1>1, <2>2 DEF FirstRetry
  <2>3. CASE jobs'[k] = AbsentJob
    BY <1>1, <2>3 DEF AbsentJob
  <2>. QED
    BY <2>1, <2>2, <2>3 DEF TaskSteps, TaskStep
\* A job that was retried is not retried by a job created now.
<1>2. ASSUME NEW i \in JobIds \ {NoJob}, NEW k \in JobIds \ {NoJob},
             Continues(i, jobs'[i]), FirstRetry(k),
             jobs'[k].retryOf # NoJob, jobs'[i].retryOf = jobs'[k].retryOf
      PROVE  FALSE
  <2>. DEFINE m == jobs'[k].retryOf
  <2>1. m \in JobIds \ {NoJob} /\ jobs[m].status # "absent" /\ jobs[m].retryJob = NoJob
    BY <1>0, <1>2 DEF FirstRetry, Job
  <2>2. jobs[i].retryOf = m
    BY <1>2 DEF Continues
  <2>3. jobs[m].retryJob = i
    BY <2>1, <2>2 DEF RetriedOnce
  <2>. QED
    BY <2>1, <2>3
<1>3. ASSUME NEW i \in JobIds \ {NoJob}, NEW k \in JobIds \ {NoJob},
             jobs'[k].retryOf # NoJob, jobs'[i].retryOf = jobs'[k].retryOf
      PROVE  i = k
  <2>1. CASE Continues(i, jobs'[i]) /\ Continues(k, jobs'[k])
    <3>1. jobs[i].retryOf = jobs'[i].retryOf /\ jobs[k].retryOf = jobs'[k].retryOf
      BY <2>1 DEF Continues
    <3>. QED
      BY <1>3, <3>1 DEF RetriedOnce
  <2>2. CASE FirstRetry(i) /\ FirstRetry(k)
    BY <1>3, <2>2 DEF FirstRetry
  <2>3. jobs'[i] # AbsentJob /\ jobs'[k] # AbsentJob
    BY <1>3 DEF AbsentJob
  <2>. QED
    BY <1>2, <1>3, <2>1, <2>2, <2>3 DEF TaskSteps, TaskStep
<1>. QED
  BY <1>1, <1>3 DEF RetriedOnce

\* A copy stays a copy: the job is kept or forgotten, never replaced.
LEMMA CopiesStay ==
  ASSUME IdsKept, TaskSteps, NEW j \in JobIds, NEW r, CopyOf(j, r)
  PROVE  /\ j # NoJob /\ ~Unused(j)'
         /\ jobs'[j].status # "absent" => jobs'[j].type = r.type /\ jobs'[j].node = r.node
<1>0. j # NoJob /\ ~Unused(j) /\ ~Unused(j)'
  BY DEF CopyOf, IdsKept
<1>1. ASSUME jobs'[j].status # "absent"
      PROVE  jobs'[j].type = r.type /\ jobs'[j].node = r.node
  <2>1. jobs[j].status # "absent"
    BY <1>0, <1>1 DEF IdsKept
  <2>2. jobs'[j] # AbsentJob
    BY <1>1 DEF AbsentJob
  <2>3. Continues(j, jobs'[j])
    BY <1>0, <2>2 DEF TaskSteps, TaskStep
  <2>. QED
    BY <2>1, <2>3 DEF CopyOf, Continues
<1>. QED
  BY <1>0, <1>1

LEMMA NewCopy ==
  ASSUME JobsInv, NEW j \in JobIds, j # NoJob, jobs[j].status # "absent",
         NEW r, r.type = jobs[j].type, r.node = jobs[j].node
  PROVE  CopyOf(j, r)
BY UsedIds DEF CopyOf

LEMMA HeldStays ==
  ASSUME JobsInv, TypeOK', IdsKept, HeldInv, TaskSteps, HeldSteps
  PROVE  HeldInv'
<1>0. /\ NoJob \in JobIds /\ jobs \in [JobIds -> Job] /\ jobs' \in [JobIds -> Job]
  BY ConstantFacts DEF JobsInv, TypeOK, StateTypeOK
<1>1. ZeroUnused'
  <2>1. ~Unused(NoJob)
    BY UnusedNumbers
  <2>2. jobs'[NoJob].status \in {"absent", "failed"}
    BY <1>0, <2>1 DEF HeldInv, ZeroUnused, IdsKept
  <2>3. Continues(NoJob, jobs'[NoJob]) \/ jobs'[NoJob] = AbsentJob
    BY <1>0, <2>1 DEF TaskSteps, TaskStep
  <2>. QED
    BY <2>2, <2>3 DEF HeldInv, ZeroUnused, Continues, AbsentJob
<1>2. RetriesPast'
  <2>. SUFFICES ASSUME NEW k \in JobIds, NEW i \in JobIds, i = jobs'[k].retryOf
                PROVE  ~Unused(i)'
    <3>1. \A k \in JobIds : jobs'[k].retryOf \in JobIds
      BY <1>0 DEF Job
    <3>. QED
      BY <3>1 DEF RetriesPast, Unused
  <2>2. ~Unused(i)
    <3>1. CASE Continues(k, jobs'[k])
      BY <3>1 DEF Continues, HeldInv, RetriesPast
    <3>2. CASE jobs'[k].retryOf = NoJob
      BY <3>2, UnusedNumbers
    <3>3. CASE FirstRetry(k) /\ jobs'[k].retryOf # NoJob
      BY <3>3, UsedIds DEF FirstRetry
    <3>. QED
      BY <3>1, <3>2, <3>3 DEF TaskSteps, TaskStep, AbsentJob
  <2>. QED
    BY <2>2 DEF IdsKept
<1>3. RequestsHeld'
  <2>. SUFFICES ASSUME NEW h \in Handlers, handlers'[h].stage # "idle"
                PROVE  CopyOf(handlers[h].job, handlers[h])'
                       /\ (handlers'[h].stage = "failing" => handlers'[h].type # "delete")
    BY DEF RequestsHeld
  <2>1. CASE handlers[h].stage # "idle" /\ handlers'[h].job = handlers[h].job
    <3>1. handlers[h].job \in JobIds /\ CopyOf(handlers[h].job, handlers[h])
      BY <2>1 DEF JobsInv, TypeOK, AgentTypeOK, Handler, HeldInv, RequestsHeld
    <3>. QED
      BY <2>1, <3>1, CopiesStay DEF HeldSteps, HandlerSteps, CopyOf, HeldInv, RequestsHeld
  <2>2. CASE /\ handlers'[h].stage = "selected"
             /\ handlers'[h].job \in JobIds /\ jobs[handlers'[h].job].status # "absent"
             /\ handlers'[h].job # NoJob
             /\ handlers'[h].type = jobs[handlers'[h].job].type
             /\ handlers'[h].node = jobs[handlers'[h].job].node
    <3>1. CopyOf(handlers'[h].job, handlers'[h])
      BY <2>2, NewCopy
    <3>. QED
      BY <2>2, <3>1, CopiesStay DEF CopyOf
  <2>. QED
    BY <2>1, <2>2 DEF HeldSteps, HandlerSteps
<1>4. WorkHeld'
  <2>. SUFFICES ASSUME issuer'.stage # "free"
                PROVE  /\ CopyOf(issuer.job, issuer.copy)'
                       /\ issuer'.copy.type = "issue"
                       /\ issuer'.stage = "issued" =>
                            issuer'.cert \in Certs /\ SignedBy(issuer'.record, issuer'.copy.node)
    BY DEF WorkHeld, SignedBy
  <2>1. issuer.job \in JobIds /\ issuer'.job \in JobIds
    BY DEF JobsInv, TypeOK, IssuerTypeOK, Worker
  <2>2. CopyOf(issuer'.job, issuer'.copy) /\ issuer'.copy.type = "issue"
    BY NewCopy DEF HeldSteps, WorkerSteps, HeldInv, WorkHeld
  <2>3. CopyOf(issuer.job, issuer.copy)'
    BY <2>1, <2>2, CopiesStay DEF CopyOf
  <2>4. issuer'.stage = "issued" =>
          issuer'.cert \in Certs /\ SignedBy(issuer'.record, issuer'.copy.node)
    BY DEF HeldSteps, WorkerSteps, HeldInv, WorkHeld
  <2>. QED
    BY <2>2, <2>3, <2>4
<1>5. CommitsHeld'
  BY DEF HeldInv, CommitsHeld, HeldSteps, PreparedSteps, SignedBy
<1>. QED
  BY <1>1, <1>2, <1>3, <1>4, <1>5 DEF HeldInv

LEMMA StepPreserves ==
  ASSUME SafetyInv, TypeOK', FreshIds', IdsKept, StepFacts
  PROVE  SafetyInv'
<1>1. JobsInv'
  BY DEF JobsInv
<1>2. HeldInv'
  BY HeldStays DEF SafetyInv, StepFacts
<1>3. PointerValid'
  BY PointersStayValid DEF StepFacts
<1>4. RevokedIdle'
  BY RevokedStayIdle DEF SafetyInv, JobsInv, StepFacts
<1>5. RetriedOnce'
  BY RetriesStayUnique DEF SafetyInv, StepFacts
<1>6. JobsInstallLive'
  BY JobsStayInstallable DEF SafetyInv, StepFacts
<1>. QED
  BY <1>1, <1>2, <1>3, <1>4, <1>5, <1>6 DEF SafetyInv, StepFacts

-----------------------------------------------------------------------------
(* What the parts of a step leave alone *)

LEMMA KeptContinues ==
  ASSUME UNCHANGED revoked, NEW j \in JobIds
  PROVE  Continues(j, jobs[j])
BY DEF Continues

LEMMA OneTask ==
  ASSUME JobsInv, UNCHANGED revoked, NEW j \in JobIds, NEW r, Continues(j, r),
         jobs' = [jobs EXCEPT ![j] = r]
  PROVE  TaskSteps
<1>. SUFFICES ASSUME NEW i \in JobIds PROVE Continues(i, jobs'[i])
  BY DEF TaskSteps, TaskStep
<1>1. CASE i = j
  BY <1>1 DEF JobsInv, TypeOK, StateTypeOK
<1>2. CASE i # j
  <2>1. jobs'[i] = jobs[i]
    BY <1>2 DEF JobsInv, TypeOK, StateTypeOK
  <2>. QED
    BY <2>1, KeptContinues
<1>. QED
  BY <1>1, <1>2

\* A pointer that is kept stays valid as long as its job runs on.
LEMMA PointersKept ==
  ASSUME JobsInv, PointerValid, TaskSteps,
         \A n \in Nodes : running'[n] # NoJob =>
           \/ running'[n] = running[n] /\ jobs'[running[n]].status = "running"
           \/ /\ jobs'[running'[n]].status = "running" /\ AgentJob(jobs'[running'[n]])
              /\ jobs'[running'[n]].node = n
  PROVE  PointerSteps
<1>. SUFFICES ASSUME NEW n \in Nodes, running'[n] # NoJob
              PROVE  /\ jobs'[running'[n]].status = "running" /\ AgentJob(jobs'[running'[n]])
                     /\ jobs'[running'[n]].node = n
  BY DEF PointerSteps
<1>1. CASE running'[n] = running[n] /\ jobs'[running[n]].status = "running"
  <2>1. running[n] \in RunningAt(n)
    BY <1>1 DEF PointerValid
  <2>2. Continues(running[n], jobs'[running[n]])
    BY <1>1, <2>1 DEF RunningAt, TaskSteps, TaskStep, Wanted, AbsentJob
  <2>. QED
    BY <1>1, <2>1, <2>2 DEF RunningAt, Continues, AgentJob
<1>. QED
  BY <1>1

LEMMA RecordsKept ==
  ASSUME RecordsInv, JobsInstallLive, UNCHANGED <<revoked, domains, certs>>
  PROVE  RecordsInv' /\ UsedStays
<1>1. RecordsInv'
  BY DEF RecordsInv, SoundDomain, SoundCert, LiveCert
<1>2. UsedStays
  BY DEF JobsInstallLive, UsedStays, LiveCert
<1>. QED
  BY <1>1, <1>2

LEMMA HeldKept ==
  ASSUME UNCHANGED <<handlers, commits, issuer>>
  PROVE  HeldSteps
<1>1. HandlerSteps
  BY DEF HandlerSteps
<1>2. WorkerSteps
  BY DEF WorkerSteps
<1>3. PreparedSteps
  BY DEF PreparedSteps
<1>. QED
  BY <1>1, <1>2, <1>3 DEF HeldSteps

LEMMA StateKept ==
  ASSUME SafetyInv, UNCHANGED stateVars, HeldSteps
  PROVE  StepFacts
<1>1. UNCHANGED <<jobs, running, revoked, domains, certs>>
  BY DEF stateVars
<1>2. TaskSteps
  BY <1>1, KeptContinues DEF TaskSteps, TaskStep
<1>3. PointerSteps
  BY <1>1 DEF PointerSteps, SafetyInv, PointerValid, RunningAt
<1>. QED
  BY <1>1, <1>2, <1>3, RecordsKept DEF SafetyInv, StepFacts

\* An Update that changes one job, and pointers.
LEMMA OneJobFacts ==
  ASSUME SafetyInv, NEW j \in JobIds, NEW r, Continues(j, r),
         jobs' = [jobs EXCEPT ![j] = r], UNCHANGED <<revoked, domains, certs>>,
         \A n \in Nodes : running'[n] # NoJob =>
           \/ running'[n] = running[n] /\ (running[n] = j => r.status = "running")
           \/ running'[n] = j /\ r.status = "running" /\ AgentJob(r) /\ r.node = n,
         HeldSteps
  PROVE  StepFacts
<1>1. TaskSteps
  BY OneTask DEF SafetyInv
<1>2. jobs'[j] = r /\ \A i \in JobIds : i # j => jobs'[i] = jobs[i]
  BY DEF SafetyInv, JobsInv, TypeOK, StateTypeOK
<1>3. PointerSteps
  <2>1. ASSUME NEW n \in Nodes, running'[n] # NoJob, running'[n] = running[n],
               running[n] = j => r.status = "running"
        PROVE  jobs'[running[n]].status = "running"
    <3>1. running[n] \in JobIds /\ jobs[running[n]].status = "running"
      BY <2>1 DEF SafetyInv, PointerValid, RunningAt
    <3>. QED
      BY <1>2, <2>1, <3>1
  <2>. QED
    BY <1>1, <1>2, <2>1, PointersKept DEF SafetyInv
<1>. QED
  BY <1>1, <1>3, RecordsKept DEF SafetyInv, StepFacts

LEMMA ChangesContinue ==
  ASSUME JobsInv, UNCHANGED revoked, NEW j \in JobIds
  PROVE  /\ Continues(j, Fail(jobs[j]))
         /\ Continues(j, Succeed(jobs[j]))
         /\ jobs[j].status = "running" => Continues(j, Redelivered(jobs[j]))
         /\ jobs[j].status = "running" => Continues(j, Requeue(jobs[j]))
         /\ Active(jobs[j]) /\ jobs[j].node \notin revoked => Continues(j, Dispatched(jobs[j]))
         /\ Continues(j, [jobs[j] EXCEPT !.overdue = TRUE])
         /\ Continues(j, [jobs[j] EXCEPT !.accepted = TRUE, !.overdue = FALSE])
<1>1. jobs[j] \in Job
  BY DEF JobsInv, TypeOK, StateTypeOK
<1>2. Continues(j, Fail(jobs[j])) /\ Continues(j, Succeed(jobs[j]))
  BY <1>1 DEF Continues, Fail, Succeed, Job, Active
<1>3. jobs[j].status = "running" => Continues(j, Redelivered(jobs[j])) /\ Continues(j, Requeue(jobs[j]))
  BY <1>1 DEF Continues, Redelivered, Requeue, Job, Active
<1>4. Active(jobs[j]) /\ jobs[j].node \notin revoked => Continues(j, Dispatched(jobs[j]))
  BY <1>1 DEF Continues, Dispatched, Job, Active
<1>5. /\ Continues(j, [jobs[j] EXCEPT !.overdue = TRUE])
      /\ Continues(j, [jobs[j] EXCEPT !.accepted = TRUE, !.overdue = FALSE])
  BY <1>1 DEF Continues, Job, Active
<1>. QED
  BY <1>2, <1>3, <1>4, <1>5

-----------------------------------------------------------------------------
(* Polls *)

LEMMA PollObservesFacts ==
  ASSUME SafetyInv, NEW n \in Nodes, PollObserves(n), UNCHANGED issuer
  PROVE  StepFacts
<1>1. PICK j \in AwaitedAt(n) :
        \/ /\ jobs' = [jobs EXCEPT ![j] = Fail(jobs[j])] \/ jobs' = [jobs EXCEPT ![j] = Succeed(jobs[j])]
           /\ running' = [running EXCEPT ![n] = NoJob]
        \/ jobs' = jobs /\ running' = [running EXCEPT ![n] = j]
  BY DEF PollObserves
<1>2. UNCHANGED <<revoked, domains, certs, handlers, commits, issuer>>
  BY DEF PollObserves, agentVars
<1>3. j \in JobIds /\ jobs[j].status = "running" /\ AgentJob(jobs[j]) /\ jobs[j].node = n
  BY <1>1 DEF AwaitedAt, Awaiting, AgentJob
<1>4. running \in [Nodes -> JobIds] /\ jobs \in [JobIds -> Job] /\ JobsInv
  BY DEF SafetyInv, JobsInv, TypeOK, StateTypeOK
<1>5. CASE /\ jobs' = [jobs EXCEPT ![j] = Fail(jobs[j])] \/ jobs' = [jobs EXCEPT ![j] = Succeed(jobs[j])]
           /\ running' = [running EXCEPT ![n] = NoJob]
  <2>1. \A m \in Nodes : running'[m] # NoJob => running'[m] = running[m] /\ running[m] # j
    BY <1>3, <1>4, <1>5 DEF SafetyInv, PointerValid, RunningAt
  <2>. QED
    BY <1>2, <1>3, <1>4, <1>5, <2>1, HeldKept, ChangesContinue, OneJobFacts
<1>6. CASE jobs' = jobs /\ running' = [running EXCEPT ![n] = j]
  <2>1. jobs' = [jobs EXCEPT ![j] = jobs[j]] /\ Continues(j, jobs[j])
    BY <1>2, <1>3, <1>4, <1>6, KeptContinues
  <2>2. \A m \in Nodes : running'[m] # NoJob => running'[m] = running[m] \/ (running'[m] = j /\ m = n)
    BY <1>4, <1>6
  <2>3. \A m \in Nodes : running'[m] # NoJob =>
          \/ running'[m] = running[m] /\ (running[m] = j => jobs[j].status = "running")
          \/ running'[m] = j /\ jobs[j].status = "running" /\ AgentJob(jobs[j]) /\ jobs[j].node = m
    BY <1>3, <2>2
  <2>4. HeldSteps
    BY <1>2, HeldKept
  <2>. QED
    BY <1>2, <1>3, <2>1, <2>3, <2>4, OneJobFacts
<1>. QED
  BY <1>1, <1>5, <1>6

\* The request a job is chosen for holds a copy of it.
LEMMA ServeHolds ==
  ASSUME JobsInv, NEW h \in Handlers, NEW j \in JobIds, j # NoJob, jobs[j].status # "absent",
         Serve(h, j), UNCHANGED <<commits, issuer>>
  PROVE  HeldSteps
<1>1. handlers \in [Handlers -> Handler]
  BY DEF JobsInv, TypeOK, AgentTypeOK
<1>2. HandlerSteps
  BY <1>1 DEF Serve, HandlerSteps
<1>3. WorkerSteps /\ PreparedSteps
  BY DEF WorkerSteps, PreparedSteps
<1>. QED
  BY <1>2, <1>3 DEF HeldSteps

\* A job that exists, waits or runs is not the one under the empty identifier.
LEMMA ActiveIsReal ==
  ASSUME HeldInv, NEW j \in JobIds, Active(jobs[j])
  PROVE  j # NoJob
BY DEF HeldInv, ZeroUnused, Active

LEMMA PollSendsFacts ==
  ASSUME SafetyInv, NEW n \in Nodes, NEW h \in Handlers, UNCHANGED issuer,
         PollRedelivers(n, h) \/ PollAdopts(n, h) \/ PollDispatches(n, h)
  PROVE  StepFacts
<1>1. /\ running \in [Nodes -> JobIds] /\ jobs \in [JobIds -> Job] /\ JobsInv /\ HeldInv
      /\ n \notin revoked
  BY DEF SafetyInv, JobsInv, TypeOK, StateTypeOK, PollRedelivers, PollAdopts, PollDispatches,
         CanPoll, LiveNode
<1>2. UNCHANGED <<revoked, domains, certs, commits, issuer>>
  BY DEF PollRedelivers, PollAdopts, PollDispatches
<1>3. CASE PollRedelivers(n, h)
  <2>. DEFINE j == running[n]
  <2>1. j \in JobIds /\ j # NoJob /\ jobs[j].status = "running"
    BY <1>1, <1>3 DEF PollRedelivers, Pointed
  <2>2. jobs' = [jobs EXCEPT ![j] = Redelivered(jobs[j])] /\ UNCHANGED running
    BY <1>3 DEF PollRedelivers
  <2>3. Serve(h, j) /\ Redelivered(jobs[j]).status = "running"
    BY <1>1, <1>3, <2>1 DEF PollRedelivers, Redelivered, Job
  <2>4. HeldSteps
    BY <1>1, <1>2, <2>1, <2>3, ServeHolds
  <2>. HIDE DEF j
  <2>. QED
    BY <1>1, <1>2, <2>1, <2>2, <2>3, <2>4, ChangesContinue, OneJobFacts
<1>4. ASSUME NEW j \in JobIds, NEW r \in Job, Active(jobs[j]), jobs[j].node = n, AgentJob(jobs[j]),
             (r = Redelivered(jobs[j]) /\ jobs[j].status = "running") \/ r = Dispatched(jobs[j]),
             jobs' = [jobs EXCEPT ![j] = r], running' = [running EXCEPT ![n] = j], Serve(h, j)
      PROVE  StepFacts
  <2>1. j # NoJob /\ jobs[j].status # "absent" /\ jobs[j] \in Job
    BY <1>1, <1>4, ActiveIsReal DEF Active
  <2>2. HeldSteps
    BY <1>1, <1>2, <1>4, <2>1, ServeHolds
  <2>3. r.status = "running" /\ AgentJob(r) /\ r.node = n
    BY <1>4, <2>1 DEF Redelivered, Dispatched, AgentJob, Job
  <2>4. Continues(j, r)
    BY <1>1, <1>2, <1>4, ChangesContinue
  <2>5. \A m \in Nodes : running'[m] # NoJob =>
          \/ running'[m] = running[m] /\ (running[m] = j => r.status = "running")
          \/ running'[m] = j /\ r.status = "running" /\ AgentJob(r) /\ r.node = m
    BY <1>1, <1>4, <2>3
  <2>6. jobs' = [jobs EXCEPT ![j] = r] /\ UNCHANGED <<revoked, domains, certs>>
    BY <1>2, <1>4
  <2>. QED
    BY <2>2, <2>4, <2>5, <2>6, OneJobFacts
<1>5. CASE PollAdopts(n, h)
  <2>. DEFINE j == Oldest(Orphans(n))
  <2>1. j \in RunningAt(n)
    BY <1>5, OldestIn DEF PollAdopts, Orphans, RunningAt
  <2>2. /\ j \in JobIds /\ jobs[j].status = "running" /\ jobs[j].node = n /\ AgentJob(jobs[j])
        /\ Redelivered(jobs[j]) \in Job
    BY <1>1, <2>1, StatusChangeType DEF RunningAt
  <2>3. jobs' = [jobs EXCEPT ![j] = Redelivered(jobs[j])] /\ running' = [running EXCEPT ![n] = j]
        /\ Serve(h, j)
    BY <1>5 DEF PollAdopts
  <2>. HIDE DEF j
  <2>. QED
    BY <1>4, <2>2, <2>3 DEF Active
<1>6. CASE PollDispatches(n, h)
  <2>. DEFINE j == Oldest(QueuedAt(n))
  <2>1. j \in QueuedAt(n)
    BY <1>6, OldestIn DEF PollDispatches, QueuedAt
  <2>2. /\ j \in JobIds /\ jobs[j].status = "queued" /\ jobs[j].node = n /\ AgentJob(jobs[j])
        /\ Dispatched(jobs[j]) \in Job
    BY <1>1, <2>1, StatusChangeType DEF QueuedAt
  <2>3. jobs' = [jobs EXCEPT ![j] = Dispatched(jobs[j])] /\ running' = [running EXCEPT ![n] = j]
        /\ Serve(h, j)
    BY <1>6 DEF PollDispatches
  <2>. HIDE DEF j
  <2>. QED
    BY <1>4, <2>2, <2>3 DEF Active
<1>. QED
  BY <1>3, <1>5, <1>6

LEMMA PollFindsNothingFacts ==
  ASSUME SafetyInv, NEW n \in Nodes, PollFindsNothing(n), UNCHANGED issuer
  PROVE  StepFacts
<1>1. /\ running' = [running EXCEPT ![n] = NoJob]
      /\ UNCHANGED <<jobs, revoked, domains, certs, handlers, commits, issuer>>
  BY DEF PollFindsNothing, agentVars
<1>2. TaskSteps
  BY <1>1, KeptContinues DEF TaskSteps, TaskStep
<1>3. PointerSteps
  BY <1>1 DEF SafetyInv, JobsInv, TypeOK, StateTypeOK, PointerSteps, PointerValid, RunningAt
<1>. QED
  BY <1>1, <1>2, <1>3, RecordsKept, HeldKept DEF SafetyInv, StepFacts

LEMMA FailDispatchFacts ==
  ASSUME SafetyInv, NEW h \in Handlers, FailDispatch(h), UNCHANGED issuer
  PROVE  StepFacts
<1>. DEFINE j       == handlers[h].job
            current == IF jobs[j].status = "absent" THEN NoJob ELSE j
            n       == handlers[h].node
<1>1. /\ running \in [Nodes -> JobIds] /\ JobsInv /\ handlers \in [Handlers -> Handler]
      /\ j \in JobIds /\ NoJob \in JobIds
  BY ConstantFacts DEF SafetyInv, JobsInv, TypeOK, StateTypeOK, AgentTypeOK, Handler
<1>2. /\ jobs' = [jobs EXCEPT ![current] = Fail(jobs[current])]
      /\ running' = [running EXCEPT ![n] = NoJob]
      /\ handlers' = [handlers EXCEPT ![h] = Idle]
      /\ UNCHANGED <<revoked, domains, certs, commits, issuer>>
  BY DEF FailDispatch
<1>3. CopyOf(j, handlers[h])
  BY DEF FailDispatch, SafetyInv, HeldInv, RequestsHeld
<1>4. \A m \in Nodes : running'[m] # NoJob => running'[m] = running[m] /\ running[m] # current
  <2>. SUFFICES ASSUME NEW m \in Nodes, running'[m] # NoJob
                PROVE  running'[m] = running[m] /\ running[m] # current
    OBVIOUS
  <2>1. running'[m] = running[m] /\ m # n
    BY <1>1, <1>2
  <2>2. jobs[running[m]].node = m /\ jobs[running[m]].status = "running"
    BY <2>1 DEF SafetyInv, PointerValid, RunningAt
  <2>. QED
    BY <1>3, <2>1, <2>2 DEF CopyOf
<1>5. HandlerSteps
  BY <1>1, <1>2 DEF HandlerSteps, Idle
<1>6. HeldSteps
  BY <1>2, <1>5 DEF HeldSteps, WorkerSteps, PreparedSteps
<1>7. current \in JobIds
  BY <1>1
<1>. HIDE DEF current
<1>. QED
  BY <1>1, <1>2, <1>4, <1>6, <1>7, ChangesContinue, OneJobFacts

-----------------------------------------------------------------------------
(* Jobs created by a step *)

\* A job nobody retried.
FreshJob(r) == Wanted(r) /\ r.retryOf = NoJob

StoredLive(c) == c \in Certs /\ certs'[c].state = "live"

LEMMA FreshRecords ==
  /\ \A type, n, d : type \notin {"issue", "apply", "sync"} => FreshJob(NewJob(type, n, d))
  /\ \A n, d, c, capture : c = NoCert \/ StoredLive(c) => FreshJob(ApplyJob(n, d, c, capture))
  /\ \A S, d, c : StoredLive(c) => \A r \in Syncs(S, d, c) : FreshJob(r)
  /\ \A n, d : n \notin revoked' => FreshJob(DomainIssueJob(n, d))
  /\ \A n, c, name, renew, targets :
       n \notin revoked' => FreshJob(CertIssueJob(n, c, name, renew, targets))
<1>1. \A type, n, d : type \notin {"issue", "apply", "sync"} => FreshJob(NewJob(type, n, d))
  BY DEF FreshJob, Wanted, NewJob, AbsentJob
<1>2. \A n, d, c, capture : c = NoCert \/ StoredLive(c) => FreshJob(ApplyJob(n, d, c, capture))
  BY DEF FreshJob, Wanted, StoredLive, ApplyJob, NewJob, AbsentJob
<1>3. \A n, d, c : StoredLive(c) => FreshJob(SyncJob(n, d, c))
  BY DEF FreshJob, Wanted, StoredLive, SyncJob, NewJob, AbsentJob
<1>4. \A n, d : n \notin revoked' => FreshJob(DomainIssueJob(n, d))
  BY DEF FreshJob, Wanted, DomainIssueJob, NewJob, AbsentJob
<1>5. \A n, c, name, renew, targets :
        n \notin revoked' => FreshJob(CertIssueJob(n, c, name, renew, targets))
  BY DEF FreshJob, Wanted, CertIssueJob, NewJob, AbsentJob
<1>6. \A S, d, c : StoredLive(c) => \A r \in Syncs(S, d, c) : FreshJob(r)
  BY <1>3 DEF Syncs
<1>. QED
  BY <1>1, <1>2, <1>4, <1>5, <1>6

\* Jobs are added to J, which holds what became of those that existed.
Adds(J) ==
  \/ jobs' = J
  \/ \E rec : FreshJob(rec) /\ EnqueueOne(J, rec)
  \/ \E recs : (\A r \in recs : FreshJob(r)) /\ EnqueueAll(J, recs)

LEMMA AddedTasks ==
  ASSUME JobsInv, NEW J \in [JobIds -> Job], \A i \in JobIds : Continues(i, J[i]), Adds(J)
  PROVE  /\ TaskSteps
         /\ \A i \in JobIds : jobs[i].status # "absent" => jobs'[i] = J[i]
<1>0. lastId \in Nat /\ JobIds \subseteq Nat
  BY ConstantFacts DEF JobsInv, TypeOK, StateTypeOK
<1>1. \A i \in JobIds : jobs'[i] = J[i] \/ (lastId < i /\ FreshJob(jobs'[i]))
  <2>1. CASE jobs' = J
    BY <2>1
  <2>2. ASSUME NEW rec, FreshJob(rec), EnqueueOne(J, rec)
        PROVE  \A i \in JobIds : jobs'[i] = J[i] \/ (lastId < i /\ FreshJob(jobs'[i]))
    <3>1. NextId \in JobIds /\ jobs' = [J EXCEPT ![NextId] = rec] /\ lastId < NextId
      BY <1>0, <2>2 DEF EnqueueOne, NextId
    <3>2. jobs'[NextId] = rec /\ \A i \in JobIds : i # NextId => jobs'[i] = J[i]
      BY <3>1
    <3>3. FreshJob(jobs'[NextId])
      BY <2>2, <3>2 DEF FreshJob, Wanted
    <3>. QED
      BY <3>1, <3>2, <3>3
  <2>3. ASSUME NEW recs, \A r \in recs : FreshJob(r), EnqueueAll(J, recs)
        PROVE  \A i \in JobIds : jobs'[i] = J[i] \/ (lastId < i /\ FreshJob(jobs'[i]))
    <3>1. PICK last \in lastId..MaxJobs :
            \E at \in Numberings(recs, last) : jobs' = AddJobs(J, at)
      BY <2>3 DEF EnqueueAll
    <3>2. PICK at \in Numberings(recs, last) : jobs' = AddJobs(J, at)
      BY <3>1
    <3>3. at \in [(lastId + 1)..last -> recs]
      BY DEF Numberings, NextId
    <3>4. \A i \in JobIds : i \in DOMAIN at => jobs'[i] = at[i] /\ at[i] \in recs /\ lastId < i
      BY <1>0, <3>2, <3>3 DEF AddJobs
    <3>5. \A i \in JobIds : i \notin DOMAIN at => jobs'[i] = J[i]
      BY <3>2 DEF AddJobs
    <3>6. \A i \in JobIds : i \in DOMAIN at => FreshJob(jobs'[i])
      BY <2>3, <3>4 DEF FreshJob, Wanted
    <3>. QED
      BY <3>4, <3>5, <3>6
  <2>. QED
    BY <2>1, <2>2, <2>3 DEF Adds
<1>2. TaskSteps
  BY <1>1 DEF TaskSteps, TaskStep, FreshJob, FirstRetry, Unused
<1>3. \A i \in JobIds : jobs[i].status # "absent" => jobs'[i] = J[i]
  BY <1>1 DEF JobsInv, FreshIds, Unused
<1>. QED
  BY <1>2, <1>3

\* A request that adds jobs and changes records.
LEMMA RequestFacts ==
  ASSUME SafetyInv, UNCHANGED <<running, revoked, handlers, commits, issuer>>, Adds(jobs),
         RecordsInv', UsedStays
  PROVE  StepFacts
<1>1. jobs \in [JobIds -> Job] /\ \A i \in JobIds : Continues(i, jobs[i])
  BY KeptContinues DEF SafetyInv, JobsInv, TypeOK, StateTypeOK
<1>2. /\ TaskSteps
      /\ \A i \in JobIds : jobs[i].status # "absent" => jobs'[i] = jobs[i]
  BY <1>1, AddedTasks DEF SafetyInv
<1>3. PointerSteps
  BY <1>2, PointersKept DEF SafetyInv, PointerValid, RunningAt
<1>. QED
  BY <1>2, <1>3, HeldKept DEF StepFacts

-----------------------------------------------------------------------------
(* Records a step changes *)

\* The certificates that exist before a step exist after it.
CertsStay == \A c \in Certs : certs[c].state = "live" => certs'[c].state = "live"

LEMMA UsedStaysIf ==
  ASSUME JobsInstallLive, CertsStay
  PROVE  UsedStays
BY DEF JobsInstallLive, CertsStay, UsedStays, LiveCert

\* r keeps what SoundDomain looks at.
SameUses(r, s) ==
  /\ r.state = s.state /\ r.node = s.node /\ r.syncs = s.syncs
  /\ r.acct = s.acct /\ r.renew = s.renew /\ r.cert = s.cert

LEMMA DomainStaysSound ==
  ASSUME RecordsInv, UNCHANGED revoked, CertsStay, NEW d \in Domains,
         SameUses(domains'[d], domains[d])
  PROVE  SoundDomain(domains[d])'
BY DEF RecordsInv, CertsStay, SoundDomain, SameUses, LiveCert

LEMMA CertsStaySound ==
  ASSUME RecordsInv, UNCHANGED <<revoked, certs>>
  PROVE  CertsStay /\ \A c \in Certs : SoundCert(certs[c])'
BY DEF RecordsInv, CertsStay, SoundCert

-----------------------------------------------------------------------------
(* The end of a job *)

LEMMA DeployedKeeps ==
  ASSUME NEW C \in [Certs -> Cert], NEW c \in AnyCert, NEW n, NEW k \in Certs
  PROVE  Deployed(C, c, n)[k].state = C[k].state /\ Deployed(C, c, n)[k].issuer = C[k].issuer
<1>1. CASE k = c /\ c # NoCert
  <2>1. Deployed(C, c, n)[k] = [C[k] EXCEPT !.deployed = @ \cup {n}]
    BY <1>1 DEF Deployed
  <2>. QED
    BY <2>1 DEF Cert
<1>2. CASE ~(k = c /\ c # NoCert)
  BY <1>2 DEF Deployed
<1>. QED
  BY <1>1, <1>2

LEMMA CompletesCerts ==
  ASSUME SafetyInv, NEW j \in JobIds, NEW c \in AnyCert, NEW C \in [Certs -> Cert],
         CompletesWith(j, c, C)
  PROVE  \A k \in Certs : certs'[k].state = C[k].state /\ certs'[k].issuer = C[k].issuer
<1>1. domains \in [Domains -> Domain] /\ jobs[j].cert \in AnyCert
  BY DEF SafetyInv, JobsInv, TypeOK, StateTypeOK, Job, AnyCert
<1>2. CASE jobs[j].type = "apply"
  <2>. DEFINE d    == jobs[j].domain
              cert == IF c # NoCert THEN c ELSE domains[d].cert
  <2>1. d \in Domains
    BY <1>2 DEF CompletesWith, Aborts, LiveDomain
  <2>2. certs' = Deployed(C, cert, domains[d].node) /\ cert \in AnyCert
    BY <1>1, <1>2, <2>1 DEF CompletesWith, CompletesApply, Domain, AnyCert
  <2>. QED
    BY <2>2, DeployedKeeps
<1>3. CASE jobs[j].type = "sync"
  BY <1>1, <1>3, DeployedKeeps DEF CompletesWith, CompletesSync
<1>4. CASE jobs[j].type \notin {"apply", "sync"}
  <2>1. certs' = C
    BY <1>4 DEF CompletesWith, CompletesDelete, CompletesCapture, CompletesIssue
  <2>. QED
    BY <2>1
<1>. QED
  BY <1>2, <1>3, <1>4

\* A domain keeps what it uses, but for the certificate the job returned.
LEMMA CompletesDomains ==
  ASSUME SafetyInv, NEW j \in JobIds, NEW c \in AnyCert, NEW C,
         jobs[j].type \in {"capture", "issue"} => c # NoCert,
         CompletesWith(j, c, C), NEW d \in Domains, domains'[d].state = "live"
  PROVE  \/ SameUses(domains'[d], domains[d])
         \/ c # NoCert /\ SameUses(domains'[d], [domains[d] EXCEPT !.cert = c])
<1>1. domains \in [Domains -> Domain] /\ domains[d] \in Domain
  BY DEF SafetyInv, JobsInv, TypeOK, StateTypeOK
<1>2. CASE jobs[j].type = "apply"
  <2>. DEFINE cert == IF c # NoCert THEN c ELSE domains[jobs[j].domain].cert
  <2>1. PICK custom :
          domains' = [domains EXCEPT ![jobs[j].domain] =
            [domains[jobs[j].domain] EXCEPT !.cert = cert, !.enabled = TRUE, !.deleting = FALSE,
                                            !.custom = custom]]
    BY <1>2 DEF CompletesWith, CompletesApply
  <2>2. CASE d = jobs[j].domain
    <3>1. domains'[d] = [domains[d] EXCEPT !.cert = cert, !.enabled = TRUE, !.deleting = FALSE,
                                            !.custom = custom]
      BY <1>1, <2>1, <2>2
    <3>. QED
      BY <1>1, <2>2, <3>1 DEF SameUses, Domain
  <2>3. CASE d # jobs[j].domain
    BY <1>1, <2>1, <2>3 DEF SameUses
  <2>. QED
    BY <2>2, <2>3
<1>3. CASE jobs[j].type = "delete"
  BY <1>1, <1>3 DEF CompletesWith, CompletesDelete, SameUses, RemovedDomain, UnusedDomain
<1>4. CASE jobs[j].type = "capture"
  <2>1. domains' = domains \/ domains' = [domains EXCEPT ![jobs[j].domain] =
                                            [domains[jobs[j].domain] EXCEPT !.cert = c]]
    BY <1>4 DEF CompletesWith, CompletesCapture
  <2>2. domains'[d] = domains[d] \/ domains'[d] = [domains[d] EXCEPT !.cert = c]
    BY <1>1, <2>1
  <2>. QED
    BY <1>4, <2>2 DEF SameUses
<1>5. CASE jobs[j].type = "issue"
  <2>1. domains' = domains \/ domains' = [domains EXCEPT ![jobs[j].domain] =
          [domains[jobs[j].domain] EXCEPT !.cert = c, !.mode = "acme", !.lastJob = NextId]]
    BY <1>5 DEF CompletesWith, CompletesIssue
  <2>2. \/ domains'[d] = domains[d]
        \/ domains'[d] = [domains[d] EXCEPT !.cert = c, !.mode = "acme", !.lastJob = NextId]
    BY <1>1, <2>1
  <2>. QED
    BY <1>1, <1>5, <2>2 DEF SameUses, Domain
<1>6. CASE jobs[j].type \notin {"apply", "delete", "capture", "issue"}
  <2>1. UNCHANGED domains
    BY <1>6 DEF CompletesWith, CompletesSync
  <2>. QED
    BY <2>1 DEF SameUses
<1>. QED
  BY <1>2, <1>3, <1>4, <1>5, <1>6

\* The certificate a finished job hands on exists.
LEMMA CompletesAdds ==
  ASSUME SafetyInv, NEW j \in JobIds, NEW c \in AnyCert, NEW C,
         jobs[j].type \in {"capture", "issue"} => c # NoCert,
         CompletesWith(j, c, C), CertsStay, c # NoCert => StoredLive(c)
  PROVE  Adds([jobs EXCEPT ![j] = Succeed(jobs[j])])
<1>. DEFINE J == [jobs EXCEPT ![j] = Succeed(jobs[j])]
<1>1. CASE jobs[j].type = "apply"
  <2>. DEFINE d    == jobs[j].domain
              cert == IF c # NoCert THEN c ELSE domains[d].cert
              recs == IF cert = NoCert THEN {} ELSE Syncs(domains[d].syncs, d, cert)
  <2>1. LiveDomain(d)
    BY <1>1 DEF CompletesWith, Aborts
  <2>2. domains[d].cert # NoCert => LiveCert(domains[d].cert)
    BY <2>1 DEF SafetyInv, RecordsInv, SoundDomain, LiveDomain
  <2>3. cert # NoCert => StoredLive(cert)
    BY <2>2 DEF CertsStay, LiveCert, StoredLive
  <2>4. CompletesApply(J, j, c, C)
    BY <1>1 DEF CompletesWith
  <2>5. EnqueueAll(J, recs)
    BY <2>4 DEF CompletesApply
  <2>6. \A r \in recs : FreshJob(r)
    BY <2>3, FreshRecords
  <2>. QED
    BY <2>5, <2>6 DEF Adds
<1>2. CASE jobs[j].type \in {"delete", "sync"} \/ jobs[j].type \notin {"apply", "capture", "issue"}
  BY <1>2 DEF CompletesWith, CompletesDelete, CompletesSync, Adds
<1>3. CASE jobs[j].type = "capture"
  <2>1. EnqueueAll(J, Syncs(jobs[j].targets, NoDomain, c))
    BY <1>3 DEF CompletesWith, CompletesCapture
  <2>2. \A r \in Syncs(jobs[j].targets, NoDomain, c) : FreshJob(r)
    BY <1>3, FreshRecords
  <2>. QED
    BY <2>1, <2>2 DEF Adds
<1>4. CASE jobs[j].type = "issue"
  <2>1. CompletesIssue(J, j, c, C)
    BY <1>4 DEF CompletesWith
  <2>2. CASE jobs[j].domain # NoDomain
    <3>1. EnqueueOne(J, ApplyJob(domains[jobs[j].domain].node, jobs[j].domain, c, FALSE))
      BY <2>1, <2>2 DEF CompletesIssue
    <3>2. FreshJob(ApplyJob(domains[jobs[j].domain].node, jobs[j].domain, c, FALSE))
      BY <1>4, FreshRecords
    <3>. QED
      BY <3>1, <3>2 DEF Adds
  <2>3. CASE jobs[j].domain = NoDomain
    <3>1. EnqueueAll(J, Syncs(jobs[j].targets, NoDomain, c))
      BY <2>1, <2>3 DEF CompletesIssue
    <3>2. \A r \in Syncs(jobs[j].targets, NoDomain, c) : FreshJob(r)
      BY <1>4, FreshRecords
    <3>. QED
      BY <3>1, <3>2 DEF Adds
  <2>. QED
    BY <2>2, <2>3
<1>. QED
  BY <1>1, <1>2, <1>3, <1>4

\* C holds the certificate the job returned, signed by a node that is not revoked.
LEMMA CompletesFacts ==
  ASSUME SafetyInv, NEW j \in JobIds, NEW c \in AnyCert, NEW C \in [Certs -> Cert],
         CompletesWith(j, c, C), UNCHANGED revoked, HeldSteps,
         jobs[j].type \in {"capture", "issue"} => c # NoCert,
         \A k \in Certs : SoundCert(C[k]) /\ (certs[k].state = "live" => C[k].state = "live"),
         c # NoCert => C[c].state = "live",
         \A n \in Nodes : running'[n] # NoJob => running'[n] = running[n] /\ running[n] # j
  PROVE  StepFacts
<1>. DEFINE J == [jobs EXCEPT ![j] = Succeed(jobs[j])]
<1>1. \A k \in Certs : certs'[k].state = C[k].state /\ certs'[k].issuer = C[k].issuer
  BY CompletesCerts
<1>2. CertsStay /\ \A k \in Certs : SoundCert(certs[k])'
  BY <1>1 DEF CertsStay, SoundCert
<1>3. c # NoCert => StoredLive(c)
  BY <1>1 DEF StoredLive, AnyCert
<1>4. ASSUME NEW d \in Domains
      PROVE  SoundDomain(domains[d])'
  <2>1. CASE domains'[d].state # "live"
    BY <2>1 DEF SoundDomain
  <2>2. CASE domains'[d].state = "live" /\ SameUses(domains'[d], domains[d])
    BY <1>2, <2>2, DomainStaysSound DEF SafetyInv
  <2>3. CASE c # NoCert /\ SameUses(domains'[d], [domains[d] EXCEPT !.cert = c])
    <3>1. domains[d] \in Domain /\ SoundDomain(domains[d])
      BY DEF SafetyInv, JobsInv, TypeOK, StateTypeOK, RecordsInv
    <3>2. /\ domains'[d].state = domains[d].state /\ domains'[d].node = domains[d].node
          /\ domains'[d].syncs = domains[d].syncs /\ domains'[d].acct = domains[d].acct
          /\ domains'[d].renew = domains[d].renew /\ domains'[d].cert = c
      BY <2>3, <3>1 DEF SameUses, Domain
    <3>. QED
      BY <1>3, <2>3, <3>1, <3>2 DEF SoundDomain, StoredLive, LiveCert
  <2>. QED
    BY <2>1, <2>2, <2>3, CompletesDomains
<1>5. RecordsInv' /\ UsedStays
  BY <1>2, <1>4, UsedStaysIf DEF SafetyInv, RecordsInv
<1>6. /\ jobs \in [JobIds -> Job] /\ J \in [JobIds -> Job]
      /\ \A i \in JobIds : i # j => J[i] = jobs[i]
  BY StatusChangeType DEF SafetyInv, JobsInv, TypeOK, StateTypeOK
<1>7. \A i \in JobIds : Continues(i, J[i])
  BY <1>6, ChangesContinue, KeptContinues DEF SafetyInv
<1>8. Adds(J)
  BY <1>2, <1>3, CompletesAdds
<1>. HIDE DEF J
<1>9. /\ TaskSteps
      /\ \A i \in JobIds : jobs[i].status # "absent" => jobs'[i] = J[i]
  BY <1>6, <1>7, <1>8, AddedTasks DEF SafetyInv
<1>10. PointerSteps
  <2>1. \A n \in Nodes : running'[n] # NoJob =>
          running'[n] = running[n] /\ jobs'[running[n]].status = "running"
    BY <1>6, <1>9 DEF SafetyInv, PointerValid, RunningAt
  <2>. QED
    BY <1>9, <2>1, PointersKept DEF SafetyInv
<1>. QED
  BY <1>5, <1>9, <1>10 DEF StepFacts

-----------------------------------------------------------------------------
(* Results *)

\* An Update that changes certificates only.
LEMMA CertsOnlyFacts ==
  ASSUME SafetyInv, UNCHANGED <<jobs, running, revoked, domains>>,
         \A c \in Certs : certs[c].state = "live" => certs'[c].state = "live",
         \A c \in Certs : certs'[c].state = "live" => certs'[c].issuer \notin revoked',
         HeldSteps
  PROVE  StepFacts
<1>1. CertsStay /\ \A c \in Certs : SoundCert(certs[c])'
  BY DEF CertsStay, SoundCert
<1>2. \A d \in Domains : SoundDomain(domains[d])'
  BY <1>1, DomainStaysSound DEF SafetyInv, SameUses
<1>3. TaskSteps
  BY KeptContinues DEF TaskSteps, TaskStep
<1>4. PointerSteps
  BY DEF PointerSteps, SafetyInv, PointerValid, RunningAt
<1>. QED
  BY <1>1, <1>2, <1>3, <1>4, UsedStaysIf DEF SafetyInv, RecordsInv, StepFacts

\* The pointer of the node whose job ends is cleared, and no other names the job.
LEMMA PointerCleared ==
  ASSUME SafetyInv, NEW j \in JobIds, NEW n \in Nodes, jobs[j].node = n,
         running' = [running EXCEPT ![n] = NoJob]
  PROVE  \A m \in Nodes : running'[m] # NoJob => running'[m] = running[m] /\ running[m] # j
BY DEF SafetyInv, JobsInv, TypeOK, StateTypeOK, PointerValid, RunningAt

LEMMA RestoreKeepsUses ==
  ASSUME NEW D \in [Domains -> Domain], NEW F, NEW d \in Domains
  PROVE  SameUses(RestoreDeletions(D, F)[d], D[d])
<1>1. \/ RestoreDeletions(D, F)[d] = D[d]
      \/ RestoreDeletions(D, F)[d] = [D[d] EXCEPT !.deleting = FALSE, !.enabled = (D[d].node # NoNode)]
  BY DEF RestoreDeletions
<1>. QED
  BY <1>1 DEF SameUses, Domain

LEMMA ResultFailsFacts ==
  ASSUME SafetyInv, NEW r \in results, ResultFails(r), UNCHANGED issuer
  PROVE  StepFacts
<1>1. /\ r.job \in JobIds /\ r.node \in Nodes /\ jobs[r.job].node = r.node
      /\ jobs[r.job].status = "running" /\ JobsInv /\ domains \in [Domains -> Domain]
  BY DEF SafetyInv, JobsInv, TypeOK, AgentTypeOK, StateTypeOK, Result, ResultFails, Accepts
<1>2. /\ UNCHANGED <<revoked, certs, handlers, commits, issuer>>
      /\ running' = [running EXCEPT ![r.node] = NoJob]
      /\ \/ jobs' = [jobs EXCEPT ![r.job] = Requeue(jobs[r.job])] /\ UNCHANGED domains
         \/ /\ jobs' = [jobs EXCEPT ![r.job] = Fail(jobs[r.job])]
            /\ domains' = RestoreDeletions(domains, {r.job})
  BY DEF ResultFails
<1>3. TaskSteps
  BY <1>1, <1>2, ChangesContinue, OneTask
<1>4. PointerSteps
  <2>1. \A m \in Nodes : running'[m] # NoJob => running'[m] = running[m] /\ running[m] # r.job
    BY <1>1, <1>2, PointerCleared
  <2>2. \A i \in JobIds : i # r.job => jobs'[i] = jobs[i]
    BY <1>1, <1>2 DEF JobsInv, TypeOK, StateTypeOK
  <2>3. \A m \in Nodes : running'[m] # NoJob =>
          running'[m] = running[m] /\ jobs'[running[m]].status = "running"
    BY <2>1, <2>2 DEF SafetyInv, PointerValid, RunningAt
  <2>. QED
    BY <1>1, <1>3, <2>3, PointersKept DEF SafetyInv
<1>5. CertsStay /\ \A c \in Certs : SoundCert(certs[c])'
  BY <1>2, CertsStaySound DEF SafetyInv
<1>6. \A d \in Domains : SoundDomain(domains[d])'
  <2>1. \A d \in Domains : SameUses(domains'[d], domains[d])
    BY <1>1, <1>2, RestoreKeepsUses DEF SameUses
  <2>. QED
    BY <1>2, <1>5, <2>1, DomainStaysSound DEF SafetyInv
<1>7. HeldSteps
  BY <1>2, HeldKept
<1>. QED
  BY <1>3, <1>4, <1>5, <1>6, <1>7, UsedStaysIf DEF SafetyInv, RecordsInv, StepFacts

LEMMA ResultAwaitsFacts ==
  ASSUME SafetyInv, NEW r \in results, ResultAwaitsVersion(r), UNCHANGED issuer
  PROVE  StepFacts
<1>. DEFINE j   == r.job
            rec == [jobs[j] EXCEPT !.accepted = TRUE, !.overdue = FALSE]
<1>1. /\ j \in JobIds /\ r.node \in Nodes /\ jobs[j].node = r.node /\ AgentJob(jobs[j])
      /\ jobs[j].status = "running" /\ JobsInv /\ running \in [Nodes -> JobIds] /\ jobs[j] \in Job
  BY DEF SafetyInv, JobsInv, TypeOK, AgentTypeOK, StateTypeOK, Result, ResultAwaitsVersion, Accepts
<1>2. /\ UNCHANGED <<revoked, domains, certs, handlers, commits, issuer>>
      /\ running' = [running EXCEPT ![r.node] = j]
      /\ jobs' = [jobs EXCEPT ![j] = rec]
  BY DEF ResultAwaitsVersion
<1>3. Continues(j, rec)
  BY <1>1, <1>2, ChangesContinue
<1>4. rec.status = "running" /\ AgentJob(rec) /\ rec.node = r.node
  BY <1>1 DEF Job, AgentJob
<1>5. HeldSteps
  BY <1>2, HeldKept
<1>. HIDE DEF rec, j
<1>6. \A m \in Nodes : running'[m] # NoJob =>
        \/ running'[m] = running[m] /\ (running[m] = j => rec.status = "running")
        \/ running'[m] = j /\ rec.status = "running" /\ AgentJob(rec) /\ rec.node = m
  BY <1>1, <1>2, <1>4
<1>7. jobs' = [jobs EXCEPT ![j] = rec] /\ UNCHANGED <<revoked, domains, certs>>
  BY <1>2
<1>. QED
  BY <1>1, <1>3, <1>5, <1>6, <1>7, OneJobFacts

LEMMA ResultSucceedsFacts ==
  ASSUME SafetyInv, NEW r \in results, ResultSucceeds(r), UNCHANGED issuer
  PROVE  StepFacts
<1>1. /\ r.job \in JobIds /\ r.node \in Nodes /\ jobs[r.job].node = r.node
      /\ jobs[r.job].status = "running" /\ certs \in [Certs -> Cert]
      /\ jobs[r.job].type \notin {"capture", "issue"}
  BY DEF SafetyInv, JobsInv, TypeOK, AgentTypeOK, StateTypeOK, Result, ResultSucceeds, Accepts,
         AgentJob, Captures
<1>2. HeldSteps
  BY HeldKept DEF ResultSucceeds
<1>3. CASE /\ CompletesWith(r.job, NoCert, certs)
           /\ running' = [running EXCEPT ![r.node] = NoJob] /\ UNCHANGED revoked
  <2>1. \A m \in Nodes : running'[m] # NoJob => running'[m] = running[m] /\ running[m] # r.job
    BY <1>1, <1>3, PointerCleared
  <2>2. \A k \in Certs : SoundCert(certs[k])
    BY DEF SafetyInv, RecordsInv
  <2>. QED
    BY <1>1, <1>2, <1>3, <2>1, <2>2, CompletesFacts DEF AnyCert
<1>4. CASE UNCHANGED stateVars
  BY <1>2, <1>4, StateKept
<1>. QED
  BY <1>3, <1>4 DEF ResultSucceeds

\* Reserving an identifier touches no certificate that exists.
LEMMA ReserveKeeps ==
  ASSUME certs \in [Certs -> Cert], NEW c \in Certs, certs' = Reserve(c), NEW k \in Certs
  PROVE  /\ certs[k].state = "live" <=> certs'[k].state = "live"
         /\ certs'[k].issuer = certs[k].issuer
<1>1. \/ certs'[k] = certs[k]
      \/ certs[k].state = "unused" /\ certs'[k] = [certs[k] EXCEPT !.state = "reserved"]
  BY DEF Reserve
<1>. QED
  BY <1>1 DEF Cert

LEMMA PrepareResultFacts ==
  ASSUME SafetyInv, NEW r \in results, PrepareResult(r), UNCHANGED issuer
  PROVE  StepFacts
<1>1. PICK c \in Certs, sans \in SUBSET Domains :
        /\ certs' = Reserve(c)
        /\ commits' = commits \cup
             {[job |-> r.job, node |-> r.node, cert |-> c,
               record |-> PreparedRecord(jobs[r.job], c, sans)]}
  BY DEF PrepareResult
<1>2. UNCHANGED <<jobs, running, revoked, domains, handlers, issuer>>
  BY DEF PrepareResult
<1>3. SignedBy(PreparedRecord(jobs[r.job], c, sans), r.node)
  BY DEF SignedBy, PreparedRecord, PrepareResult, Accepts
<1>4. PreparedSteps
  BY <1>1, <1>3 DEF PreparedSteps
<1>5. HeldSteps
  BY <1>2, <1>4 DEF HeldSteps, HandlerSteps, WorkerSteps
<1>6. certs \in [Certs -> Cert] /\ \A k \in Certs : SoundCert(certs[k])
  BY DEF SafetyInv, JobsInv, TypeOK, StateTypeOK, RecordsInv
<1>7. /\ \A k \in Certs : certs[k].state = "live" => certs'[k].state = "live"
      /\ \A k \in Certs : certs'[k].state = "live" => certs'[k].issuer \notin revoked'
  BY <1>1, <1>2, <1>6, ReserveKeeps DEF SoundCert
<1>. QED
  BY <1>2, <1>5, <1>7, CertsOnlyFacts

\* The record a result stores is signed by the node the job runs on.
LEMMA CommitResultFacts ==
  ASSUME SafetyInv, NEW k \in commits, CommitResult(k), UNCHANGED issuer
  PROVE  StepFacts
<1>1. /\ k.job \in JobIds /\ k.node \in Nodes /\ k.cert \in Certs /\ k.record \in Cert
      /\ certs \in [Certs -> Cert] /\ NoCert \notin Certs
  BY ControllerAssumption DEF SafetyInv, JobsInv, TypeOK, AgentTypeOK, StateTypeOK, Commit
<1>2. HeldSteps
  <2>1. commits' = commits \ {k} /\ UNCHANGED <<handlers, issuer>>
    BY DEF CommitResult
  <2>. QED
    BY <2>1 DEF HeldSteps, HandlerSteps, WorkerSteps, PreparedSteps
<1>3. CASE /\ Accepts(k) /\ CompletesWith(k.job, k.cert, Stored(k))
           /\ running' = [running EXCEPT ![k.node] = NoJob] /\ UNCHANGED revoked
  <2>1. k.job \in RunningAt(k.node) /\ jobs[k.job].node = k.node
    BY <1>1, <1>3 DEF Accepts, RunningAt
  <2>2. k.node \notin revoked
    BY <2>1 DEF SafetyInv, RevokedIdle
  <2>3. Stored(k) \in [Certs -> Cert] /\ Stored(k)[k.cert] = k.record
        /\ \A i \in Certs : i # k.cert => Stored(k)[i] = certs[i]
    BY <1>1 DEF Stored
  <2>4. SignedBy(k.record, k.node)
    BY DEF SafetyInv, HeldInv, CommitsHeld
  <2>5. \A i \in Certs :
          SoundCert(Stored(k)[i]) /\ (certs[i].state = "live" => Stored(k)[i].state = "live")
    BY <2>2, <2>3, <2>4 DEF SafetyInv, RecordsInv, SoundCert, SignedBy
  <2>6. \A m \in Nodes : running'[m] # NoJob => running'[m] = running[m] /\ running[m] # k.job
    BY <1>1, <1>3, <2>1, PointerCleared
  <2>7. k.cert \in AnyCert /\ k.cert # NoCert /\ Stored(k)[k.cert].state = "live"
    BY <1>1, <2>3, <2>4 DEF AnyCert, SignedBy
  <2>. QED
    BY <1>1, <1>2, <1>3, <2>3, <2>5, <2>6, <2>7, CompletesFacts
<1>4. CASE UNCHANGED stateVars
  BY <1>2, <1>4, StateKept
<1>. QED
  BY <1>3, <1>4 DEF CommitResult

-----------------------------------------------------------------------------
(* Revocation *)

LEMMA OrphanedSound ==
  ASSUME NEW D \in [Domains -> Domain], NEW S \in SUBSET Nodes, NEW d \in Domains, SoundDomain(D[d]),
         NoNode \notin revoked
  PROVE  LET r == Orphaned(D, S)[d] IN
         r.state = "live" =>
           /\ D[d].state = "live"
           /\ r.node \notin revoked \cup S /\ r.syncs \cap (revoked \cup S) = {}
           /\ r.renew => r.acct /\ r.node \in Nodes
           /\ r.cert = D[d].cert
<1>. DEFINE r == Orphaned(D, S)[d]
<1>1. SUFFICES ASSUME r.state = "live"
               PROVE  /\ D[d].state = "live"
                      /\ r.node \notin revoked \cup S /\ r.syncs \cap (revoked \cup S) = {}
                      /\ r.renew => r.acct /\ r.node \in Nodes
                      /\ r.cert = D[d].cert
  OBVIOUS
<1>2. D[d].state = "live"
  BY <1>1 DEF Orphaned, Domain
<1>3. CASE D[d].node \in S
  <2>1. r = [D[d] EXCEPT !.syncs = @ \ S, !.node = NoNode, !.enabled = FALSE,
                         !.deleting = FALSE, !.renew = FALSE]
    BY <1>2, <1>3 DEF Orphaned
  <2>2. /\ r.node = NoNode /\ r.syncs = D[d].syncs \ S /\ r.renew = FALSE /\ r.cert = D[d].cert
    BY <2>1 DEF Domain
  <2>. QED
    BY <1>2, <2>2, ControllerAssumption DEF SoundDomain
<1>4. CASE D[d].node \notin S
  <2>1. r = [D[d] EXCEPT !.syncs = @ \ S]
    BY <1>2, <1>4 DEF Orphaned
  <2>2. /\ r.node = D[d].node /\ r.syncs = D[d].syncs \ S /\ r.renew = D[d].renew
        /\ r.acct = D[d].acct /\ r.cert = D[d].cert
    BY <2>1 DEF Domain
  <2>. QED
    BY <1>2, <1>4, <2>2 DEF SoundDomain
<1>. QED
  BY <1>3, <1>4

LEMMA UndeployedSound ==
  ASSUME NEW C \in [Certs -> Cert], NEW S \in SUBSET Nodes, NEW c \in Certs, SoundCert(C[c]),
         NoNode \notin revoked
  PROVE  /\ Undeployed(C, S)[c].state = C[c].state
         /\ C[c].state = "live" => Undeployed(C, S)[c].issuer \notin revoked \cup S
<1>1. CASE C[c].issuer \in S
  <2>1. Undeployed(C, S)[c] = [C[c] EXCEPT !.deployed = @ \ S, !.issuer = NoNode, !.renew = FALSE]
    BY <1>1 DEF Undeployed
  <2>. QED
    BY <2>1, ControllerAssumption DEF Cert
<1>2. CASE C[c].issuer \notin S
  <2>1. Undeployed(C, S)[c] = [C[c] EXCEPT !.deployed = @ \ S]
    BY <1>2 DEF Undeployed
  <2>. QED
    BY <1>2, <2>1 DEF Cert, SoundCert
<1>. QED
  BY <1>1, <1>2

\* Every job of the nodes fails, and no record names them any more.
LEMMA RevokesFacts ==
  ASSUME SafetyInv, NEW S \in SUBSET Nodes, Revokes(S), HeldSteps
  PROVE  StepFacts
<1>1. /\ jobs \in [JobIds -> Job] /\ running \in [Nodes -> JobIds] /\ revoked \subseteq Nodes
      /\ domains \in [Domains -> Domain] /\ certs \in [Certs -> Cert]
      /\ NoNode \notin revoked
  BY ControllerAssumption DEF SafetyInv, JobsInv, TypeOK, StateTypeOK
<1>2. TaskSteps
  <2>. SUFFICES ASSUME NEW j \in JobIds PROVE Continues(j, jobs'[j])
    BY DEF TaskSteps, TaskStep
  <2>1. CASE j \in JobsOf(S)
    <3>1. jobs'[j] = Fail(jobs[j]) /\ jobs[j] \in Job
      BY <1>1, <2>1 DEF Revokes
    <3>. QED
      BY <3>1 DEF Continues, Fail, Active, Job
  <2>2. CASE j \notin JobsOf(S)
    <3>1. jobs'[j] = jobs[j] /\ revoked' = revoked \cup S
      BY <2>2 DEF Revokes
    <3>2. Active(jobs[j]) => jobs[j].node \notin S
      BY <2>2 DEF JobsOf
    <3>. QED
      BY <3>1, <3>2 DEF Continues
  <2>. QED
    BY <2>1, <2>2
<1>3. PointerSteps
  <2>1. ASSUME NEW n \in Nodes, running'[n] # NoJob
        PROVE  running'[n] = running[n] /\ jobs'[running[n]].status = "running"
    <3>1. n \notin S /\ running'[n] = running[n]
      BY <2>1 DEF Revokes
    <3>2. running[n] \in JobIds /\ jobs[running[n]].node = n /\ jobs[running[n]].status = "running"
      BY <2>1, <3>1 DEF SafetyInv, PointerValid, RunningAt
    <3>3. jobs'[running[n]] = jobs[running[n]]
      BY <3>1, <3>2 DEF Revokes, JobsOf
    <3>. QED
      BY <3>1, <3>2, <3>3
  <2>. QED
    BY <1>2, <2>1, PointersKept DEF SafetyInv
<1>4. CertsStay /\ \A c \in Certs : SoundCert(certs[c])'
  <2>1. certs' = Undeployed(certs, S) /\ revoked' = revoked \cup S
    BY DEF Revokes
  <2>2. \A c \in Certs :
          /\ certs'[c].state = certs[c].state
          /\ certs[c].state = "live" => certs'[c].issuer \notin revoked'
    BY <1>1, <2>1, UndeployedSound DEF SafetyInv, RecordsInv
  <2>. QED
    BY <2>2 DEF CertsStay, SoundCert
<1>5. ASSUME NEW d \in Domains
      PROVE  SoundDomain(domains[d])'
  <2>. DEFINE r == Orphaned(domains, S)[d]
  <2>1. domains' = RestoreDeletions(Orphaned(domains, S), JobsOf(S)) /\ revoked' = revoked \cup S
    BY DEF Revokes
  <2>2. SameUses(domains'[d], r)
    BY <1>1, <2>1, OrphanedType, RestoreKeepsUses
  <2>3. SoundDomain(domains[d])
    BY DEF SafetyInv, RecordsInv
  <2>4. r.state = "live" =>
          /\ domains[d].state = "live"
          /\ r.node \notin revoked' /\ r.syncs \cap revoked' = {}
          /\ r.renew => r.acct /\ r.node \in Nodes
          /\ r.cert = domains[d].cert
    BY <1>1, <2>1, <2>3, OrphanedSound
  <2>. HIDE DEF r
  <2>5. domains'[d].state = "live" /\ domains'[d].cert # NoCert => StoredLive(domains'[d].cert)
    BY <1>4, <2>2, <2>3, <2>4 DEF SameUses, SoundDomain, CertsStay, LiveCert, StoredLive
  <2>. QED
    BY <2>2, <2>4, <2>5 DEF SameUses, SoundDomain, LiveCert, StoredLive
<1>. QED
  BY <1>2, <1>3, <1>4, <1>5, UsedStaysIf DEF SafetyInv, RecordsInv, StepFacts

-----------------------------------------------------------------------------
(* The steps of agents and of the certificate worker *)

LEMMA AgentFacts ==
  ASSUME SafetyInv, AgentNext, UNCHANGED issuer
  PROVE  StepFacts
<1>0. handlers \in [Handlers -> Handler]
  BY DEF SafetyInv, JobsInv, TypeOK, AgentTypeOK
<1>1. ASSUME NEW n \in Nodes,
             \/ PollObserves(n) \/ PollFindsNothing(n)
             \/ PostResult(n) \/ AgentCrash(n) \/ Unregister(n)
      PROVE  StepFacts
  <2>1. CASE PollObserves(n) \/ PollFindsNothing(n)
    BY <2>1, PollObservesFacts, PollFindsNothingFacts
  <2>2. CASE PostResult(n) \/ AgentCrash(n)
    <3>1. UNCHANGED <<stateVars, handlers, commits>>
      BY <2>2 DEF PostResult, AgentCrash
    <3>. QED
      BY <3>1, HeldKept, StateKept
  <2>3. CASE Unregister(n)
    <3>1. Revokes({n}) /\ UNCHANGED <<handlers, commits>>
      BY <2>3 DEF Unregister, agentVars
    <3>. QED
      BY <3>1, HeldKept, RevokesFacts
  <2>. QED
    BY <1>1, <2>1, <2>2, <2>3
<1>2. ASSUME NEW n \in Nodes, NEW h \in Handlers,
             PollRedelivers(n, h) \/ PollAdopts(n, h) \/ PollDispatches(n, h)
      PROVE  StepFacts
  BY <1>2, PollSendsFacts
<1>3. ASSUME NEW h \in Handlers, Respond(h) \/ CannotBuild(h) \/ FailDispatch(h) \/ GiveUp(h)
      PROVE  StepFacts
  <2>1. CASE Respond(h) \/ CannotBuild(h) \/ GiveUp(h)
    <3>1. UNCHANGED <<stateVars, commits, issuer>>
      BY <2>1 DEF Respond, CannotBuild, GiveUp
    <3>2. ASSUME Respond(h) PROVE HandlerSteps
      BY <1>0, <3>2 DEF Respond, HandlerSteps, Idle
    <3>3. ASSUME CannotBuild(h) PROVE HandlerSteps
      <4>1. handlers[h].type # "delete" /\ handlers[h].stage = "selected"
        BY <3>3 DEF CannotBuild, BuildsWire
      <4>2. handlers' = [handlers EXCEPT ![h] = [handlers[h] EXCEPT !.stage = "failing"]]
        BY <3>3 DEF CannotBuild
      <4>. QED
        BY <1>0, <4>1, <4>2 DEF HandlerSteps, Handler
    <3>4. ASSUME GiveUp(h) PROVE HandlerSteps
      <4>1. handlers' = [handlers EXCEPT ![h] = [handlers[h] EXCEPT !.client = FALSE]]
        BY <3>4 DEF GiveUp
      <4>. QED
        BY <1>0, <4>1 DEF HandlerSteps, Handler
    <3>5. HeldSteps
      BY <2>1, <3>1, <3>2, <3>3, <3>4 DEF HeldSteps, WorkerSteps, PreparedSteps
    <3>. QED
      BY <3>1, <3>5, StateKept
  <2>. QED
    BY <1>3, <2>1, FailDispatchFacts
<1>4. ASSUME NEW r \in results,
             \/ LoseResult(r) \/ ResultChangesNothing(r) \/ ResultAwaitsVersion(r)
             \/ ResultFails(r) \/ ResultSucceeds(r) \/ PrepareResult(r)
      PROVE  StepFacts
  <2>1. CASE LoseResult(r) \/ ResultChangesNothing(r)
    <3>1. UNCHANGED <<stateVars, handlers, commits>>
      BY <2>1 DEF LoseResult, ResultChangesNothing
    <3>. QED
      BY <3>1, HeldKept, StateKept
  <2>. QED
    BY <1>4, <2>1, ResultAwaitsFacts, ResultFailsFacts, ResultSucceedsFacts, PrepareResultFacts
<1>5. ASSUME NEW k \in commits, CommitResult(k)
      PROVE  StepFacts
  BY <1>5, CommitResultFacts
<1>. QED
  BY <1>1, <1>2, <1>3, <1>4, <1>5 DEF AgentNext

LEMMA IssuerStartFacts ==
  ASSUME SafetyInv, NEW j \in JobIds, IssuerStart(j), UNCHANGED <<handlers, commits>>
  PROVE  StepFacts
<1>. DEFINE r == Dispatched(jobs[j])
<1>1. /\ jobs[j].type = "issue" /\ Active(jobs[j]) /\ jobs[j].status # "absent" /\ j # NoJob
      /\ JobsInv
  BY ActiveIsReal DEF IssuerStart, IssueJobs, SafetyInv, Active
<1>2. jobs[j].node \notin revoked
  BY <1>1 DEF SafetyInv, RevokedIdle
<1>3. jobs' = [jobs EXCEPT ![j] = r] /\ UNCHANGED <<revoked, domains, certs>>
  BY DEF IssuerStart
<1>4. Continues(j, r)
  BY <1>1, <1>2, <1>3, ChangesContinue
\* No pointer names a job the controller executes itself.
<1>5. \A n \in Nodes : running'[n] # NoJob => running'[n] = running[n] /\ running[n] # j
  BY <1>1 DEF IssuerStart, SafetyInv, PointerValid, RunningAt, AgentJob
<1>6. WorkerSteps
  <2>1. /\ issuer'.stage = "picked" /\ issuer'.job = j /\ issuer'.copy = jobs[j]
    BY DEF IssuerStart, Free
  <2>. QED
    BY <1>1, <2>1 DEF WorkerSteps
<1>7. HeldSteps
  BY <1>6 DEF HeldSteps, HandlerSteps, PreparedSteps
<1>. HIDE DEF r
<1>. QED
  BY <1>3, <1>4, <1>5, <1>7, OneJobFacts

\* The job the worker holds is an issue job, if it is kept, and no pointer names it.
LEMMA WorkedOn ==
  ASSUME SafetyInv, issuer.stage # "free", StillMine
  PROVE  /\ issuer.job \in JobIds /\ jobs[issuer.job].status = "running"
         /\ jobs[issuer.job].type = "issue" /\ jobs[issuer.job].node = issuer.copy.node
         /\ issuer.copy.node \notin revoked
         /\ \A n \in Nodes : running[n] # NoJob => running[n] # issuer.job
<1>1. issuer.job \in JobIds /\ jobs[issuer.job].status = "running"
  BY DEF SafetyInv, JobsInv, TypeOK, IssuerTypeOK, Worker, StillMine
<1>2. jobs[issuer.job].type = "issue" /\ jobs[issuer.job].node = issuer.copy.node
  BY <1>1 DEF SafetyInv, HeldInv, WorkHeld, CopyOf
<1>3. issuer.copy.node \notin revoked
  BY <1>1, <1>2 DEF SafetyInv, RevokedIdle, Active
<1>4. \A n \in Nodes : running[n] # NoJob => running[n] # issuer.job
  BY <1>2 DEF SafetyInv, PointerValid, RunningAt, AgentJob
<1>. QED
  BY <1>1, <1>2, <1>3, <1>4

LEMMA IssuerFacts ==
  ASSUME SafetyInv, IssuerNext, UNCHANGED agentVars
  PROVE  StepFacts
<1>0. /\ UNCHANGED <<handlers, commits>> /\ certs \in [Certs -> Cert] /\ issuer \in Worker
      /\ running \in [Nodes -> JobIds] /\ jobs \in [JobIds -> Job]
  BY DEF agentVars, SafetyInv, JobsInv, TypeOK, StateTypeOK, IssuerTypeOK
<1>1. CASE IssuerObtains
  <2>1. PICK c \in Certs, sans \in SUBSET Domains :
          /\ certs' = Reserve(c)
          /\ issuer' = [issuer EXCEPT !.stage = "issued", !.cert = c,
                                      !.record = PreparedRecord(issuer.copy, c, sans)]
    BY <1>1 DEF IssuerObtains
  <2>2. issuer.stage = "issuing" /\ UNCHANGED <<jobs, running, revoked, domains>>
    BY <1>1 DEF IssuerObtains
  <2>3. /\ issuer'.stage = "issued" /\ issuer'.cert = c /\ issuer'.job = issuer.job
        /\ issuer'.copy = issuer.copy /\ issuer'.record = PreparedRecord(issuer.copy, c, sans)
    BY <1>0, <2>1 DEF Worker
  <2>4. SignedBy(PreparedRecord(issuer.copy, c, sans), issuer.copy.node)
    BY DEF SignedBy, PreparedRecord
  <2>5. HeldSteps
    BY <1>0, <2>2, <2>3, <2>4 DEF HeldSteps, HandlerSteps, WorkerSteps, PreparedSteps
  <2>6. \A k \in Certs : SoundCert(certs[k])
    BY DEF SafetyInv, RecordsInv
  <2>7. /\ \A k \in Certs : certs[k].state = "live" => certs'[k].state = "live"
        /\ \A k \in Certs : certs'[k].state = "live" => certs'[k].issuer \notin revoked'
    BY <1>0, <2>1, <2>2, <2>6, ReserveKeeps DEF SoundCert
  <2>. QED
    BY <2>2, <2>5, <2>7, CertsOnlyFacts
<1>2. CASE IssuerResolves \/ IssuerFails
  <2>1. /\ issuer.stage \in {"picked", "issuing"} /\ UNCHANGED stateVars
        /\ issuer'.stage \in {"issuing", "failed"}
        /\ issuer'.job = issuer.job /\ issuer'.copy = issuer.copy
    BY <1>0, <1>2 DEF IssuerResolves, IssuerFails, Worker
  <2>2. HeldSteps
    BY <1>0, <2>1 DEF HeldSteps, HandlerSteps, WorkerSteps, PreparedSteps
  <2>. QED
    BY <2>1, <2>2, StateKept
<1>3. ASSUME issuer' = Free PROVE HeldSteps
  BY <1>0, <1>3 DEF HeldSteps, HandlerSteps, WorkerSteps, PreparedSteps, Free
<1>4. CASE IssuerCommits
  <2>. DEFINE C == [certs EXCEPT ![issuer.cert] = issuer.record]
  <2>1. issuer.stage = "issued" /\ HeldSteps
    BY <1>3, <1>4 DEF IssuerCommits
  <2>2. CASE StillMine /\ CompletesWith(issuer.job, issuer.cert, C) /\ UNCHANGED <<running, revoked>>
    <3>1. /\ issuer.job \in JobIds /\ jobs[issuer.job].status = "running"
          /\ issuer.copy.node \notin revoked
          /\ \A n \in Nodes : running[n] # NoJob => running[n] # issuer.job
      BY <2>1, <2>2, WorkedOn
    <3>2. issuer.cert \in Certs /\ SignedBy(issuer.record, issuer.copy.node) /\ issuer.record \in Cert
      BY <1>0, <2>1 DEF SafetyInv, HeldInv, WorkHeld, Worker
    <3>3. C \in [Certs -> Cert] /\ C[issuer.cert] = issuer.record
          /\ \A i \in Certs : i # issuer.cert => C[i] = certs[i]
      BY <1>0, <3>2
    <3>4. \A i \in Certs : SoundCert(C[i]) /\ (certs[i].state = "live" => C[i].state = "live")
      BY <3>1, <3>2, <3>3 DEF SafetyInv, RecordsInv, SoundCert, SignedBy
    <3>5. issuer.cert \in AnyCert /\ issuer.cert # NoCert /\ C[issuer.cert].state = "live"
      BY <3>2, <3>3, ControllerAssumption DEF AnyCert, SignedBy
    <3>. HIDE DEF C
    <3>. QED
      BY <2>1, <2>2, <3>1, <3>3, <3>4, <3>5, CompletesFacts
  <2>3. CASE UNCHANGED stateVars
    BY <2>1, <2>3, StateKept
  <2>. QED
    BY <1>4, <2>2, <2>3 DEF IssuerCommits
<1>5. CASE IssuerReportsFailure
  <2>. DEFINE j == issuer.job
              r == IF jobs[j].attempts < MaxAttempts THEN Requeue(jobs[j]) ELSE Fail(jobs[j])
  <2>1. issuer.stage = "failed" /\ HeldSteps /\ UNCHANGED <<lastId, running, revoked, domains, certs>>
    BY <1>3, <1>5 DEF IssuerReportsFailure
  <2>2. CASE StillMine
    <3>1. /\ j \in JobIds /\ jobs[j].status = "running"
          /\ \A n \in Nodes : running[n] # NoJob => running[n] # j
      BY <2>1, <2>2, WorkedOn
    <3>2. jobs' = [jobs EXCEPT ![j] = r]
      BY <1>5, <2>2 DEF IssuerReportsFailure
    <3>3. Continues(j, r)
      BY <2>1, <3>1, ChangesContinue DEF SafetyInv
    <3>. HIDE DEF r, j
    <3>. QED
      BY <2>1, <3>1, <3>2, <3>3, OneJobFacts
  <2>3. CASE ~StillMine
    <3>1. UNCHANGED stateVars
      BY <1>5, <2>3 DEF IssuerReportsFailure, stateVars
    <3>. QED
      BY <2>1, <3>1, StateKept
  <2>. QED
    BY <2>2, <2>3
<1>. QED
  BY <1>0, <1>1, <1>2, <1>4, <1>5, IssuerStartFacts DEF IssuerNext

-----------------------------------------------------------------------------
(* Requests about domains *)

\* r is stored for a domain by this step.
SoundRecord(r) ==
  r.state = "live" =>
    /\ r.node \notin revoked' /\ r.syncs \cap revoked' = {}
    /\ r.renew => r.acct /\ r.node \in Nodes
    /\ r.cert # NoCert => StoredLive(r.cert)

LEMMA CertsKeepSigners ==
  ASSUME RecordsInv, UNCHANGED revoked,
         \A c \in Certs : certs'[c].state = certs[c].state /\ certs'[c].issuer = certs[c].issuer
  PROVE  CertsStay /\ \A c \in Certs : SoundCert(certs[c])'
BY DEF RecordsInv, CertsStay, SoundCert

LEMMA MakeRenewKeeps ==
  ASSUME certs \in [Certs -> Cert], NEW c \in AnyCert, NEW wanted, NEW k \in Certs
  PROVE  MakeRenew(c, wanted)[k].state = certs[k].state /\ MakeRenew(c, wanted)[k].issuer = certs[k].issuer
<1>1. CASE c # NoCert /\ wanted /\ k = c
  <2>1. MakeRenew(c, wanted)[k] = [certs[k] EXCEPT !.renew = TRUE, !.acct = TRUE]
    BY <1>1 DEF MakeRenew
  <2>. QED
    BY <2>1 DEF Cert
<1>2. CASE ~(c # NoCert /\ wanted /\ k = c)
  <2>1. MakeRenew(c, wanted)[k] = certs[k]
    BY <1>2 DEF MakeRenew
  <2>. QED
    BY <2>1
<1>. QED
  BY <1>1, <1>2

LEMMA OneDomainSound ==
  ASSUME RecordsInv, UNCHANGED revoked, CertsStay, \A c \in Certs : SoundCert(certs[c])',
         domains \in [Domains -> Domain], NEW d \in Domains, NEW r,
         SoundRecord(r) \/ SameUses(r, domains[d]), domains' = [domains EXCEPT ![d] = r]
  PROVE  RecordsInv'
<1>. SUFFICES ASSUME NEW e \in Domains PROVE SoundDomain(domains[e])'
  BY DEF RecordsInv
<1>1. CASE e = d /\ SoundRecord(r)
  <2>1. domains'[e] = r
    BY <1>1
  <2>. QED
    BY <1>1, <2>1 DEF SoundRecord, SoundDomain, StoredLive, LiveCert
<1>2. CASE e = d /\ SameUses(r, domains[d])
  BY <1>2, DomainStaysSound DEF SameUses
<1>3. CASE e # d
  BY <1>3, DomainStaysSound DEF SameUses
<1>. QED
  BY <1>1, <1>2, <1>3

\* What a request that stores one domain and creates at most one job has to show.
LEMMA DomainRequestFacts ==
  ASSUME SafetyInv, UNCHANGED <<running, revoked, handlers, commits, issuer>>,
         \A c \in Certs : certs'[c].state = certs[c].state /\ certs'[c].issuer = certs[c].issuer,
         NEW d \in Domains, NEW r, SoundRecord(r) \/ SameUses(r, domains[d]),
         domains' = [domains EXCEPT ![d] = r],
         NEW rec, FreshJob(rec), jobs' = jobs \/ EnqueueOne(jobs, rec)
  PROVE  StepFacts
<1>1. CertsStay /\ \A c \in Certs : SoundCert(certs[c])'
  BY CertsKeepSigners DEF SafetyInv
<1>2. RecordsInv'
  BY <1>1, OneDomainSound DEF SafetyInv, JobsInv, TypeOK, StateTypeOK
<1>3. UsedStays
  BY <1>1, UsedStaysIf DEF SafetyInv
<1>4. Adds(jobs)
  BY DEF Adds
<1>. QED
  BY <1>2, <1>3, <1>4, RequestFacts

LEMMA StateTypes ==
  ASSUME SafetyInv
  PROVE  /\ jobs \in [JobIds -> Job] /\ lastId \in JobIds /\ running \in [Nodes -> JobIds]
         /\ revoked \subseteq Nodes /\ NoNode \notin revoked
         /\ domains \in [Domains -> Domain] /\ certs \in [Certs -> Cert]
BY ControllerAssumption DEF SafetyInv, JobsInv, TypeOK, StateTypeOK

LEMMA CreateDomainFacts ==
  ASSUME SafetyInv, NEW d \in Domains, NEW n \in Nodes, NEW m \in Modes, NEW c \in AnyCert,
         NEW rn \in BOOLEAN, NEW S \in SUBSET Nodes, CreateDomain(d, n, m, c, rn, S),
         UNCHANGED <<handlers, commits, issuer>>
  PROVE  StepFacts
<1>. DEFINE rec == IF m = "acme" THEN DomainIssueJob(n, d) ELSE ApplyJob(n, d, c, m = "local")
            r == [UnusedDomain EXCEPT !.state = "live", !.node = n, !.mode = m, !.cert = c,
                            !.acct = (m = "acme" \/ rn), !.renew = rn,
                            !.syncs = S \ {n}, !.lastJob = NextId]
<1>1. /\ n \notin revoked /\ (S \ {n}) \cap revoked = {}
      /\ c # NoCert => LiveCert(c)
      /\ certs' = MakeRenew(c, rn) /\ UNCHANGED <<running, revoked>>
      /\ domains' = [domains EXCEPT ![d] = r] /\ EnqueueOne(jobs, rec)
  BY DEF CreateDomain, LiveNode, ValidTargets
<1>2. \A k \in Certs : certs'[k].state = certs[k].state /\ certs'[k].issuer = certs[k].issuer
  BY <1>1, MakeRenewKeeps, StateTypes
<1>3. c # NoCert => StoredLive(c)
  BY <1>1, <1>2 DEF LiveCert, StoredLive
<1>4. FreshJob(rec)
  BY <1>1, <1>3, FreshRecords
<1>5. /\ r.state = "live" /\ r.node = n /\ r.syncs = S \ {n} /\ r.renew = rn
      /\ r.acct = (m = "acme" \/ rn) /\ r.cert = c
  BY DEF UnusedDomain
<1>. HIDE DEF r, rec
<1>6. SoundRecord(r)
  BY <1>1, <1>3, <1>5 DEF SoundRecord
<1>. QED
  BY <1>1, <1>2, <1>4, <1>6, DomainRequestFacts

LEMMA AdoptDomainFacts ==
  ASSUME SafetyInv, NEW d \in Domains, NEW n \in Nodes, NEW takeover \in BOOLEAN, NEW tls \in BOOLEAN,
         AdoptDomain(d, n, takeover, tls), UNCHANGED <<handlers, commits, issuer>>
  PROVE  StepFacts
<1>. DEFINE adopted == [UnusedDomain EXCEPT !.state = "live", !.node = n,
                       !.mode = IF tls THEN "local" ELSE "none",
                       !.observed = ~takeover, !.enabled = TRUE]
<1>1. n \notin revoked /\ UNCHANGED <<running, revoked, certs>>
  BY DEF AdoptDomain, LiveNode
<1>2. \A k \in Certs : certs'[k].state = certs[k].state /\ certs'[k].issuer = certs[k].issuer
  BY <1>1
<1>3. ASSUME NEW r, r = adopted \/ r = [adopted EXCEPT !.lastJob = NextId]
      PROVE  SoundRecord(r)
  BY <1>1, <1>3 DEF SoundRecord, UnusedDomain
<1>. HIDE DEF adopted
<1>4. FreshJob(ApplyJob(n, d, NoCert, tls)) /\ FreshJob(NewJob("capture", n, d))
  BY FreshRecords
<1>5. CASE /\ EnqueueOne(jobs, ApplyJob(n, d, NoCert, tls)) \/ EnqueueOne(jobs, NewJob("capture", n, d))
           /\ domains' = [domains EXCEPT ![d] = [adopted EXCEPT !.lastJob = NextId]]
  BY <1>1, <1>2, <1>3, <1>4, <1>5, DomainRequestFacts
<1>6. CASE jobs' = jobs /\ domains' = [domains EXCEPT ![d] = adopted]
  BY <1>1, <1>2, <1>3, <1>4, <1>6, DomainRequestFacts
<1>. QED
  BY <1>5, <1>6 DEF AdoptDomain, adopted

LEMMA DeleteDomainFacts ==
  ASSUME SafetyInv, NEW d \in Domains, DeleteDomain(d), UNCHANGED <<handlers, commits, issuer>>
  PROVE  StepFacts
<1>. DEFINE rec == NewJob("delete", domains[d].node, d)
            r == [domains[d] EXCEPT !.enabled = FALSE, !.deleting = TRUE, !.lastJob = NextId]
<1>1. /\ UNCHANGED <<running, revoked, certs>> /\ domains[d] \in Domain
      /\ \A k \in Certs : certs'[k].state = certs[k].state /\ certs'[k].issuer = certs[k].issuer
  BY StateTypes DEF DeleteDomain
<1>2. FreshJob(rec)
  BY FreshRecords
<1>3. SameUses(r, domains[d])
  BY <1>1 DEF SameUses, Domain
<1>4. SoundRecord(RemovedDomain)
  BY DEF SoundRecord, RemovedDomain, UnusedDomain
<1>5. \/ jobs' = jobs /\ domains' = [domains EXCEPT ![d] = RemovedDomain]
      \/ EnqueueOne(jobs, rec) /\ domains' = [domains EXCEPT ![d] = r]
  BY DEF DeleteDomain
<1>. HIDE DEF r, rec
<1>. QED
  BY <1>1, <1>2, <1>3, <1>4, <1>5, DomainRequestFacts

LEMMA UpdateDomainFacts ==
  ASSUME SafetyInv, NEW d \in Domains, NEW n \in Nodes, NEW m \in Modes, NEW c \in AnyCert,
         NEW rn \in BOOLEAN, NEW S \in SUBSET Nodes, UpdateDomain(d, n, m, c, rn, S),
         UNCHANGED <<handlers, commits, issuer>>
  PROVE  StepFacts
<1>. DEFINE cert   == EditedCert(d, m, c)
            edited == [domains[d] EXCEPT !.node = n, !.mode = m, !.cert = cert,
                         !.acct = (m = "acme" \/ rn), !.renew = rn, !.syncs = S \ {n},
                         !.enabled = TRUE, !.deleting = FALSE]
            rec    == IF m = "acme" /\ cert = NoCert THEN DomainIssueJob(n, d)
                      ELSE ApplyJob(n, d, IF m = "local" THEN NoCert ELSE cert, m = "local")
<1>1. /\ n \notin revoked /\ (S \ {n}) \cap revoked = {}
      /\ cert # NoCert => LiveCert(cert)
      /\ certs' = MakeRenew(cert, rn) /\ UNCHANGED <<running, revoked>>
      /\ \/ domains' = [domains EXCEPT ![d] = edited] /\ jobs' = jobs
         \/ domains' = [domains EXCEPT ![d] = [edited EXCEPT !.lastJob = NextId]]
            /\ EnqueueOne(jobs, rec)
  BY DEF UpdateDomain, LiveNode, ValidTargets
<1>2. cert \in AnyCert /\ domains[d] \in Domain
  BY <1>1, StateTypes DEF LiveCert, AnyCert
<1>3. \A k \in Certs : certs'[k].state = certs[k].state /\ certs'[k].issuer = certs[k].issuer
  BY <1>1, <1>2, MakeRenewKeeps, StateTypes
<1>4. cert # NoCert => StoredLive(cert)
  BY <1>1, <1>3 DEF LiveCert, StoredLive
<1>. HIDE DEF cert
<1>5. FreshJob(rec)
  BY <1>1, <1>4, FreshRecords
<1>6. ASSUME NEW r, r = edited \/ r = [edited EXCEPT !.lastJob = NextId]
      PROVE  SoundRecord(r)
  <2>1. /\ r.node = n /\ r.syncs = S \ {n} /\ r.renew = rn
        /\ r.acct = (m = "acme" \/ rn) /\ r.cert = cert
    BY <1>2, <1>6 DEF Domain
  <2>. QED
    BY <1>1, <1>4, <2>1 DEF SoundRecord
<1>. HIDE DEF edited, rec
<1>. QED
  BY <1>1, <1>3, <1>5, <1>6, DomainRequestFacts

LEMMA UpdateDomainConfigFacts ==
  ASSUME SafetyInv, NEW d \in Domains, NEW config, UpdateDomainConfig(d, config),
         UNCHANGED <<handlers, commits, issuer>>
  PROVE  StepFacts
<1>. DEFINE cert == IF domains[d].mode \in {"acme", "upload"} THEN domains[d].cert ELSE NoCert
            rec  == [ApplyJob(domains[d].node, d, cert, FALSE) EXCEPT !.config = config]
            r    == [domains[d] EXCEPT !.lastJob = NextId]
<1>1. /\ LiveDomain(d) /\ UNCHANGED <<running, revoked, certs>>
      /\ EnqueueOne(jobs, rec) /\ domains' = [domains EXCEPT ![d] = r]
  BY DEF UpdateDomainConfig
<1>2. \A k \in Certs : certs'[k].state = certs[k].state /\ certs'[k].issuer = certs[k].issuer
  BY <1>1
<1>3. cert # NoCert => StoredLive(cert)
  BY <1>1 DEF SafetyInv, RecordsInv, SoundDomain, LiveDomain, LiveCert, StoredLive
<1>4. SameUses(r, domains[d])
  BY StateTypes DEF SameUses, Domain
<1>. HIDE DEF cert, r
<1>5. FreshJob(rec)
  BY <1>3 DEF FreshJob, Wanted, StoredLive, ApplyJob, NewJob, AbsentJob
<1>. HIDE DEF rec
<1>. QED
  BY <1>1, <1>2, <1>4, <1>5, DomainRequestFacts

-----------------------------------------------------------------------------
(* Requests about jobs and nodes *)

\* Records that keep what they use stay sound.
LEMMA UsesKept ==
  ASSUME SafetyInv, UNCHANGED <<revoked, certs>>, \A d \in Domains : SameUses(domains'[d], domains[d])
  PROVE  RecordsInv' /\ UsedStays
<1>1. CertsStay /\ \A c \in Certs : SoundCert(certs[c])'
  BY CertsStaySound DEF SafetyInv
<1>2. \A d \in Domains : SoundDomain(domains[d])'
  BY <1>1, DomainStaysSound DEF SafetyInv
<1>. QED
  BY <1>1, <1>2, UsedStaysIf DEF SafetyInv, RecordsInv

\* The retry is created where the failed job could be, and as its only one.
LEMMA RetryJobFacts ==
  ASSUME SafetyInv, NEW i \in JobIds, RetryJob(i), UNCHANGED <<handlers, commits, issuer>>
  PROVE  StepFacts
<1>. DEFINE j == retrying[i]
<1>1. /\ jobs \in [JobIds -> Job] /\ domains \in [Domains -> Domain] /\ JobsInv
      /\ retrying \in [JobIds -> JobIds]
  BY StateTypes DEF SafetyInv, JobsInv, TypeOK, AdminTypeOK
<1>2. /\ j \in JobIds /\ j # NoJob /\ jobs[j] \in Job
      /\ jobs[j].status = "failed" /\ jobs[j].retryJob = NoJob
      /\ jobs[j].node \notin revoked /\ BuildsWire(jobs[j])
      /\ UNCHANGED <<running, revoked, certs>>
  BY <1>1 DEF RetryJob, MayRetry, Retriable, LiveNode
<1>3. Unused(i) /\ jobs[i].status = "absent" /\ i # j
  BY <1>1, <1>2 DEF Unused, JobsInv, FreshIds
<1>4. /\ jobs'[i] = Retry(j) /\ jobs'[j] = [jobs[j] EXCEPT !.retryJob = i]
      /\ \A k \in JobIds : k # j /\ k # i => jobs'[k] = jobs[k]
  BY <1>1, <1>2, <1>3 DEF RetryJob
<1>. HIDE DEF j
<1>5. TaskStep(i)
  <2>1. /\ Retry(j).status = "queued" /\ Retry(j).type = jobs[j].type /\ Retry(j).node = jobs[j].node
        /\ Retry(j).cert = jobs[j].cert /\ Retry(j).retryOf = j
    BY <1>2 DEF Retry, Job
  <2>2. jobs[j].type \in {"apply", "sync"} /\ jobs[j].cert # NoCert => LiveCert(jobs[j].cert)
    BY <1>2 DEF BuildsWire
  <2>3. Wanted(jobs'[i])
    BY <1>2, <1>4, <2>1, <2>2 DEF Wanted, LiveCert
  <2>4. jobs'[j].status = "failed" /\ jobs'[j].retryJob = i
    BY <1>2, <1>4 DEF Job
  <2>5. FirstRetry(i)
    BY <1>2, <1>4, <2>1, <2>4 DEF FirstRetry
  <2>. QED
    BY <1>3, <2>3, <2>5 DEF TaskStep
<1>6. Continues(j, jobs'[j])
  BY <1>2, <1>4 DEF Continues, Job, Active
<1>7. TaskSteps
  BY <1>2, <1>4, <1>5, <1>6, KeptContinues DEF TaskSteps, TaskStep
<1>8. PointerSteps
  <2>1. \A n \in Nodes : running'[n] # NoJob =>
          running'[n] = running[n] /\ jobs'[running[n]].status = "running"
    BY <1>2, <1>3, <1>4 DEF SafetyInv, PointerValid, RunningAt
  <2>. QED
    BY <1>1, <1>7, <2>1, PointersKept DEF SafetyInv
<1>9. \A d \in Domains : SameUses(domains'[d], domains[d])
  <2>. DEFINE e == jobs[j].domain
  <2>1. \/ domains' = domains
        \/ domains' = [domains EXCEPT ![e] = [domains[e] EXCEPT !.lastJob = i,
                                                 !.deleting = TRUE, !.enabled = FALSE]]
        \/ domains' = [domains EXCEPT ![e] = [domains[e] EXCEPT !.lastJob = i]]
    BY DEF RetryJob, j
  <2>2. ASSUME NEW d \in Domains
        PROVE  \/ domains'[d] = domains[d]
               \/ domains'[d] = [domains[d] EXCEPT !.lastJob = i,
                                                   !.deleting = TRUE, !.enabled = FALSE]
               \/ domains'[d] = [domains[d] EXCEPT !.lastJob = i]
    BY <1>1, <2>1
  <2>3. ASSUME NEW d \in Domains
        PROVE  SameUses(domains'[d], domains[d])
    <3>1. domains[d] \in Domain
      BY <1>1
    <3>. HIDE DEF e
    <3>. QED
      BY <2>2, <3>1 DEF SameUses, Domain
  <2>. QED
    BY <2>3
<1>. QED
  BY <1>2, <1>7, <1>8, <1>9, UsesKept, HeldKept DEF StepFacts

LEMMA RetryRequestFacts ==
  ASSUME SafetyInv, RetryRequests, UNCHANGED <<handlers, commits, issuer>>
  PROVE  StepFacts
<1>1. ASSUME NEW j \in JobIds, ReceiveRetry(j)
      PROVE  StepFacts
  <2>1. UNCHANGED <<jobs, running, revoked, domains, certs>>
    BY <1>1 DEF ReceiveRetry
  <2>2. TaskSteps
    BY <2>1, KeptContinues DEF TaskSteps, TaskStep
  <2>3. PointerSteps
    BY <2>1 DEF PointerSteps, SafetyInv, PointerValid, RunningAt
  <2>. QED
    BY <2>1, <2>2, <2>3, RecordsKept, HeldKept DEF SafetyInv, StepFacts
<1>2. ASSUME NEW i \in JobIds, RefuseRetry(i)
      PROVE  StepFacts
  BY <1>2, HeldKept, StateKept DEF RefuseRetry
<1>. QED
  BY <1>1, <1>2, RetryJobFacts DEF RetryRequests

LEMMA ClearPendingFacts ==
  ASSUME SafetyInv, ClearPending, UNCHANGED <<handlers, commits, issuer>>
  PROVE  StepFacts
<1>1. /\ UNCHANGED <<revoked, certs>>
      /\ jobs' = [j \in JobIds |-> IF j \in Clearable THEN AbsentJob ELSE jobs[j]]
  BY DEF ClearPending
<1>2. TaskSteps
  BY <1>1, KeptContinues DEF TaskSteps, TaskStep
<1>3. PointerSteps
  <2>1. ASSUME NEW n \in Nodes, running'[n] # NoJob
        PROVE  running'[n] = running[n] /\ jobs'[running[n]].status = "running"
    <3>1. running'[n] = running[n]
      BY <2>1 DEF ClearPending
    <3>2. running[n] \in JobIds /\ jobs[running[n]].status = "running"
      BY <2>1, <3>1 DEF SafetyInv, PointerValid, RunningAt
    <3>. QED
      BY <1>1, <3>1, <3>2 DEF Clearable
  <2>. QED
    BY <1>2, <2>1, PointersKept DEF SafetyInv
<1>4. \A d \in Domains : SameUses(domains'[d], domains[d])
  <2>. SUFFICES ASSUME NEW d \in Domains PROVE SameUses(domains'[d], domains[d])
    OBVIOUS
  <2>1. \/ domains'[d] = domains[d]
        \/ domains'[d] = [domains[d] EXCEPT !.lastJob = NoJob, !.deleting = FALSE, !.enabled = TRUE]
        \/ domains'[d] = [domains[d] EXCEPT !.lastJob = NoJob]
    BY DEF ClearPending
  <2>2. domains[d] \in Domain
    BY StateTypes
  <2>. QED
    BY <2>1, <2>2 DEF SameUses, Domain
<1>. QED
  BY <1>1, <1>2, <1>3, <1>4, UsesKept, HeldKept DEF StepFacts

LEMMA JobRequestFacts ==
  ASSUME SafetyInv, JobRequests, UNCHANGED <<handlers, commits, issuer>>
  PROVE  StepFacts
<1>1. ASSUME NEW n \in Nodes, NEW type \in {"update", "system"}, UpdateNode(n, type)
      PROVE  StepFacts
  <2>1. EnqueueOne(jobs, NewJob(type, n, NoDomain)) /\ UNCHANGED <<running, revoked, domains, certs>>
    BY <1>1 DEF UpdateNode
  <2>2. Adds(jobs)
    BY <1>1, <2>1, FreshRecords DEF Adds
  <2>3. RecordsInv' /\ UsedStays
    BY <2>1, RecordsKept DEF SafetyInv
  <2>. QED
    BY <2>1, <2>2, <2>3, RequestFacts
<1>2. ASSUME NEW S \in SUBSET Nodes, RevokeNodes(S)
      PROVE  StepFacts
  BY <1>2, HeldKept, RevokesFacts DEF RevokeNodes
<1>. QED
  BY <1>1, <1>2, ClearPendingFacts DEF JobRequests

LEMMA DomainRequestsFacts ==
  ASSUME SafetyInv, DomainRequests, UNCHANGED <<handlers, commits, issuer>>
  PROVE  StepFacts
<1>1. ASSUME NEW d \in Domains, NEW n \in Nodes, NEW m \in Modes, NEW c \in AnyCert,
             NEW rn \in Renewing, NEW S \in TargetSets,
             CreateDomain(d, n, m, c, rn, S) \/ UpdateDomain(d, n, m, c, rn, S)
      PROVE  StepFacts
  <2>1. rn \in BOOLEAN /\ S \in SUBSET Nodes
    BY DEF Renewing, TargetSets
  <2>. QED
    BY <1>1, <2>1, CreateDomainFacts, UpdateDomainFacts
<1>. QED
  BY <1>1, AdoptDomainFacts, DeleteDomainFacts, UpdateDomainConfigFacts DEF DomainRequests, AnyCert

-----------------------------------------------------------------------------
(* Requests about certificates *)

\* A request that adds jobs and leaves the records alone.
LEMMA EnqueueFacts ==
  ASSUME SafetyInv, UNCHANGED <<running, revoked, domains, certs, handlers, commits, issuer>>,
         Adds(jobs)
  PROVE  StepFacts
BY RecordsKept, RequestFacts DEF SafetyInv

\* Neither a domain nor a job to be executed uses the certificate.
LEMMA DeleteCertificateFacts ==
  ASSUME SafetyInv, NEW c \in Certs, DeleteCertificate(c), UNCHANGED <<handlers, commits, issuer>>
  PROVE  StepFacts
<1>1. /\ UNCHANGED <<jobs, running, revoked, domains>>
      /\ certs' = [certs EXCEPT ![c] = RemovedCert] /\ certs \in [Certs -> Cert]
      /\ jobs \in [JobIds -> Job]
  BY StateTypes DEF DeleteCertificate
<1>2. \A k \in Certs : k # c => certs'[k] = certs[k]
  BY <1>1
<1>3. certs'[c].state # "live"
  BY <1>1 DEF RemovedCert, UnusedCert
<1>4. \A k \in Certs : SoundCert(certs[k])'
  BY <1>1, <1>2, <1>3 DEF SafetyInv, RecordsInv, SoundCert
<1>5. \A d \in Domains : SoundDomain(domains[d])'
  BY <1>1, <1>2 DEF DeleteCertificate, SafetyInv, RecordsInv, SoundDomain, LiveDomain, LiveCert
<1>6. UsedStays
  <2>. SUFFICES ASSUME NEW j \in JobIds, Installs(jobs[j])
                PROVE  certs'[jobs[j].cert].state = "live"
    BY DEF UsedStays
  <2>1. LiveCert(jobs[j].cert)
    BY DEF SafetyInv, JobsInstallLive
  <2>2. jobs[j].type \in JobTypes
    BY <1>1 DEF Job
  <2>3. jobs[j].cert # c
    BY <2>2 DEF DeleteCertificate, ActiveReference, Installs
  <2>. QED
    BY <1>2, <2>1, <2>3 DEF LiveCert
<1>7. Adds(jobs)
  BY <1>1 DEF Adds
<1>. QED
  BY <1>1, <1>4, <1>5, <1>6, <1>7, RequestFacts DEF RecordsInv

LEMMA UploadCertificateFacts ==
  ASSUME SafetyInv, NEW c \in Certs, NEW name, NEW sans, NEW n, NEW rn, NEW S,
         UploadCertificate(c, name, sans, n, rn, S), UNCHANGED <<handlers, commits, issuer>>
  PROVE  StepFacts
<1>. DEFINE r == [UnusedCert EXCEPT !.state = "live", !.name = name, !.sans = sans,
                            !.issuer = n, !.acct = rn, !.renew = rn]
<1>1. /\ certs' = [certs EXCEPT ![c] = r] /\ UNCHANGED <<running, revoked, domains>>
      /\ EnqueueAll(jobs, Syncs(S, NoDomain, c)) /\ n \notin revoked
      /\ certs \in [Certs -> Cert]
  BY StateTypes DEF UploadCertificate, LiveNode
<1>2. r.state = "live" /\ r.issuer = n
  BY DEF UnusedCert
<1>. HIDE DEF r
<1>3. certs'[c] = r /\ \A k \in Certs : k # c => certs'[k] = certs[k]
  BY <1>1
<1>4. CertsStay /\ StoredLive(c)
  BY <1>2, <1>3 DEF CertsStay, StoredLive
<1>5. \A k \in Certs : SoundCert(certs[k])'
  BY <1>1, <1>2, <1>3 DEF SafetyInv, RecordsInv, SoundCert
<1>6. \A d \in Domains : SoundDomain(domains[d])'
  BY <1>1, <1>4, DomainStaysSound DEF SafetyInv, SameUses
<1>7. \A x \in Syncs(S, NoDomain, c) : FreshJob(x)
  BY <1>4, FreshRecords
<1>8. Adds(jobs)
  BY <1>1, <1>7 DEF Adds
<1>. QED
  BY <1>1, <1>4, <1>5, <1>6, <1>8, UsedStaysIf, RequestFacts DEF SafetyInv, RecordsInv

LEMMA RenewCertificateFacts ==
  ASSUME SafetyInv, NEW c \in Certs, RenewCertificate(c), UNCHANGED <<handlers, commits, issuer>>
  PROVE  StepFacts
<1>. DEFINE d    == certs[c].name
            n    == certs[c].issuer
            own  == CertIssueJob(n, c, d, certs[c].renew, certs[c].deployed \cup {n})
            r    == [domains[d] EXCEPT !.lastJob = NextId]
<1>1. /\ UNCHANGED <<running, revoked, certs>> /\ domains \in [Domains -> Domain]
      /\ \A k \in Certs : certs'[k].state = certs[k].state /\ certs'[k].issuer = certs[k].issuer
  BY StateTypes DEF RenewCertificate
<1>2. CASE /\ LiveDomain(d) /\ LiveNode(domains[d].node)
           /\ EnqueueOne(jobs, DomainIssueJob(domains[d].node, d))
           /\ domains' = [domains EXCEPT ![d] = r]
  <2>1. d \in Domains /\ SameUses(r, domains[d])
    BY <1>1, <1>2 DEF LiveDomain, SameUses, Domain
  <2>2. FreshJob(DomainIssueJob(domains[d].node, d))
    BY <1>1, <1>2, FreshRecords DEF LiveNode
  <2>. HIDE DEF r, d
  <2>. QED
    BY <1>1, <1>2, <2>1, <2>2, DomainRequestFacts
<1>3. CASE LiveNode(n) /\ EnqueueOne(jobs, own) /\ UNCHANGED domains
  <2>1. FreshJob(own)
    BY <1>1, <1>3, FreshRecords DEF LiveNode
  <2>2. Adds(jobs)
    BY <1>3, <2>1 DEF Adds
  <2>. QED
    BY <1>1, <1>3, <2>2, EnqueueFacts
<1>. QED
  BY <1>2, <1>3 DEF RenewCertificate

LEMMA SyncCertificateFacts ==
  ASSUME SafetyInv, NEW c \in Certs, NEW S, SyncCertificate(c, S), UNCHANGED <<handlers, commits, issuer>>
  PROVE  StepFacts
<1>1. /\ UNCHANGED <<running, revoked, domains, certs>> /\ LiveCert(c)
      /\ EnqueueAll(jobs, Syncs(S, NoDomain, c))
  BY DEF SyncCertificate
<1>2. \A x \in Syncs(S, NoDomain, c) : FreshJob(x)
  BY <1>1, FreshRecords DEF LiveCert, StoredLive
<1>3. Adds(jobs)
  BY <1>1, <1>2 DEF Adds
<1>. QED
  BY <1>1, <1>3, EnqueueFacts

LEMMA IssueImportFacts ==
  ASSUME SafetyInv, NEW n, NEW c, NEW name, NEW rn, NEW S,
         IssueCertificate(n, c, name, rn, S) \/ ImportCertificate(n, c, name, rn, S),
         UNCHANGED <<handlers, commits, issuer>>
  PROVE  StepFacts
<1>. DEFINE captured == [NewJob("capture", n, NoDomain) EXCEPT
                         !.cert = c, !.name = name, !.renew = rn, !.targets = S \ {n}]
            issued   == CertIssueJob(n, c, name, rn, S \cup {n})
<1>1. UNCHANGED <<running, revoked, domains, certs>> /\ n \notin revoked
  BY DEF IssueCertificate, ImportCertificate, LiveNode
<1>2. FreshJob(captured)
  BY DEF FreshJob, Wanted, NewJob, AbsentJob
<1>3. FreshJob(issued)
  BY <1>1, FreshRecords
<1>4. EnqueueOne(jobs, captured) \/ EnqueueOne(jobs, issued)
  BY DEF IssueCertificate, ImportCertificate
<1>5. Adds(jobs)
  BY <1>2, <1>3, <1>4 DEF Adds
<1>. QED
  BY <1>1, <1>5, EnqueueFacts

\* A request that changes how one certificate renews, and lets a domain that uses
\* it renew only on a live node and with an account.
LEMMA AutomationFacts ==
  ASSUME SafetyInv, UNCHANGED <<jobs, running, revoked, handlers, commits, issuer>>,
         NEW c \in Certs, NEW r, r.state = certs[c].state,
         r.issuer = certs[c].issuer \/ r.issuer \notin revoked,
         certs' = [certs EXCEPT ![c] = r],
         \A d \in Domains :
           \/ SameUses(domains'[d], domains[d])
           \/ /\ domains'[d].state = domains[d].state /\ domains'[d].node = domains[d].node
              /\ domains'[d].syncs = domains[d].syncs /\ domains'[d].cert = domains[d].cert
              /\ domains'[d].renew => domains'[d].acct /\ LiveNode(domains[d].node)
  PROVE  StepFacts
<1>1. \A k \in Certs : certs'[k].state = certs[k].state
                       /\ (certs'[k].issuer = certs[k].issuer \/ certs'[k].issuer \notin revoked)
  BY StateTypes
<1>2. CertsStay /\ \A k \in Certs : SoundCert(certs[k])'
  BY <1>1 DEF SafetyInv, RecordsInv, CertsStay, SoundCert
<1>3. ASSUME NEW d \in Domains
      PROVE  SoundDomain(domains[d])'
  <2>1. CASE SameUses(domains'[d], domains[d])
    BY <1>2, <2>1, DomainStaysSound DEF SafetyInv
  <2>2. CASE ~SameUses(domains'[d], domains[d])
    <3>1. SoundDomain(domains[d])
      BY DEF SafetyInv, RecordsInv
    <3>2. /\ domains'[d].state = domains[d].state /\ domains'[d].node = domains[d].node
          /\ domains'[d].syncs = domains[d].syncs /\ domains'[d].cert = domains[d].cert
          /\ domains'[d].renew => domains'[d].acct /\ LiveNode(domains[d].node)
      BY <2>2
    <3>. QED
      BY <1>1, <3>1, <3>2 DEF SoundDomain, LiveCert, LiveNode
  <2>. QED
    BY <2>1, <2>2
<1>4. Adds(jobs)
  BY DEF Adds
<1>. QED
  BY <1>2, <1>3, <1>4, UsedStaysIf, RequestFacts DEF SafetyInv, RecordsInv

LEMMA SetCertificateAutoRenewFacts ==
  ASSUME SafetyInv, NEW c \in Certs, NEW enabled \in BOOLEAN, SetCertificateAutoRenew(c, enabled),
         UNCHANGED <<handlers, commits, issuer>>
  PROVE  StepFacts
<1>. DEFINE n == IF enabled THEN SigningNode(c) ELSE certs[c].issuer
            r == [certs[c] EXCEPT !.renew = enabled, !.issuer = n, !.acct = enabled \/ certs[c].acct]
<1>1. /\ enabled => LiveNode(n)
      /\ certs' = [certs EXCEPT ![c] = r] /\ UNCHANGED <<jobs, running, revoked>>
      /\ domains' = [d \in Domains |->
           IF ~LiveDomain(d) \/ domains[d].cert # c THEN domains[d]
           ELSE [domains[d] EXCEPT !.renew = /\ enabled /\ d = certs[c].name
                                             /\ domains[d].node = n /\ domains[d].acct]]
  BY DEF SetCertificateAutoRenew
<1>2. ~enabled => n = certs[c].issuer
  OBVIOUS
<1>. HIDE DEF n
<1>3. r.state = certs[c].state /\ r.issuer = n
  BY StateTypes DEF Cert
<1>4. r.issuer = certs[c].issuer \/ r.issuer \notin revoked
  BY <1>1, <1>2, <1>3 DEF LiveNode
<1>. HIDE DEF r
<1>5. ASSUME NEW d \in Domains
      PROVE  \/ SameUses(domains'[d], domains[d])
             \/ /\ domains'[d].state = domains[d].state /\ domains'[d].node = domains[d].node
                /\ domains'[d].syncs = domains[d].syncs /\ domains'[d].cert = domains[d].cert
                /\ domains'[d].renew => domains'[d].acct /\ LiveNode(domains[d].node)
  <2>. DEFINE w == enabled /\ d = certs[c].name /\ domains[d].node = n /\ domains[d].acct
  <2>0. domains[d] \in Domain /\ w \in BOOLEAN
    BY StateTypes
  <2>1. w => domains[d].acct /\ LiveNode(domains[d].node)
    BY <1>1
  <2>2. domains'[d] = domains[d] \/ domains'[d] = [domains[d] EXCEPT !.renew = w]
    BY <1>1
  <2>. HIDE DEF w
  <2>. QED
    BY <2>0, <2>1, <2>2 DEF SameUses, Domain
<1>. QED
  BY <1>1, <1>3, <1>4, <1>5, AutomationFacts

LEMMA UpdateCertificateAutomationFacts ==
  ASSUME SafetyInv, NEW c \in Certs, NEW n, NEW rn \in BOOLEAN, UpdateCertificateAutomation(c, n, rn),
         UNCHANGED <<handlers, commits, issuer>>
  PROVE  StepFacts
<1>. DEFINE r == [certs[c] EXCEPT !.issuer = n, !.acct = TRUE, !.renew = rn]
<1>1. /\ n = NoNode => ~rn
      /\ n # NoNode => LiveNode(n)
      /\ certs' = [certs EXCEPT ![c] = r] /\ UNCHANGED <<jobs, running, revoked>>
      /\ domains' = [d \in Domains |->
           IF ~LiveDomain(d) \/ domains[d].cert # c \/ d # certs[c].name THEN domains[d]
           ELSE [domains[d] EXCEPT !.acct = TRUE, !.renew = rn /\ domains[d].node = n]]
  BY DEF UpdateCertificateAutomation
<1>2. r.state = certs[c].state /\ r.issuer = n
  BY StateTypes DEF Cert
<1>3. r.issuer \notin revoked
  BY <1>1, <1>2, StateTypes DEF LiveNode
<1>. HIDE DEF r
<1>4. ASSUME NEW d \in Domains
      PROVE  \/ SameUses(domains'[d], domains[d])
             \/ /\ domains'[d].state = domains[d].state /\ domains'[d].node = domains[d].node
                /\ domains'[d].syncs = domains[d].syncs /\ domains'[d].cert = domains[d].cert
                /\ domains'[d].renew => domains'[d].acct /\ LiveNode(domains[d].node)
  <2>. DEFINE w == rn /\ domains[d].node = n
  <2>0. domains[d] \in Domain /\ w \in BOOLEAN
    BY StateTypes
  <2>1. w => LiveNode(domains[d].node)
    BY <1>1
  <2>2. domains'[d] = domains[d] \/ domains'[d] = [domains[d] EXCEPT !.acct = TRUE, !.renew = w]
    BY <1>1
  <2>. HIDE DEF w
  <2>. QED
    BY <2>0, <2>1, <2>2 DEF SameUses, Domain
<1>. QED
  BY <1>1, <1>2, <1>3, <1>4, AutomationFacts

LEMMA CertificateRequestFacts ==
  ASSUME SafetyInv, CertificateRequests, UNCHANGED <<handlers, commits, issuer>>
  PROVE  StepFacts
<1>0. Renewing \subseteq BOOLEAN
  BY DEF Renewing
<1>1. ASSUME NEW c \in Certs, NEW n \in Nodes \cup {NoNode}, NEW rn \in Renewing,
             UpdateCertificateAutomation(c, n, rn)
      PROVE  StepFacts
  <2>1. rn \in BOOLEAN
    BY <1>0
  <2>. QED
    BY <1>1, <2>1, UpdateCertificateAutomationFacts
<1>2. ASSUME NEW c \in Certs, NEW n, NEW rn, NEW S, NEW name, NEW sans,
             UploadCertificate(c, name, sans, n, rn, S)
      PROVE  StepFacts
  BY <1>2, UploadCertificateFacts
<1>3. ASSUME NEW n, NEW c, NEW name, NEW rn, NEW S,
             IssueCertificate(n, c, name, rn, S) \/ ImportCertificate(n, c, name, rn, S)
      PROVE  StepFacts
  BY <1>3, IssueImportFacts
<1>. QED
  BY <1>1, <1>2, <1>3, DeleteCertificateFacts, RenewCertificateFacts, SyncCertificateFacts,
     SetCertificateAutoRenewFacts
  DEF CertificateRequests

LEMMA AdminFacts ==
  ASSUME SafetyInv, AdminNext, UNCHANGED <<agentVars, issuer>>
  PROVE  StepFacts
<1>1. UNCHANGED <<handlers, commits, issuer>>
  BY DEF agentVars
<1>. QED
  BY <1>1, DomainRequestsFacts, JobRequestFacts, CertificateRequestFacts, RetryRequestFacts
     DEF AdminNext

-----------------------------------------------------------------------------
(* The scheduler *)

LEMMA ClockFacts ==
  ASSUME SafetyInv, NEW j \in JobIds, TimePasses(j), UNCHANGED <<handlers, commits, issuer>>
  PROVE  StepFacts
<1>. DEFINE r == [jobs[j] EXCEPT !.overdue = TRUE]
<1>1. /\ jobs' = [jobs EXCEPT ![j] = r] /\ UNCHANGED <<running, revoked, domains, certs>>
      /\ JobsInv /\ jobs[j] \in Job
  BY StateTypes DEF TimePasses, SafetyInv
<1>2. Continues(j, r)
  BY <1>1, ChangesContinue
<1>3. r.status = jobs[j].status
  BY <1>1 DEF Job
<1>4. \A n \in Nodes : running[n] = j /\ running[n] # NoJob => r.status = "running"
  BY <1>3 DEF SafetyInv, PointerValid, RunningAt
<1>. HIDE DEF r
<1>. QED
  BY <1>1, <1>2, <1>4, HeldKept, OneJobFacts

LEMMA AgingFacts ==
  ASSUME SafetyInv, NEW c \in Certs, CertificateAges(c), UNCHANGED <<handlers, commits, issuer>>
  PROVE  StepFacts
<1>. DEFINE r == [certs[c] EXCEPT !.due = TRUE]
<1>1. /\ certs' = [certs EXCEPT ![c] = r] /\ UNCHANGED <<jobs, running, revoked, domains>>
      /\ certs \in [Certs -> Cert]
  BY StateTypes DEF CertificateAges
<1>2. r.state = certs[c].state /\ r.issuer = certs[c].issuer
  BY <1>1 DEF Cert
<1>. HIDE DEF r
<1>3. \A k \in Certs : certs'[k].state = certs[k].state /\ certs'[k].issuer = certs[k].issuer
  BY <1>1, <1>2
<1>4. \A k \in Certs : certs'[k].state = "live" => certs'[k].issuer \notin revoked'
  BY <1>1, <1>3 DEF SafetyInv, RecordsInv, SoundCert
<1>. QED
  BY <1>1, <1>3, <1>4, HeldKept, CertsOnlyFacts

\* A timeout changes the status and the timer of a job, if it changes the job.
LEMMA TimeoutsContinue ==
  ASSUME SafetyInv, UNCHANGED revoked, NEW j \in JobIds
  PROVE  /\ Continues(j, AfterTimeouts[j])
         /\ AfterTimeouts[j].retryJob = jobs[j].retryJob
         /\ AfterTimeouts[j].status = "failed" => jobs[j].status # "absent"
         /\ jobs[j].status = "running" /\ ~Unanswered(j) => AfterTimeouts[j] = jobs[j]
         /\ jobs[j].status = "absent" => AfterTimeouts[j] = jobs[j]
<1>0. jobs[j] \in Job /\ JobsInv
  BY StateTypes DEF SafetyInv
<1>1. CASE GivenUp(j)
  <2>1. AfterTimeouts[j] = Fail(jobs[j])
    BY <1>1 DEF AfterTimeouts
  <2>2. Active(jobs[j]) /\ (jobs[j].status = "running" => Unanswered(j))
    BY <1>1 DEF GivenUp, Unclaimed, Unanswered, Expired
  <2>3. Continues(j, Fail(jobs[j]))
    BY <1>0, ChangesContinue
  <2>4. Continues(j, AfterTimeouts[j])
    BY <2>1, <2>3 DEF Continues
  <2>5. AfterTimeouts[j].retryJob = jobs[j].retryJob /\ jobs[j].status # "absent"
    BY <1>0, <2>1, <2>2 DEF Fail, Job, Active
  <2>. QED
    BY <2>2, <2>4, <2>5
<1>2. CASE ~GivenUp(j) /\ Retried(j)
  <2>1. AfterTimeouts[j] = Requeue(jobs[j])
    BY <1>2 DEF AfterTimeouts
  <2>2. jobs[j].status = "running" /\ Unanswered(j)
    BY <1>2 DEF Retried, Unanswered
  <2>3. Continues(j, Requeue(jobs[j]))
    BY <1>0, <2>2, ChangesContinue
  <2>4. Continues(j, AfterTimeouts[j])
    BY <2>1, <2>3 DEF Continues
  <2>5. AfterTimeouts[j].retryJob = jobs[j].retryJob
    BY <1>0, <2>1 DEF Requeue, Job
  <2>. QED
    BY <2>2, <2>4, <2>5
<1>3. CASE ~GivenUp(j) /\ ~Retried(j)
  <2>1. AfterTimeouts[j] = jobs[j]
    BY <1>3 DEF AfterTimeouts
  <2>. QED
    BY <2>1, KeptContinues
<1>. QED
  BY <1>1, <1>2, <1>3

LEMMA ScheduledKeepsUses ==
  ASSUME NEW D \in [Domains -> Domain], NEW at, NEW d \in Domains
  PROVE  SameUses(Scheduled(D, at)[d], D[d])
<1>1. \/ Scheduled(D, at)[d] = D[d]
      \/ \E i : Scheduled(D, at)[d] = [D[d] EXCEPT !.lastJob = i]
  BY DEF Scheduled
<1>. QED
  BY <1>1 DEF SameUses, Domain

\* The scheduler creates jobs that can be executed, and recovers a job that failed
\* and was not retried.
LEMMA ScheduledWanted ==
  ASSUME SafetyInv, UNCHANGED <<revoked, certs>>, NEW F \in Recoveries(AfterTimeouts),
         NEW r \in NewJobs(AfterTimeouts, F)
  PROVE  /\ Wanted(r)
         /\ r.retryOf # NoJob =>
              /\ r.retryOf \in F /\ r = Recovery(r.retryOf)
              /\ AfterTimeouts[r.retryOf].status = "failed"
              /\ jobs[r.retryOf].retryJob = NoJob /\ jobs[r.retryOf].status # "absent"
<1>1. CASE \E k \in F : r = Recovery(k)
  <2>1. PICK k \in F : r = Recovery(k)
    BY <1>1
  <2>2. k \in JobIds /\ k \in Recoverable(AfterTimeouts)
    BY DEF Recoveries, Recoverable
  <2>3. /\ Continues(k, AfterTimeouts[k]) /\ AfterTimeouts[k].status = "failed"
        /\ LiveCert(AfterTimeouts[k].cert) /\ AfterTimeouts[k].retryJob = NoJob
    BY <2>2, TimeoutsContinue DEF Recoverable
  <2>4. LiveCert(jobs[k].cert) /\ jobs[k].retryJob = NoJob /\ jobs[k].status # "absent"
    BY <2>2, <2>3, TimeoutsContinue DEF Continues
  <2>5. /\ r.retryOf = k /\ r.status = "queued" /\ r.type = "sync" /\ r.cert = jobs[k].cert
    BY <2>1 DEF Recovery, SyncJob, NewJob, AbsentJob
  <2>6. Wanted(r)
    BY <2>4, <2>5 DEF Wanted, LiveCert
  <2>. QED
    BY <2>1, <2>3, <2>4, <2>5, <2>6
<1>2. CASE \E d \in DomainsToRenew(AfterTimeouts) : r = DomainIssueJob(domains[d].node, d)
  <2>1. FreshJob(r)
    BY <1>2, FreshRecords DEF DomainsToRenew, LiveNode
  <2>. QED
    BY <2>1 DEF FreshJob
<1>3. CASE \E c \in CertsToRenew(AfterTimeouts) : r = Renewal(c)
  <2>1. FreshJob(r)
    BY <1>3, FreshRecords DEF CertsToRenew, Renewal, LiveNode
  <2>. QED
    BY <2>1 DEF FreshJob
<1>. QED
  BY <1>1, <1>2, <1>3 DEF NewJobs

LEMMA MaintenanceFacts ==
  ASSUME SafetyInv, Maintenance, UNCHANGED <<handlers, commits, issuer>>
  PROVE  StepFacts
<1>. DEFINE A == AfterTimeouts
<1>1. PICK F \in Recoveries(A) :
        \E last \in lastId..MaxJobs : \E at \in Numberings(NewJobs(A, F), last) :
          /\ jobs' = AddJobs(Recovered(A, at), at)
          /\ domains' = Scheduled(TimedOutDeletions, at)
  BY DEF Maintenance
<1>2. PICK last \in lastId..MaxJobs :
        \E at \in Numberings(NewJobs(A, F), last) :
          /\ jobs' = AddJobs(Recovered(A, at), at)
          /\ domains' = Scheduled(TimedOutDeletions, at)
  BY <1>1
<1>3. PICK at \in Numberings(NewJobs(A, F), last) :
          /\ jobs' = AddJobs(Recovered(A, at), at)
          /\ domains' = Scheduled(TimedOutDeletions, at)
  BY <1>2
<1>4. /\ UNCHANGED <<revoked, certs>>
      /\ running' = [n \in Nodes |-> IF Released(n) THEN NoJob ELSE running[n]]
  BY DEF Maintenance
<1>5. /\ lastId \in Nat /\ JobIds \subseteq Nat /\ JobsInv
      /\ jobs \in [JobIds -> Job] /\ A \in [JobIds -> Job] /\ domains \in [Domains -> Domain]
  BY StateTypes, ConstantFacts, AfterTimeoutsType DEF SafetyInv, JobsInv, TypeOK
<1>6. /\ DOMAIN at = (lastId + 1)..last
      /\ \A i \in DOMAIN at : at[i] \in NewJobs(A, F)
      /\ \A i, k \in DOMAIN at : at[i] = at[k] => i = k
  BY <1>3 DEF Numberings, NextId
<1>7. \A i \in DOMAIN at :
        /\ lastId < i /\ Wanted(at[i])
        /\ at[i].retryOf # NoJob =>
             /\ at[i].retryOf \in F /\ at[i] = Recovery(at[i].retryOf)
             /\ A[at[i].retryOf].status = "failed"
             /\ jobs[at[i].retryOf].retryJob = NoJob /\ jobs[at[i].retryOf].status # "absent"
  BY <1>1, <1>4, <1>5, <1>6, ScheduledWanted
<1>8. F \subseteq JobIds
  BY <1>1 DEF Recoveries, Recoverable
<1>9. \A j \in JobIds : jobs'[j] = IF j \in DOMAIN at THEN at[j] ELSE Recovered(A, at)[j]
  BY <1>3 DEF AddJobs
<1>10. \A j \in JobIds : jobs[j].status # "absent" => jobs'[j] = Recovered(A, at)[j]
  BY <1>5, <1>7, <1>9 DEF JobsInv, FreshIds, Unused
\* A job is recovered by the one job that names it.
<1>11. \A i \in DOMAIN at : at[i].retryOf # NoJob =>
         jobs'[at[i].retryOf] = [A[at[i].retryOf] EXCEPT !.retryJob = i]
  <2>. SUFFICES ASSUME NEW i \in DOMAIN at, at[i].retryOf # NoJob
                PROVE  jobs'[at[i].retryOf] = [A[at[i].retryOf] EXCEPT !.retryJob = i]
    OBVIOUS
  <2>. DEFINE k == at[i].retryOf
  <2>1. k \in JobIds /\ k # NoJob /\ jobs[k].status # "absent" /\ at[i] = Recovery(k)
    BY <1>7, <1>8
  <2>2. \A m \in DOMAIN at : at[m].retryOf = k => m = i
    BY <1>6, <1>7, <2>1
  <2>3. (CHOOSE m \in DOMAIN at : at[m].retryOf = k) = i
    BY <2>2
  <2>4. Recovered(A, at)[k] = [A[k] EXCEPT !.retryJob = i]
    BY <2>1, <2>3 DEF Recovered
  <2>. QED
    BY <1>10, <2>1, <2>4
<1>12. \A j \in JobIds : Recovered(A, at)[j] = A[j]
          \/ (jobs[j].retryJob = NoJob /\ \E i : Recovered(A, at)[j] = [A[j] EXCEPT !.retryJob = i])
  BY <1>7 DEF Recovered
<1>13. \A j \in JobIds :
         Continues(j, Recovered(A, at)[j]) /\ Recovered(A, at)[j].status = A[j].status
  <2>. SUFFICES ASSUME NEW j \in JobIds
                PROVE  Continues(j, Recovered(A, at)[j]) /\ Recovered(A, at)[j].status = A[j].status
    OBVIOUS
  <2>1. Continues(j, A[j]) /\ A[j] \in Job
    BY <1>4, <1>5, TimeoutsContinue
  <2>. HIDE DEF A
  <2>. QED
    BY <1>12, <2>1 DEF Continues, Job, Active
<1>14. ASSUME NEW j \in JobIds, j \in DOMAIN at
       PROVE  Unused(j) /\ Wanted(jobs'[j]) /\ FirstRetry(j)
  <2>1. jobs'[j] = at[j]
    BY <1>9, <1>14
  <2>2. ASSUME at[j].retryOf # NoJob
        PROVE  /\ jobs'[at[j].retryOf].status = "failed"
               /\ jobs'[at[j].retryOf].retryJob = j
    <3>1. A[at[j].retryOf] \in Job
      BY <1>5, <1>7, <1>8, <1>14, <2>2
    <3>. QED
      BY <1>7, <1>11, <1>14, <2>2, <3>1 DEF Job
  <2>. QED
    BY <1>7, <1>14, <2>1, <2>2 DEF FirstRetry, Unused
<1>15. TaskSteps
  BY <1>9, <1>13, <1>14 DEF TaskSteps, TaskStep
<1>16. PointerSteps
  <2>1. ASSUME NEW n \in Nodes, running'[n] # NoJob
        PROVE  running'[n] = running[n] /\ jobs'[running[n]].status = "running"
    <3>1. running'[n] = running[n] /\ ~Unanswered(running[n])
      BY <1>4, <2>1 DEF Released
    <3>2. running[n] \in JobIds /\ jobs[running[n]].status = "running"
      BY <2>1, <3>1 DEF SafetyInv, PointerValid, RunningAt
    <3>3. A[running[n]].status = "running"
      BY <1>4, <3>1, <3>2, TimeoutsContinue
    <3>. QED
      BY <1>10, <1>13, <3>1, <3>2, <3>3
  <2>. QED
    BY <1>5, <1>15, <2>1, PointersKept DEF SafetyInv
<1>17. \A d \in Domains : SameUses(domains'[d], domains[d])
  <2>1. TimedOutDeletions \in [Domains -> Domain]
    BY <1>5, RestoreDeletionsType DEF TimedOutDeletions
  <2>2. \A d \in Domains : SameUses(TimedOutDeletions[d], domains[d])
    BY <1>5, RestoreKeepsUses DEF TimedOutDeletions
  <2>3. \A d \in Domains : SameUses(domains'[d], TimedOutDeletions[d])
    BY <1>3, <2>1, ScheduledKeepsUses
  <2>. QED
    BY <2>2, <2>3 DEF SameUses
<1>. QED
  BY <1>4, <1>15, <1>16, <1>17, UsesKept, HeldKept DEF StepFacts

-----------------------------------------------------------------------------
(* The theorems *)

LEMMA NextFacts ==
  ASSUME SafetyInv, Next
  PROVE  StepFacts
<1>1. CASE Agents
  BY <1>1, AgentFacts DEF Agents
<1>2. CASE Issuing
  BY <1>2, IssuerFacts DEF Issuing
<1>3. CASE Admin
  BY <1>3, AdminFacts DEF Admin
<1>4. CASE Clock \/ Aging \/ Maintains
  <2>1. UNCHANGED <<handlers, commits, issuer>>
    BY <1>4 DEF Clock, Aging, Maintains, agentVars
  <2>. QED
    BY <1>4, <2>1, ClockFacts, AgingFacts, MaintenanceFacts DEF Clock, Aging, Maintains
<1>5. CASE ControllerRestart
  <2>1. HeldSteps
    BY <1>5 DEF ControllerRestart, HeldSteps, HandlerSteps, WorkerSteps, PreparedSteps, Idle, Free
  <2>. QED
    BY <1>5, <2>1, StateKept DEF ControllerRestart
<1>. QED
  BY <1>1, <1>2, <1>3, <1>4, <1>5 DEF Next

LEMMA NextKeepsIds ==
  ASSUME JobsInv, TypeOK', Next
  PROVE  IdsKept
<1>1. CASE JobSteps /\ UNCHANGED retrying
  BY <1>1, MovesKeepIds
<1>2. CASE RetryRequests
  BY <1>2, RetriesKeepIds
<1>3. CASE ControllerRestart
  BY <1>3, DropsKeepIds DEF ControllerRestart, stateVars
<1>. QED
  BY <1>1, <1>2, <1>3, NextSteps

LEMMA SafetyInit ==
  ASSUME Init, TypeOK
  PROVE  SafetyInv
<1>1. /\ jobs = [j \in JobIds |-> AbsentJob] /\ running = [n \in Nodes |-> NoJob] /\ revoked = {}
      /\ domains = [d \in Domains |-> UnusedDomain] /\ certs = [c \in Certs |-> UnusedCert]
      /\ lastId = NoJob /\ commits = {} /\ issuer = Free
      /\ handlers = [h \in Handlers |-> Idle] /\ retrying = [j \in JobIds |-> NoJob]
  BY DEF Init, StateInit, AgentInit, IssuerInit, AdminInit
<1>2. /\ AbsentJob.status = "absent" /\ AbsentJob.type = "none" /\ AbsentJob.retryOf = NoJob
      /\ UnusedDomain.state = "unused" /\ UnusedCert.state = "unused"
      /\ Idle.stage = "idle" /\ Free.stage = "free"
  BY DEF AbsentJob, UnusedDomain, UnusedCert, Idle, Free
<1>3. NoJob \in JobIds /\ NoJob <= NoJob
  BY ConstantFacts DEF NoJob
<1>4. JobsInv
  BY <1>1, <1>2 DEF JobsInv, FreshIds
<1>5. HeldInv
  BY <1>1, <1>2, <1>3, <1>4, UnusedNumbers
     DEF HeldInv, ZeroUnused, RetriesPast, RequestsHeld, WorkHeld, CommitsHeld
<1>6. PointerValid /\ RevokedIdle
  BY <1>1 DEF PointerValid, RevokedIdle
<1>7. RetriedOnce
  BY <1>1, <1>2 DEF RetriedOnce
<1>8. RecordsInv
  BY <1>1, <1>2 DEF RecordsInv, SoundDomain, SoundCert
<1>9. JobsInstallLive
  BY <1>1, <1>2 DEF JobsInstallLive, Installs, Active
<1>. QED
  BY <1>4, <1>5, <1>6, <1>7, <1>8, <1>9 DEF SafetyInv

\* Nodes, jobs, domains, certificates and everything the controller holds between
\* two Updates fit together in every reachable state: the inductive invariant the
\* following theorems are read off.
THEOREM SafetyInvariant == Spec => []SafetyInv
<1>1. Init /\ TypeOK => SafetyInv
  BY SafetyInit
<1>2. TypeOK' /\ SafetyInv /\ [Next]_vars => SafetyInv'
  <2>. SUFFICES ASSUME TypeOK', SafetyInv, [Next]_vars
                PROVE  SafetyInv'
    OBVIOUS
  <2>1. CASE Next
    <3>1. IdsKept /\ FreshIds' /\ StepFacts
      BY <2>1, NextKeepsIds, NextRefines, NextFacts DEF SafetyInv
    <3>. QED
      BY <3>1, StepPreserves
  <2>2. CASE UNCHANGED vars
    <3>1. UNCHANGED <<stateVars, handlers, commits, issuer, retrying, jobs, lastId>>
      BY <2>2 DEF vars, agentVars, stateVars
    <3>2. StepFacts
      BY <3>1, HeldKept, StateKept
    <3>3. IdsKept /\ FreshIds'
      BY <3>1, DropsKeepIds, DropsRefine DEF SafetyInv
    <3>. QED
      BY <3>2, <3>3, StepPreserves
  <2>. QED
    BY <2>1, <2>2
<1>. QED
  BY <1>1, <1>2, TypeCorrect, PTL DEF Spec

\* node.RunningJobID is empty or names a job that runs on that node, however polls,
\* late results, timeouts and revocations are interleaved (handleAgentPoll).
THEOREM PointersValid == Spec => []PointerValid
<1>1. SafetyInv => PointerValid
  BY DEF SafetyInv
<1>. QED
  BY <1>1, SafetyInvariant, PTL

\* A revoked node has no running job, no pointer and nothing to issue, whatever a
\* poll, the scheduler or the worker had read before it was revoked (revokeNodeState).
THEOREM RevokedStaysIdle == Spec => []RevokedIdle
<1>1. SafetyInv => RevokedIdle
  BY DEF SafetyInv
<1>. QED
  BY <1>1, SafetyInvariant, PTL

\* A job is retried by one job at most, and the two name each other, whether the
\* administrator or the scheduler retries it (handleRetryJob,
\* requeueRecoverableWildcardSyncs).
THEOREM RetriedAtMostOnce == Spec => []RetriedOnce
<1>1. SafetyInv => RetriedOnce
  BY DEF SafetyInv
<1>. QED
  BY <1>1, SafetyInvariant, PTL

\* No live domain is served from or synchronised to a revoked node, and no live
\* certificate is signed by one, even if it was prepared before the revocation
\* (revokeNodeState, the signer checked again when a prepared result is stored).
THEOREM RevokedNotReferenced == Spec => []RevokedUnreferenced
<1>1. SafetyInv => RevokedUnreferenced
  BY DEF SafetyInv, RecordsInv, SoundDomain, SoundCert, RevokedUnreferenced, LiveDomain, LiveCert
<1>. QED
  BY <1>1, SafetyInvariant, PTL

\* The certificate of a live domain, and the one a waiting or running job installs,
\* exist: a certificate in use is not deleted (handleDeleteCertificates).
THEOREM CertificatesExist == Spec => []CertificatesInUseExist
<1>1. SafetyInv => CertificatesInUseExist
  BY DEF SafetyInv, RecordsInv, SoundDomain, JobsInstallLive, Installs,
         CertificatesInUseExist, LiveDomain
<1>. QED
  BY <1>1, SafetyInvariant, PTL

\* A domain that renews its certificate has an account and a live node, so that the
\* schedule it suppresses is not missed (linkedRenewals in runMaintenance).
THEOREM LinkedRenewalsWork == Spec => []LinkedRenewalWorks
<1>1. SafetyInv => LinkedRenewalWorks
  BY DEF SafetyInv, RecordsInv, SoundDomain, LinkedRenewalWorks, LiveDomain, LiveNode
<1>. QED
  BY <1>1, SafetyInvariant, PTL

-----------------------------------------------------------------------------
(* Deletions: what SafetyInv leaves open *)

Deleting(r) == r.state = "live" /\ r.deleting

Deletes(r, d) == Active(r) /\ r.type = "delete" /\ r.domain = d

\* A domain that is being deleted after a step has a delete job then, or it was
\* being deleted before and none of its delete jobs ended.
DeletionSteps ==
  \A d \in Domains : Deleting(domains'[d]) =>
    \/ \E j \in JobIds : Deletes(jobs'[j], d)
    \/ /\ Deleting(domains[d])
       /\ \A j \in JobIds : Deletes(jobs[j], d) => Active(jobs'[j])

LEMMA DeletionsStay ==
  ASSUME JobsInv, TaskSteps, DeletionSteps, DeletingHasDeleteJob
  PROVE  DeletingHasDeleteJob'
<1>. SUFFICES ASSUME NEW d \in Domains, Deleting(domains'[d])
              PROVE  \E j \in JobIds : Deletes(jobs'[j], d)
  BY DEF DeletingHasDeleteJob, LiveDomain, ActiveFor, Deleting, Deletes
<1>1. CASE /\ Deleting(domains[d])
           /\ \A j \in JobIds : Deletes(jobs[j], d) => Active(jobs'[j])
  <2>1. PICK j \in JobIds : Deletes(jobs[j], d)
    BY <1>1 DEF DeletingHasDeleteJob, LiveDomain, ActiveFor, Deleting, Deletes
  <2>2. Active(jobs'[j]) /\ jobs[j].status # "absent"
    BY <1>1, <2>1 DEF Deletes, Active
  <2>3. ~Unused(j)
    BY <2>2, UsedIds
  <2>4. Continues(j, jobs'[j])
    BY <2>2, <2>3 DEF TaskSteps, TaskStep, AbsentJob, Active
  <2>. QED
    BY <2>1, <2>2, <2>4 DEF Deletes, Continues
<1>. QED
  BY <1>1 DEF DeletionSteps

LEMMA DeletionsKept ==
  ASSUME \A d \in Domains : Deleting(domains'[d]) => Deleting(domains[d]),
         \A j \in JobIds : Active(jobs[j]) /\ jobs[j].type = "delete" => Active(jobs'[j])
  PROVE  DeletionSteps
BY DEF DeletionSteps, Deletes

LEMMA OneJobDeletions ==
  ASSUME SafetyInv, NEW j \in JobIds, NEW r, jobs' = [jobs EXCEPT ![j] = r],
         jobs[j].type # "delete" \/ Active(r), UNCHANGED domains
  PROVE  DeletionSteps
<1>1. \A i \in JobIds : Active(jobs[i]) /\ jobs[i].type = "delete" => Active(jobs'[i])
  BY StateTypes
<1>. QED
  BY <1>1, DeletionsKept

\* Jobs are added after those that exist.
LEMMA EnqueuedKeeps ==
  ASSUME JobsInv, NEW J \in [JobIds -> Job],
         \/ jobs' = J
         \/ \E rec : EnqueueOne(J, rec)
         \/ \E recs : EnqueueAll(J, recs)
  PROVE  \A i \in JobIds : jobs[i].status # "absent" => jobs'[i] = J[i]
<1>. SUFFICES ASSUME NEW i \in JobIds, jobs[i].status # "absent" PROVE jobs'[i] = J[i]
  OBVIOUS
<1>1. i <= lastId /\ i \in Nat /\ lastId \in Nat
  BY UsedIds, ConstantFacts DEF JobsInv, TypeOK, StateTypeOK
<1>2. ASSUME NEW rec, EnqueueOne(J, rec)
      PROVE  jobs'[i] = J[i]
  <2>1. jobs' = [J EXCEPT ![NextId] = rec] /\ i # NextId
    BY <1>1, <1>2 DEF EnqueueOne, NextId
  <2>. QED
    BY <2>1
<1>3. ASSUME NEW recs, EnqueueAll(J, recs)
      PROVE  jobs'[i] = J[i]
  <2>1. PICK last \in lastId..MaxJobs : \E at \in Numberings(recs, last) : jobs' = AddJobs(J, at)
    BY <1>3 DEF EnqueueAll
  <2>2. PICK at \in Numberings(recs, last) : jobs' = AddJobs(J, at)
    BY <2>1
  <2>3. i \notin DOMAIN at
    BY <1>1 DEF Numberings, NextId
  <2>. QED
    BY <2>2, <2>3 DEF AddJobs
<1>. QED
  BY <1>2, <1>3

LEMMA RequestDeletions ==
  ASSUME SafetyInv,
         \A d \in Domains : Deleting(domains'[d]) => Deleting(domains[d]),
         \/ jobs' = jobs
         \/ \E rec : EnqueueOne(jobs, rec)
         \/ \E recs : EnqueueAll(jobs, recs)
  PROVE  DeletionSteps
<1>1. \A i \in JobIds : jobs[i].status # "absent" => jobs'[i] = jobs[i]
  BY EnqueuedKeeps, StateTypes DEF SafetyInv
<1>. QED
  BY <1>1, DeletionsKept DEF Active

\* A delete job that succeeds removes its domain.
LEMMA CompletesDeletions ==
  ASSUME SafetyInv, NEW j \in JobIds, NEW c, NEW C, CompletesWith(j, c, C)
  PROVE  DeletionSteps
<1>. DEFINE J == [jobs EXCEPT ![j] = Succeed(jobs[j])]
<1>1. /\ J \in [JobIds -> Job] /\ \A i \in JobIds : i # j => J[i] = jobs[i]
      /\ domains \in [Domains -> Domain] /\ JobsInv
  BY StatusChangeType, StateTypes DEF SafetyInv
<1>2. \/ jobs' = J
      \/ \E rec : EnqueueOne(J, rec)
      \/ \E recs : EnqueueAll(J, recs)
  BY DEF CompletesWith, CompletesApply, CompletesDelete, CompletesSync, CompletesCapture, CompletesIssue
<1>. HIDE DEF J
<1>3. \A i \in JobIds : jobs[i].status # "absent" => jobs'[i] = J[i]
  BY <1>1, <1>2, EnqueuedKeeps
<1>4. \A i \in JobIds : i # j /\ Active(jobs[i]) => Active(jobs'[i])
  BY <1>1, <1>3 DEF Active
<1>5. CASE jobs[j].type = "delete"
  <2>1. domains' = [d \in Domains |->
          IF d = jobs[j].domain /\ LiveDomain(d) THEN RemovedDomain ELSE domains[d]]
    BY <1>5 DEF CompletesWith, CompletesDelete
  <2>2. \A d \in Domains : Deleting(domains'[d]) => Deleting(domains[d]) /\ d # jobs[j].domain
    BY <2>1 DEF Deleting, LiveDomain, RemovedDomain, UnusedDomain
  <2>. QED
    BY <1>4, <2>2 DEF DeletionSteps, Deletes
<1>6. CASE jobs[j].type # "delete"
  <2>1. CASE jobs[j].type = "apply"
    <3>. DEFINE cert == IF c # NoCert THEN c ELSE domains[jobs[j].domain].cert
    <3>1. PICK custom :
            domains' = [domains EXCEPT ![jobs[j].domain] =
              [domains[jobs[j].domain] EXCEPT !.cert = cert, !.enabled = TRUE, !.deleting = FALSE,
                                              !.custom = custom]]
      BY <2>1 DEF CompletesWith, CompletesApply
    <3>2. ASSUME NEW d \in Domains, Deleting(domains'[d]) PROVE Deleting(domains[d])
      <4>1. \/ domains'[d] = domains[d]
            \/ domains'[d] = [domains[d] EXCEPT !.cert = cert, !.enabled = TRUE, !.deleting = FALSE,
                                                !.custom = custom]
        BY <1>1, <3>1
      <4>2. domains[d] \in Domain
        BY <1>1
      <4>. QED
        BY <3>2, <4>1, <4>2 DEF Deleting, Domain
    <3>. QED
      BY <1>4, <1>6, <3>2, DeletionsKept
  <2>2. CASE jobs[j].type \in {"capture", "issue"}
    <3>1. \/ domains' = domains
          \/ domains' = [domains EXCEPT ![jobs[j].domain] = [domains[jobs[j].domain] EXCEPT !.cert = c]]
          \/ domains' = [domains EXCEPT ![jobs[j].domain] =
               [domains[jobs[j].domain] EXCEPT !.cert = c, !.mode = "acme", !.lastJob = NextId]]
      BY <2>2 DEF CompletesWith, CompletesCapture, CompletesIssue
    <3>2. ASSUME NEW d \in Domains, Deleting(domains'[d]) PROVE Deleting(domains[d])
      <4>1. \/ domains'[d] = domains[d]
            \/ domains'[d] = [domains[d] EXCEPT !.cert = c]
            \/ domains'[d] = [domains[d] EXCEPT !.cert = c, !.mode = "acme", !.lastJob = NextId]
        BY <1>1, <3>1
      <4>2. domains[d] \in Domain
        BY <1>1
      <4>. QED
        BY <3>2, <4>1, <4>2 DEF Deleting, Domain
    <3>. QED
      BY <1>4, <1>6, <3>2, DeletionsKept
  <2>3. CASE jobs[j].type \notin {"apply", "delete", "capture", "issue"}
    <3>1. UNCHANGED domains
      BY <2>3 DEF CompletesWith, CompletesSync
    <3>. QED
      BY <1>4, <1>6, <3>1, DeletionsKept
  <2>. QED
    BY <1>6, <2>1, <2>2, <2>3
<1>. QED
  BY <1>5, <1>6

LEMMA RestoresDeletions ==
  ASSUME NEW D \in [Domains -> Domain], NEW F, NEW d \in Domains, Deleting(RestoreDeletions(D, F)[d])
  PROVE  Deleting(D[d]) /\ \A j \in F : ~(jobs[j].type = "delete" /\ jobs[j].domain = d)
<1>1. D[d] \in Domain
  OBVIOUS
<1>2. CASE D[d].state = "live" /\ \E j \in F : jobs[j].type = "delete" /\ jobs[j].domain = d
  <2>1. RestoreDeletions(D, F)[d] = [D[d] EXCEPT !.deleting = FALSE, !.enabled = (D[d].node # NoNode)]
    BY <1>2 DEF RestoreDeletions
  <2>. QED
    BY <1>1, <2>1 DEF Deleting, Domain
<1>3. CASE ~(D[d].state = "live" /\ \E j \in F : jobs[j].type = "delete" /\ jobs[j].domain = d)
  <2>1. RestoreDeletions(D, F)[d] = D[d]
    BY <1>3 DEF RestoreDeletions
  <2>. QED
    BY <1>3, <2>1 DEF Deleting
<1>. QED
  BY <1>2, <1>3

\* The delete jobs that end by failing restore their domains in the same Update.
LEMMA FailuresRestore ==
  ASSUME NEW D \in [Domains -> Domain], NEW F,
         \A d \in Domains : Deleting(domains'[d]) => Deleting(RestoreDeletions(D, F)[d]),
         \A d \in Domains : Deleting(D[d]) => Deleting(domains[d]),
         \A j \in JobIds : Active(jobs[j]) /\ j \notin F => Active(jobs'[j])
  PROVE  DeletionSteps
BY RestoresDeletions DEF DeletionSteps, Deletes

LEMMA RevokesDeletions ==
  ASSUME SafetyInv, NEW S \in SUBSET Nodes, Revokes(S)
  PROVE  DeletionSteps
<1>. DEFINE D == Orphaned(domains, S)
<1>1. D \in [Domains -> Domain] /\ domains' = RestoreDeletions(D, JobsOf(S))
  BY StateTypes, OrphanedType DEF Revokes
<1>2. ASSUME NEW d \in Domains, Deleting(D[d]) PROVE Deleting(domains[d])
  <2>1. domains[d] \in Domain
    BY StateTypes
  <2>2. \/ D[d] = domains[d]
        \/ D[d] = [domains[d] EXCEPT !.syncs = domains[d].syncs \ S, !.node = NoNode, !.enabled = FALSE,
                                     !.deleting = FALSE, !.renew = FALSE]
        \/ D[d] = [domains[d] EXCEPT !.syncs = domains[d].syncs \ S]
    BY DEF Orphaned
  <2>. HIDE DEF D
  <2>. QED
    BY <1>2, <2>1, <2>2 DEF Deleting, Domain
<1>3. \A j \in JobIds : Active(jobs[j]) /\ j \notin JobsOf(S) => Active(jobs'[j])
  BY DEF Revokes
<1>. HIDE DEF D
<1>. QED
  BY <1>1, <1>2, <1>3, FailuresRestore

LEMMA PollAloneDeletions ==
  ASSUME SafetyInv, NEW n \in Nodes, PollObserves(n) \/ PollFindsNothing(n)
  PROVE  DeletionSteps
<1>0. UNCHANGED domains
  BY DEF PollObserves, PollFindsNothing
<1>1. jobs' = jobs => DeletionSteps
  BY <1>0, DeletionsKept
<1>2. CASE PollObserves(n)
  <2>1. PICK j \in AwaitedAt(n) :
          \/ jobs' = [jobs EXCEPT ![j] = Fail(jobs[j])] \/ jobs' = [jobs EXCEPT ![j] = Succeed(jobs[j])]
          \/ jobs' = jobs
    BY <1>2 DEF PollObserves
  <2>2. j \in JobIds /\ jobs[j].type # "delete"
    BY DEF AwaitedAt, Awaiting
  <2>. QED
    BY <1>0, <1>1, <2>1, <2>2, OneJobDeletions
<1>. QED
  BY <1>1, <1>2 DEF PollFindsNothing

LEMMA PollDeletions ==
  ASSUME SafetyInv, NEW n \in Nodes, NEW h \in Handlers,
         PollRedelivers(n, h) \/ PollAdopts(n, h) \/ PollDispatches(n, h)
  PROVE  DeletionSteps
<1>0. UNCHANGED domains /\ jobs \in [JobIds -> Job]
  BY StateTypes DEF PollRedelivers, PollAdopts, PollDispatches
<1>1. ASSUME NEW j \in JobIds, NEW r \in {Redelivered(jobs[j]), Dispatched(jobs[j])},
             jobs[j].status = "running" \/ r = Dispatched(jobs[j]),
             jobs' = [jobs EXCEPT ![j] = r]
      PROVE  DeletionSteps
  <2>1. jobs[j] \in Job
    BY <1>0
  <2>2. Active(r)
    BY <1>1, <2>1 DEF Active, Redelivered, Dispatched, Job
  <2>. QED
    BY <1>0, <1>1, <2>2, OneJobDeletions
<1>2. CASE PollRedelivers(n, h)
  <2>1. running[n] \in JobIds /\ jobs[running[n]].status = "running"
    BY <1>2, StateTypes DEF PollRedelivers, Pointed
  <2>2. jobs' = [jobs EXCEPT ![running[n]] = Redelivered(jobs[running[n]])]
    BY <1>2 DEF PollRedelivers
  <2>. QED
    BY <1>1, <2>1, <2>2
<1>3. CASE PollAdopts(n, h)
  <2>. DEFINE j == Oldest(Orphans(n))
  <2>1. j \in RunningAt(n)
    BY <1>3, OldestIn DEF PollAdopts, Orphans, RunningAt
  <2>2. j \in JobIds /\ jobs[j].status = "running"
    BY <2>1 DEF RunningAt
  <2>3. jobs' = [jobs EXCEPT ![j] = Redelivered(jobs[j])]
    BY <1>3 DEF PollAdopts
  <2>. HIDE DEF j
  <2>. QED
    BY <1>1, <2>2, <2>3
<1>4. CASE PollDispatches(n, h)
  <2>. DEFINE j == Oldest(QueuedAt(n))
  <2>1. j \in JobIds
    BY <1>4, OldestIn DEF PollDispatches, QueuedAt
  <2>2. jobs' = [jobs EXCEPT ![j] = Dispatched(jobs[j])]
    BY <1>4 DEF PollDispatches
  <2>. HIDE DEF j
  <2>. QED
    BY <1>1, <2>1, <2>2
<1>. QED
  BY <1>2, <1>3, <1>4

\* What a handler could not build was no delete job, and neither is what is stored
\* under the empty identifier.
LEMMA FailDispatchDeletions ==
  ASSUME SafetyInv, NEW h \in Handlers, FailDispatch(h)
  PROVE  DeletionSteps
<1>. DEFINE j       == handlers[h].job
            current == IF jobs[j].status = "absent" THEN NoJob ELSE j
<1>1. j \in JobIds /\ NoJob \in JobIds
  BY ConstantFacts DEF SafetyInv, JobsInv, TypeOK, AgentTypeOK, Handler
<1>2. jobs' = [jobs EXCEPT ![current] = Fail(jobs[current])] /\ UNCHANGED domains
  BY DEF FailDispatch
<1>3. CopyOf(j, handlers[h]) /\ handlers[h].type # "delete"
  BY DEF FailDispatch, SafetyInv, HeldInv, RequestsHeld
<1>4. jobs[NoJob].type # "delete"
  BY DEF SafetyInv, HeldInv, ZeroUnused
<1>5. current \in JobIds /\ jobs[current].type # "delete"
  BY <1>1, <1>3, <1>4 DEF CopyOf
<1>. HIDE DEF current
<1>. QED
  BY <1>2, <1>5, OneJobDeletions

LEMMA ResultDeletions ==
  ASSUME SafetyInv, NEW r \in results, ResultFails(r) \/ ResultAwaitsVersion(r) \/ ResultSucceeds(r)
  PROVE  DeletionSteps
<1>1. /\ jobs \in [JobIds -> Job] /\ domains \in [Domains -> Domain]
      /\ r.job \in JobIds /\ jobs[r.job] \in Job
  BY StateTypes DEF SafetyInv, JobsInv, TypeOK, AgentTypeOK, Result
<1>2. CASE ResultFails(r) /\ TriedAgain(r)
  <2>1. jobs' = [jobs EXCEPT ![r.job] = Requeue(jobs[r.job])] /\ UNCHANGED domains
    BY <1>2 DEF ResultFails
  <2>2. Active(Requeue(jobs[r.job]))
    BY <1>1 DEF Active, Requeue, Job
  <2>. QED
    BY <1>1, <2>1, <2>2, OneJobDeletions
<1>3. CASE ResultFails(r) /\ ~TriedAgain(r)
  <2>1. jobs' = [jobs EXCEPT ![r.job] = Fail(jobs[r.job])]
        /\ domains' = RestoreDeletions(domains, {r.job})
    BY <1>3 DEF ResultFails
  <2>2. \A j \in JobIds : Active(jobs[j]) /\ j \notin {r.job} => Active(jobs'[j])
    BY <1>1, <2>1
  <2>. QED
    BY <1>1, <2>1, <2>2, FailuresRestore
<1>4. CASE ResultAwaitsVersion(r)
  <2>1. jobs[r.job].type # "delete" /\ UNCHANGED domains
        /\ jobs' = [jobs EXCEPT ![r.job] = [jobs[r.job] EXCEPT !.accepted = TRUE, !.overdue = FALSE]]
    BY <1>4 DEF ResultAwaitsVersion
  <2>. QED
    BY <1>1, <2>1, OneJobDeletions
<1>5. CASE ResultSucceeds(r)
  <2>1. UNCHANGED stateVars => DeletionSteps
    BY DeletionsKept DEF stateVars
  <2>. QED
    BY <1>1, <1>5, <2>1, CompletesDeletions DEF ResultSucceeds
<1>. QED
  BY <1>2, <1>3, <1>4, <1>5

LEMMA AgentDeletions ==
  ASSUME SafetyInv, AgentNext
  PROVE  DeletionSteps
<1>0. UNCHANGED <<jobs, domains>> => DeletionSteps
  BY DeletionsKept
<1>1. ASSUME NEW n \in Nodes, PostResult(n) \/ AgentCrash(n)
      PROVE  DeletionSteps
  BY <1>0, <1>1 DEF PostResult, AgentCrash, stateVars
<1>2. ASSUME NEW n \in Nodes, Unregister(n)
      PROVE  DeletionSteps
  BY <1>2, RevokesDeletions DEF Unregister
<1>3. ASSUME NEW h \in Handlers, Respond(h) \/ CannotBuild(h) \/ GiveUp(h)
      PROVE  DeletionSteps
  BY <1>0, <1>3 DEF Respond, CannotBuild, GiveUp, stateVars
<1>4. ASSUME NEW r \in results, LoseResult(r) \/ ResultChangesNothing(r) \/ PrepareResult(r)
      PROVE  DeletionSteps
  BY <1>0, <1>4 DEF LoseResult, ResultChangesNothing, PrepareResult, stateVars
<1>5. ASSUME NEW k \in commits, CommitResult(k)
      PROVE  DeletionSteps
  <2>1. k.job \in JobIds
    BY DEF SafetyInv, JobsInv, TypeOK, AgentTypeOK, Commit
  <2>. QED
    BY <1>0, <1>5, <2>1, CompletesDeletions DEF CommitResult, stateVars
<1>6. ASSUME NEW n \in Nodes, PollObserves(n) \/ PollFindsNothing(n)
      PROVE  DeletionSteps
  BY <1>6, PollAloneDeletions
<1>. QED
  BY <1>1, <1>2, <1>3, <1>4, <1>5, <1>6, PollDeletions, FailDispatchDeletions, ResultDeletions DEF AgentNext

LEMMA IssuerDeletions ==
  ASSUME SafetyInv, IssuerNext
  PROVE  DeletionSteps
<1>0. UNCHANGED <<jobs, domains>> => DeletionSteps
  BY DeletionsKept
<1>1. ASSUME NEW j \in JobIds, IssuerStart(j)
      PROVE  DeletionSteps
  <2>1. jobs[j].type # "delete" /\ jobs' = [jobs EXCEPT ![j] = Dispatched(jobs[j])] /\ UNCHANGED domains
    BY <1>1 DEF IssuerStart, IssueJobs
  <2>. QED
    BY <2>1, OneJobDeletions
<1>2. CASE IssuerResolves \/ IssuerObtains \/ IssuerFails
  BY <1>0, <1>2 DEF IssuerResolves, IssuerObtains, IssuerFails, stateVars
<1>3. CASE IssuerCommits
  <2>1. issuer.job \in JobIds
    BY DEF SafetyInv, JobsInv, TypeOK, IssuerTypeOK, Worker
  <2>. QED
    BY <1>0, <1>3, <2>1, CompletesDeletions DEF IssuerCommits, stateVars
<1>4. CASE IssuerReportsFailure
  <2>1. issuer.stage # "free" /\ UNCHANGED domains
    BY <1>4 DEF IssuerReportsFailure
  <2>2. CASE StillMine
    <3>1. issuer.job \in JobIds /\ jobs[issuer.job].type # "delete"
      BY <2>1, <2>2, WorkedOn
    <3>2. PICK r : jobs' = [jobs EXCEPT ![issuer.job] = r]
      BY <1>4, <2>2 DEF IssuerReportsFailure
    <3>. QED
      BY <2>1, <3>1, <3>2, OneJobDeletions
  <2>3. CASE ~StillMine
    BY <1>0, <1>4, <2>1, <2>3 DEF IssuerReportsFailure
  <2>. QED
    BY <2>2, <2>3
<1>. QED
  BY <1>1, <1>2, <1>3, <1>4 DEF IssuerNext

\* Only DeleteDomain and a retry set Deleting, with a delete job each.
LEMMA DeleteDomainDeletions ==
  ASSUME SafetyInv, NEW d \in Domains, DeleteDomain(d)
  PROVE  DeletionSteps
<1>. DEFINE job == NewJob("delete", domains[d].node, d)
<1>1. CASE domains' = [domains EXCEPT ![d] = RemovedDomain] /\ UNCHANGED <<jobs, lastId>>
  <2>1. \A e \in Domains : Deleting(domains'[e]) => Deleting(domains[e])
    BY <1>1, StateTypes DEF Deleting, RemovedDomain, UnusedDomain
  <2>. QED
    BY <1>1, <2>1, RequestDeletions
<1>2. CASE /\ EnqueueOne(jobs, job)
           /\ domains' = [domains EXCEPT ![d] =
                [domains[d] EXCEPT !.enabled = FALSE, !.deleting = TRUE, !.lastJob = NextId]]
  <2>1. NextId \in JobIds /\ jobs'[NextId] = job
    BY <1>2, StateTypes DEF EnqueueOne
  <2>2. Deletes(job, d)
    BY DEF Deletes, Active, NewJob, AbsentJob
  <2>3. \A i \in JobIds : jobs[i].status # "absent" => jobs'[i] = jobs[i]
    BY <1>2, EnqueuedKeeps, StateTypes DEF SafetyInv
  <2>4. \A e \in Domains : e # d => domains'[e] = domains[e]
    BY <1>2, StateTypes
  <2>. HIDE DEF job
  <2>5. \E j \in JobIds : Deletes(jobs'[j], d)
    BY <2>1, <2>2
  <2>6. \A j \in JobIds : Active(jobs[j]) => Active(jobs'[j])
    BY <2>3 DEF Active
  <2>. QED
    BY <2>4, <2>5, <2>6 DEF DeletionSteps, Deletes
<1>. QED
  BY <1>1, <1>2 DEF DeleteDomain

LEMMA RetryJobDeletions ==
  ASSUME SafetyInv, NEW i \in JobIds, RetryJob(i)
  PROVE  DeletionSteps
<1>. DEFINE j == retrying[i]
            d == jobs[j].domain
<1>0. /\ jobs \in [JobIds -> Job] /\ JobsInv /\ retrying \in [JobIds -> JobIds]
  BY StateTypes DEF SafetyInv, JobsInv, TypeOK, AdminTypeOK
<1>1. /\ j \in JobIds /\ j # NoJob /\ jobs[j] \in Job /\ domains \in [Domains -> Domain]
      /\ jobs[j].status = "failed"
  BY <1>0, StateTypes DEF RetryJob, MayRetry, Retriable
<1>2. jobs[i].status = "absent" /\ i # j
  BY <1>0, <1>1 DEF JobsInv, FreshIds, Unused
<1>3. \A k \in JobIds : k # j /\ k # i => jobs'[k] = jobs[k]
  BY <1>0 DEF RetryJob
<1>4. jobs'[i] = Retry(j)
  BY <1>0 DEF RetryJob
<1>. HIDE DEF j
<1>6. \A k \in JobIds : Active(jobs[k]) => Active(jobs'[k])
  BY <1>1, <1>2, <1>3 DEF Active
<1>7. CASE jobs[j].type = "delete" /\ LiveDomain(d)
  <2>1. domains' = [domains EXCEPT ![d] =
          [domains[d] EXCEPT !.lastJob = i, !.deleting = TRUE, !.enabled = FALSE]]
    BY <1>7 DEF RetryJob, j
  <2>2. \A e \in Domains : e # d => domains'[e] = domains[e]
    BY <1>1, <2>1
  <2>3. Deletes(Retry(j), d)
    BY <1>1, <1>7 DEF Retry, Deletes, Active, Job
  <2>4. \E k \in JobIds : Deletes(jobs'[k], d)
    BY <1>1, <1>4, <2>3
  <2>. HIDE DEF d
  <2>. QED
    BY <1>6, <2>2, <2>4 DEF DeletionSteps, Deletes
<1>8. CASE ~(jobs[j].type = "delete" /\ LiveDomain(d))
  <2>1. domains' = domains \/ domains' = [domains EXCEPT ![d] = [domains[d] EXCEPT !.lastJob = i]]
    BY <1>8 DEF RetryJob, j
  <2>2. ASSUME NEW e \in Domains, Deleting(domains'[e]) PROVE Deleting(domains[e])
    <3>1. domains[e] \in Domain
      BY <1>1
    <3>2. domains'[e] = domains[e] \/ domains'[e] = [domains[e] EXCEPT !.lastJob = i]
      BY <1>1, <2>1
    <3>. HIDE DEF d
    <3>. QED
      BY <2>2, <3>1, <3>2 DEF Deleting, Domain
  <2>. QED
    BY <1>6, <2>2, DeletionsKept
<1>. QED
  BY <1>7, <1>8

LEMMA RetryRequestDeletions ==
  ASSUME SafetyInv, RetryRequests
  PROVE  DeletionSteps
<1>1. ASSUME UNCHANGED <<jobs, domains>> PROVE DeletionSteps
  BY <1>1, DeletionsKept
<1>. QED
  BY <1>1, RetryJobDeletions DEF RetryRequests, ReceiveRetry, RefuseRetry, stateVars

\* A request that stores r for one domain.
LEMMA StoredDeletions ==
  ASSUME SafetyInv, NEW d \in Domains, NEW r, domains' = [domains EXCEPT ![d] = r],
         ~Deleting(r) \/ (r.state = domains[d].state /\ r.deleting = domains[d].deleting),
         \/ jobs' = jobs
         \/ \E rec : EnqueueOne(jobs, rec)
         \/ \E recs : EnqueueAll(jobs, recs)
  PROVE  DeletionSteps
<1>1. ASSUME NEW e \in Domains, Deleting(domains'[e]) PROVE Deleting(domains[e])
  <2>1. CASE e = d
    BY <1>1, <2>1, StateTypes DEF Deleting
  <2>2. CASE e # d
    BY <1>1, <2>2, StateTypes
  <2>. QED
    BY <2>1, <2>2
<1>. QED
  BY <1>1, RequestDeletions

LEMMA DomainDeletions ==
  ASSUME SafetyInv, DomainRequests
  PROVE  DeletionSteps
<1>1. ASSUME NEW d \in Domains, NEW n, NEW takeover, NEW tls, AdoptDomain(d, n, takeover, tls)
      PROVE  DeletionSteps
  <2>. DEFINE adopted == [UnusedDomain EXCEPT !.state = "live", !.node = n,
                         !.mode = IF tls THEN "local" ELSE "none",
                         !.observed = ~takeover, !.enabled = TRUE]
  <2>1. ~Deleting(adopted) /\ ~Deleting([adopted EXCEPT !.lastJob = NextId])
    BY DEF Deleting, UnusedDomain
  <2>. HIDE DEF adopted
  <2>2. /\ \/ domains' = [domains EXCEPT ![d] = adopted]
           \/ domains' = [domains EXCEPT ![d] = [adopted EXCEPT !.lastJob = NextId]]
        /\ jobs' = jobs \/ \E rec : EnqueueOne(jobs, rec)
    BY <1>1 DEF AdoptDomain, adopted
  <2>. QED
    BY <2>1, <2>2, StoredDeletions
<1>2. ASSUME NEW d \in Domains, NEW config, UpdateDomainConfig(d, config)
      PROVE  DeletionSteps
  <2>. DEFINE r == [domains[d] EXCEPT !.lastJob = NextId]
  <2>1. r.state = domains[d].state /\ r.deleting = domains[d].deleting
    BY StateTypes DEF Domain
  <2>2. domains' = [domains EXCEPT ![d] = r] /\ \E rec : EnqueueOne(jobs, rec)
    BY <1>2 DEF UpdateDomainConfig
  <2>. HIDE DEF r
  <2>. QED
    BY <2>1, <2>2, StoredDeletions
<1>3. ASSUME NEW d \in Domains, NEW n, NEW m, NEW c, NEW rn, NEW S, CreateDomain(d, n, m, c, rn, S)
      PROVE  DeletionSteps
  <2>. DEFINE r == [UnusedDomain EXCEPT !.state = "live", !.node = n, !.mode = m, !.cert = c,
                            !.acct = (m = "acme" \/ rn), !.renew = rn,
                            !.syncs = S \ {n}, !.lastJob = NextId]
  <2>1. ~Deleting(r)
    BY DEF Deleting, UnusedDomain
  <2>2. domains' = [domains EXCEPT ![d] = r] /\ \E rec : EnqueueOne(jobs, rec)
    BY <1>3 DEF CreateDomain
  <2>. HIDE DEF r
  <2>. QED
    BY <2>1, <2>2, StoredDeletions
<1>4. ASSUME NEW d \in Domains, NEW n, NEW m, NEW c, NEW rn, NEW S, UpdateDomain(d, n, m, c, rn, S)
      PROVE  DeletionSteps
  <2>. DEFINE edited == [domains[d] EXCEPT !.node = n, !.mode = m, !.cert = EditedCert(d, m, c),
                           !.acct = (m = "acme" \/ rn), !.renew = rn, !.syncs = S \ {n},
                           !.enabled = TRUE, !.deleting = FALSE]
  <2>1. ~Deleting(edited) /\ ~Deleting([edited EXCEPT !.lastJob = NextId])
    BY StateTypes DEF Deleting, Domain
  <2>. HIDE DEF edited
  <2>2. /\ \/ domains' = [domains EXCEPT ![d] = edited]
           \/ domains' = [domains EXCEPT ![d] = [edited EXCEPT !.lastJob = NextId]]
        /\ jobs' = jobs \/ \E rec : EnqueueOne(jobs, rec)
    BY <1>4 DEF UpdateDomain, edited
  <2>. QED
    BY <2>1, <2>2, StoredDeletions
<1>. QED
  BY <1>1, <1>2, <1>3, <1>4, DeleteDomainDeletions DEF DomainRequests

LEMMA CertificateDeletions ==
  ASSUME SafetyInv, CertificateRequests
  PROVE  DeletionSteps
<1>1. ASSUME UNCHANGED domains,
             jobs' = jobs \/ (\E rec : EnqueueOne(jobs, rec)) \/ (\E recs : EnqueueAll(jobs, recs))
      PROVE  DeletionSteps
  BY <1>1, RequestDeletions
<1>2. ASSUME NEW c, DeleteCertificate(c)
      PROVE  DeletionSteps
  BY <1>1, <1>2 DEF DeleteCertificate
<1>3. ASSUME NEW c, NEW S, SyncCertificate(c, S)
      PROVE  DeletionSteps
  BY <1>1, <1>3 DEF SyncCertificate
<1>4. ASSUME NEW c, NEW name, NEW sans, NEW n, NEW rn, NEW S, UploadCertificate(c, name, sans, n, rn, S)
      PROVE  DeletionSteps
  BY <1>1, <1>4 DEF UploadCertificate
<1>5. ASSUME NEW n, NEW c, NEW name, NEW rn, NEW S,
             IssueCertificate(n, c, name, rn, S) \/ ImportCertificate(n, c, name, rn, S)
      PROVE  DeletionSteps
  BY <1>1, <1>5 DEF IssueCertificate, ImportCertificate
<1>6. ASSUME NEW c, RenewCertificate(c)
      PROVE  DeletionSteps
  <2>. DEFINE d == certs[c].name
              r == [domains[d] EXCEPT !.lastJob = NextId]
  <2>1. \E rec : EnqueueOne(jobs, rec)
    BY <1>6 DEF RenewCertificate
  <2>2. CASE LiveDomain(d) /\ domains' = [domains EXCEPT ![d] = r]
    <3>1. d \in Domains /\ r.state = domains[d].state /\ r.deleting = domains[d].deleting
      BY <2>2, StateTypes DEF LiveDomain, Domain
    <3>. HIDE DEF r, d
    <3>. QED
      BY <2>1, <2>2, <3>1, StoredDeletions
  <2>. QED
    BY <1>1, <1>6, <2>1, <2>2 DEF RenewCertificate
<1>7. ASSUME NEW c \in Certs, NEW enabled, SetCertificateAutoRenew(c, enabled)
      PROVE  DeletionSteps
  <2>1. ASSUME NEW d \in Domains, Deleting(domains'[d]) PROVE Deleting(domains[d])
    <3>1. domains[d] \in Domain
      BY StateTypes
    <3>2. domains'[d] = domains[d] \/ \E w : domains'[d] = [domains[d] EXCEPT !.renew = w]
      BY <1>7 DEF SetCertificateAutoRenew
    <3>. QED
      BY <2>1, <3>1, <3>2 DEF Deleting, Domain
  <2>. QED
    BY <1>7, <2>1, RequestDeletions DEF SetCertificateAutoRenew
<1>8. ASSUME NEW c \in Certs, NEW n, NEW rn, UpdateCertificateAutomation(c, n, rn)
      PROVE  DeletionSteps
  <2>1. ASSUME NEW d \in Domains, Deleting(domains'[d]) PROVE Deleting(domains[d])
    <3>1. domains[d] \in Domain
      BY StateTypes
    <3>2. domains'[d] = domains[d] \/ \E w : domains'[d] = [domains[d] EXCEPT !.acct = TRUE, !.renew = w]
      BY <1>8 DEF UpdateCertificateAutomation
    <3>. QED
      BY <2>1, <3>1, <3>2 DEF Deleting, Domain
  <2>. QED
    BY <1>8, <2>1, RequestDeletions DEF UpdateCertificateAutomation
<1>. QED
  BY <1>2, <1>3, <1>4, <1>5, <1>6, <1>7, <1>8 DEF CertificateRequests

LEMMA AdminDeletions ==
  ASSUME SafetyInv, AdminNext, ~ClearPending
  PROVE  DeletionSteps
<1>1. ASSUME NEW n, NEW type, UpdateNode(n, type)
      PROVE  DeletionSteps
  <2>1. UNCHANGED domains /\ \E rec : EnqueueOne(jobs, rec)
    BY <1>1 DEF UpdateNode
  <2>. QED
    BY <2>1, RequestDeletions
<1>2. ASSUME NEW S \in SUBSET Nodes, RevokeNodes(S)
      PROVE  DeletionSteps
  BY <1>2, RevokesDeletions DEF RevokeNodes
<1>. QED
  BY <1>1, <1>2, DomainDeletions, RetryRequestDeletions, CertificateDeletions
     DEF AdminNext, JobRequests

\* A delete job the scheduler gives up restores its domain; one it tries again waits.
LEMMA MaintenanceDeletions ==
  ASSUME SafetyInv, Maintenance, UNCHANGED <<handlers, commits, issuer>>
  PROVE  DeletionSteps
<1>. DEFINE A == AfterTimeouts
            F == {j \in JobIds : GivenUp(j)}
<1>1. PICK R \in Recoveries(A) :
        \E last \in lastId..MaxJobs : \E at \in Numberings(NewJobs(A, R), last) :
          /\ jobs' = AddJobs(Recovered(A, at), at)
          /\ domains' = Scheduled(TimedOutDeletions, at)
  BY DEF Maintenance
<1>2. PICK last \in lastId..MaxJobs :
        \E at \in Numberings(NewJobs(A, R), last) :
          /\ jobs' = AddJobs(Recovered(A, at), at)
          /\ domains' = Scheduled(TimedOutDeletions, at)
  BY <1>1
<1>3. PICK at \in Numberings(NewJobs(A, R), last) :
          /\ jobs' = AddJobs(Recovered(A, at), at)
          /\ domains' = Scheduled(TimedOutDeletions, at)
  BY <1>2
<1>4. /\ jobs \in [JobIds -> Job] /\ A \in [JobIds -> Job] /\ domains \in [Domains -> Domain]
      /\ lastId \in Nat /\ JobIds \subseteq Nat /\ JobsInv
  BY StateTypes, ConstantFacts, AfterTimeoutsType DEF SafetyInv, JobsInv, TypeOK
<1>5. DOMAIN at = (lastId + 1)..last
  BY DEF Numberings, NextId
<1>6. ASSUME NEW j \in JobIds, Active(jobs[j]), j \notin F
      PROVE  Active(jobs'[j])
  <2>1. j <= lastId
    BY <1>4, <1>6, UsedIds DEF Active
  <2>2. j \notin DOMAIN at
    BY <1>4, <1>5, <2>1
  <2>3. jobs'[j] = Recovered(A, at)[j]
    BY <1>3, <2>2 DEF AddJobs
  <2>4. A[j] \in Job /\ Active(A[j])
    <3>1. A[j] = jobs[j] \/ A[j] = Requeue(jobs[j])
      BY <1>6 DEF AfterTimeouts
    <3>. QED
      BY <1>4, <1>6, <3>1 DEF Active, Requeue, Job
  <2>5. Recovered(A, at)[j] = A[j] \/ \E i : Recovered(A, at)[j] = [A[j] EXCEPT !.retryJob = i]
    BY DEF Recovered
  <2>. HIDE DEF A
  <2>. QED
    BY <2>3, <2>4, <2>5 DEF Active, Job
<1>7. ASSUME NEW d \in Domains, Deleting(domains'[d])
      PROVE  Deleting(RestoreDeletions(domains, F)[d])
  <2>1. TimedOutDeletions = RestoreDeletions(domains, F)
    BY DEF TimedOutDeletions
  <2>2. TimedOutDeletions[d] \in Domain
    BY <1>4, RestoreDeletionsType DEF TimedOutDeletions
  <2>3. \/ domains'[d] = TimedOutDeletions[d]
        \/ \E i : domains'[d] = [TimedOutDeletions[d] EXCEPT !.lastJob = i]
    BY <1>3 DEF Scheduled
  <2>4. Deleting(TimedOutDeletions[d])
    BY <1>7, <2>2, <2>3 DEF Deleting, Domain
  <2>. QED
    BY <2>1, <2>4
<1>. HIDE DEF F
<1>. QED
  BY <1>4, <1>6, <1>7, FailuresRestore

LEMMA NextDeletions ==
  ASSUME SafetyInv, Next, ~ClearPending
  PROVE  DeletionSteps
<1>1. CASE Agents
  BY <1>1, AgentDeletions DEF Agents
<1>2. CASE Issuing
  BY <1>2, IssuerDeletions DEF Issuing
<1>3. CASE Admin
  BY <1>3, AdminDeletions DEF Admin
<1>4. ASSUME NEW j \in JobIds, TimePasses(j)
      PROVE  DeletionSteps
  <2>. DEFINE r == [jobs[j] EXCEPT !.overdue = TRUE]
  <2>1. jobs' = [jobs EXCEPT ![j] = r] /\ UNCHANGED domains
    BY <1>4 DEF TimePasses
  <2>2. Active(r)
    BY <1>4, StateTypes DEF TimePasses, Active, Job
  <2>. HIDE DEF r
  <2>. QED
    BY <2>1, <2>2, OneJobDeletions
<1>5. CASE Aging
  BY <1>5, DeletionsKept DEF Aging, CertificateAges
<1>6. CASE Maintains
  <2>1. UNCHANGED <<handlers, commits, issuer>>
    BY <1>6 DEF Maintains, agentVars
  <2>. QED
    BY <1>6, <2>1, MaintenanceDeletions DEF Maintains
<1>7. CASE ControllerRestart
  BY <1>7, DeletionsKept DEF ControllerRestart, stateVars
<1>. QED
  BY <1>1, <1>2, <1>3, <1>4, <1>5, <1>6, <1>7 DEF Next, Clock

\* Whatever fails, times out, is revoked, retried or late, a domain that is shown
\* as being deleted has a delete job that waits or runs, until pending jobs are
\* cleared (restoreFailedDomainDeletion; the hypothesis is needed, since
\* handleClearPendingJobs goes by LastJobID, which a retry replaces).
THEOREM DeletionsHaveJobs == Spec /\ [][~ClearPending]_vars => []DeletingHasDeleteJob
<1>1. Init => DeletingHasDeleteJob
  BY DEF Init, StateInit, DeletingHasDeleteJob, LiveDomain, UnusedDomain
<1>2. SafetyInv /\ DeletingHasDeleteJob /\ [Next]_vars /\ [~ClearPending]_vars => DeletingHasDeleteJob'
  <2>. SUFFICES ASSUME SafetyInv, DeletingHasDeleteJob, [Next]_vars, [~ClearPending]_vars
                PROVE  DeletingHasDeleteJob'
    OBVIOUS
  <2>1. CASE UNCHANGED vars
    BY <2>1 DEF vars, stateVars, DeletingHasDeleteJob, LiveDomain, ActiveFor, Active
  <2>2. CASE Next /\ ~ClearPending
    <3>1. TaskSteps /\ DeletionSteps
      BY <2>2, NextFacts, NextDeletions DEF StepFacts
    <3>. QED
      BY <3>1, DeletionsStay DEF SafetyInv
  <2>. QED
    BY <2>1, <2>2
<1>. QED
  BY <1>1, <1>2, SafetyInvariant, PTL DEF Spec

\* An instance whose administrator never clears pending jobs has the invariant.
COROLLARY DeletionsHaveJobsUncleared ==
  ASSUME "clear" \notin Ops
  PROVE  Spec => []DeletingHasDeleteJob
<1>1. ~ClearPending
  BY DEF ClearPending
<1>2. [][~ClearPending]_vars
  BY <1>1, PTL
<1>. QED
  BY <1>2, DeletionsHaveJobs, PTL
=============================================================================
