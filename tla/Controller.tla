----------------------------- MODULE Controller -----------------------------
(***************************************************************************)
(* The controller with its agents: the administrator's requests, the       *)
(* agents' polls and results, the certificate worker and the scheduler     *)
(* interleave on one persisted state.                                      *)
(***************************************************************************)
EXTENDS AgentApi, CertificateIssuer, AdminApi, Scheduler

vars == <<stateVars, agentVars, issuer, retrying>>

Init == StateInit /\ AgentInit /\ IssuerInit /\ AdminInit

\* The process stops and starts again on the state it persisted: requests and
\* the certificate worker's attempt are gone.
ControllerRestart ==
  /\ "restart" \in Ops
  /\ handlers' = [h \in Handlers |-> Idle]
  /\ commits' = {}
  /\ issuer' = Free
  /\ retrying' = [j \in JobIds |-> NoJob]
  /\ UNCHANGED <<stateVars, agent, results>>

Agents    == AgentNext /\ UNCHANGED <<issuer, retrying>>
Issuing   == IssuerNext /\ UNCHANGED <<agentVars, retrying>>
Admin     == AdminNext /\ UNCHANGED <<agentVars, issuer>>
Clock     == (\E j \in JobIds : TimePasses(j)) /\ UNCHANGED <<agentVars, issuer, retrying>>
Aging     == (\E c \in Certs : CertificateAges(c)) /\ UNCHANGED <<agentVars, issuer, retrying>>
Maintains == Maintenance /\ UNCHANGED <<agentVars, issuer, retrying>>

Next == Agents \/ Issuing \/ Admin \/ Clock \/ Aging \/ Maintains \/ ControllerRestart

Spec == Init /\ [][Next]_vars

\* runScheduler calls runMaintenance on every tick, whatever agents and
\* administrators do, and every limit is exceeded in the end.
TimeOf(j) == TimePasses(j) /\ UNCHANGED <<agentVars, issuer, retrying>>
FairScheduling == WF_vars(Maintains) /\ \A j \in JobIds : WF_vars(TimeOf(j))

FairSpec == Spec /\ FairScheduling

-----------------------------------------------------------------------------
(* Jobs *)

\* Every variable keeps its type: in particular the records handlers hold
\* between two Updates are copies of jobs and certificates that existed.
TypeOK == StateTypeOK /\ AgentTypeOK /\ IssuerTypeOK /\ AdminTypeOK

\* A node runs one job at a time, although polls overlap, results are late and
\* jobs are requeued while their agent still works on them (handleAgentPoll).
OneRunningJob == \A n \in Nodes : \A i, k \in RunningAt(n) : i = k

\* node.RunningJobID is empty or names a job that runs on the node, so that a
\* poll never redelivers another node's or a finished job.
PointerValid == \A n \in Nodes : running[n] # NoJob => running[n] \in RunningAt(n)

\* A revoked node runs nothing and issues nothing: the poll that was served while
\* it was revoked cannot leave a job behind (revokeNodeState).
RevokedIdle ==
  \A n \in revoked :
    /\ RunningAt(n) = {} /\ running[n] = NoJob
    /\ \A j \in JobIds : jobs[j].node = n /\ jobs[j].type = "issue" => ~Active(jobs[j])

\* Automatic retries end: whoever counts, poll, scheduler or result, a job is
\* queued only below MaxAttempts and delivered at most that often.
AttemptsBounded ==
  \A j \in JobIds : AgentJob(jobs[j]) =>
    /\ jobs[j].status = "queued"  => jobs[j].attempts < MaxAttempts
    /\ jobs[j].status = "running" => jobs[j].attempts \in 1..MaxAttempts

\* A node executes its jobs in the order they were created: a job that is tried
\* again keeps its place, so an older configuration of a domain never follows a
\* newer one (handleAgentPoll sorts by CreatedAt, which being tried again keeps).
\* Only an administrator's retry, whose CreatedAt is taken before it waits for the
\* store's lock, may be overtaken meanwhile.
InOrder ==
  \A i, k \in JobIds :
    /\ i < k /\ jobs[i].retryOf = NoJob
    /\ jobs[i].node = jobs[k].node /\ AgentJob(jobs[i]) /\ AgentJob(jobs[k])
    /\ jobs[k].status \in {"running", "succeeded"}
    => ~Active(jobs[i])

\* A failed job is retried by at most one other job, be it by an administrator
\* or by the recovery of wildcard syncs, and the two jobs name each other as long
\* as both are kept (handleRetryJob, requeueRecoverableWildcardSyncs).
RetriedOnce ==
  \A i, k \in JobIds \ {NoJob} :
    /\ jobs[k].retryOf = i /\ jobs[i].status # "absent" =>
         jobs[i].status = "failed" /\ jobs[i].retryJob = k
    /\ jobs[k].retryOf # NoJob /\ jobs[i].retryOf = jobs[k].retryOf => i = k

\* A job that ended never becomes active again, and one that failed never succeeds
\* after all: no late result, overlapping poll, timeout, recovery or restarted
\* certificate worker revives it, whatever it read before the job ended.
NeverRevived ==
  [][\A j \in JobIds : Finished(jobs[j]) =>
       /\ ~Active(jobs'[j])
       /\ jobs[j].status = "failed" => jobs'[j].status # "succeeded"]_vars

\* Every job of an agent ends, or is cleared, whatever its agent does: delivery,
\* retries and timeouts leave no job active for ever (runMaintenance).
EveryJobEnds ==
  \A j \in JobIds : (Active(jobs[j]) /\ AgentJob(jobs[j])) ~> ~Active(jobs[j])

\* What JobLifecycle sees of a job.
View(r) == [ status |-> r.status, node |-> r.node, remote |-> AgentJob(r),
             attempts |-> r.attempts, retry |-> r.retryOf # NoJob ]

Jobs == INSTANCE JobLifecycle WITH
  Places   <- Nodes \cup {NoNode},
  job      <- [j \in JobIds |-> View(jobs[j])],
  last     <- lastId,
  promised <- {j \in JobIds : retrying[j] # NoJob}

\* The controller implements JobLifecycle: jobs take only its steps, whatever polls,
\* results, requests, maintenance and restarts are interleaved.
JobsRefined == Jobs!Spec

-----------------------------------------------------------------------------
(* Domains, certificates and nodes *)

\* A domain's certificate exists, and so does the one a job will install: a
\* certificate in use is never deleted (handleDeleteCertificates).
CertificatesInUseExist ==
  /\ \A d \in Domains : LiveDomain(d) /\ domains[d].cert # NoCert => LiveCert(domains[d].cert)
  /\ \A j \in JobIds :
       Active(jobs[j]) /\ jobs[j].type \in {"apply", "sync"} /\ jobs[j].cert # NoCert
         => LiveCert(jobs[j].cert)

\* No record an administrator sees names a revoked node as the one that serves a
\* domain, synchronises or signs its certificate, even when a certificate
\* prepared before the revocation is stored after it (revokeNodeState).
RevokedUnreferenced ==
  /\ \A d \in Domains : LiveDomain(d) =>
       domains[d].node \notin revoked /\ domains[d].syncs \cap revoked = {}
  /\ \A c \in Certs : LiveCert(c) => certs[c].issuer \notin revoked

\* A domain that renews its certificate can do so.  It suppresses the schedule the
\* certificate has of its own (linkedRenewals in runMaintenance): one without a live
\* node or an account would let the certificate expire unnoticed.
LinkedRenewalWorks ==
  \A d \in Domains : LiveDomain(d) /\ domains[d].renew
    => domains[d].acct /\ LiveNode(domains[d].node)

\* A domain shown as being deleted has a delete job that will remove or restore
\* it: no failure, timeout or revocation loses the job and keeps the flag.
DeletingHasDeleteJob ==
  \A d \in Domains : LiveDomain(d) /\ domains[d].deleting => ActiveFor(jobs, d, {"delete"})

\* A deletion ends: the domain is removed, or shown as a normal domain again
\* (restoreFailedDomainDeletion on every path on which a delete job fails).
DeletionEnds ==
  \A d \in Domains : domains[d].deleting ~> ~domains[d].deleting

\* agent_api.go: a removed primary node leaves the domain intentionally disabled
\* until an administrator assigns a replacement.
OrphanDisabled ==
  \A d \in Domains : LiveDomain(d) /\ domains[d].node = NoNode => ~domains[d].enabled

\* admin.go: a certificate still used by a domain or by a job being executed is
\* not removed.
RemovedNotInUse ==
  \A c \in Certs : certs[c].state = "removed" =>
    /\ issuer.cert # c
    /\ \A d \in Domains : LiveDomain(d) => domains[d].cert # c
=============================================================================
