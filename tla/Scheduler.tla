------------------------------ MODULE Scheduler ------------------------------
(***************************************************************************)
(* runMaintenance, which the scheduler calls every 15 seconds: one Update  *)
(* that ends or retries jobs whose time is over, and creates the sync and  *)
(* issue jobs that are wanted now.                                         *)
(*                                                                         *)
(* Time is abstract.  job.overdue says that the limit which applies to the *)
(* job in its present status is exceeded: 10 minutes since QueuedAt, 20    *)
(* (90, 30) minutes since StartedAt, 30 minutes since UpdateAcceptedAt.    *)
(* TimePasses may exceed it at any moment; setting the timestamp clears it.*)
(***************************************************************************)
EXTENDS ControllerState

TimePasses(j) ==
  /\ Active(jobs[j]) /\ AgentJob(jobs[j]) /\ ~jobs[j].overdue
  /\ jobs' = [jobs EXCEPT ![j].overdue = TRUE]
  /\ UNCHANGED <<lastId, running, revoked, domains, certs>>

CertificateAges(c) ==
  /\ "aging" \in Ops
  /\ certs[c].state = "live" /\ ~certs[c].due
  /\ certs' = [certs EXCEPT ![c].due = TRUE]
  /\ UNCHANGED <<jobs, lastId, running, revoked, domains>>

-----------------------------------------------------------------------------
(* Timeouts *)

\* Mutant: only jobs that were sent to a node time out.
ExpiredRunning(j) == jobs[j].status = "running" /\ AgentJob(jobs[j]) /\ jobs[j].overdue

Expired(j) == Active(jobs[j]) /\ AgentJob(jobs[j]) /\ jobs[j].overdue

\* A queued job is given up only when its node is gone or runs nothing: behind
\* a long running job it waits on.
Unclaimed(j) ==
  /\ Expired(j) /\ jobs[j].status = "queued"
  /\ ~LiveNode(jobs[j].node) \/ RunningAt(jobs[j].node) = {}

Unanswered(j) == Expired(j) /\ jobs[j].status = "running"
Retried(j)    == Unanswered(j) /\ ~Awaiting(jobs[j]) /\ jobs[j].attempts < MaxAttempts
GivenUp(j)    == Unclaimed(j) \/ (Unanswered(j) /\ ~Retried(j))

AfterTimeouts ==
  [j \in JobIds |-> IF GivenUp(j) THEN Fail(jobs[j])
                    ELSE IF Retried(j) THEN Requeue(jobs[j])
                    ELSE jobs[j]]

\* Mutant: the node is released only when its job is tried again.
ReleasedIfRetried(n) == running[n] # NoJob /\ Retried(running[n])

\* RunningJobID names a job that timed out.
Released(n) == running[n] # NoJob /\ Unanswered(running[n])

TimedOutDeletions == RestoreDeletions(domains, {j \in JobIds : GivenUp(j)})

-----------------------------------------------------------------------------
(* requeueRecoverableWildcardSyncs *)

\* Mutant: a sync is recovered as often as its recovery fails.
RecoverableAgain(J) ==
  {j \in JobIds :
    /\ J[j].type = "sync" /\ J[j].status = "failed" /\ J[j].retryOf = NoJob
    /\ LiveNode(J[j].node) /\ ~ActiveOn(J, J[j].node, JobTypes)
    /\ LiveCert(J[j].cert) /\ J[j].node \notin certs[J[j].cert].deployed}

\* A sync an old agent refused because of a wildcard name, on a node that has
\* nothing else to do.  Which failures carry that error, and which agents have
\* been upgraded since, is left open.
Recoverable(J) ==
  {j \in JobIds :
    /\ J[j].type = "sync" /\ J[j].status = "failed"
    /\ J[j].retryOf = NoJob /\ J[j].retryJob = NoJob
    /\ LiveNode(J[j].node) /\ ~ActiveOn(J, J[j].node, JobTypes)
    /\ LiveCert(J[j].cert) /\ J[j].node \notin certs[J[j].cert].deployed}

Recovery(j) == [SyncJob(jobs[j].node, jobs[j].domain, jobs[j].cert) EXCEPT !.retryOf = j]

\* The first recovery makes its node busy for the next.
Recoveries(J) ==
  {F \in SUBSET Recoverable(J) :
    /\ "recovery" \in Ops \/ F = {}
    /\ \A i, k \in F : J[i].node = J[k].node => i = k}

-----------------------------------------------------------------------------
(* Renewals *)

DomainsToRenew(J) ==
  {d \in Domains :
    /\ LiveDomain(d) /\ domains[d].renew /\ domains[d].acct
    /\ LiveNode(domains[d].node)
    /\ ~LiveCert(domains[d].cert) \/ certs[domains[d].cert].due
    /\ ~ActiveFor(J, d, {"issue"})}

\* The schedule of a domain that renews takes precedence over that of its certificate.
LinkedToRenewal(c) == \E d \in Domains : LiveDomain(d) /\ domains[d].renew /\ domains[d].cert = c

CertsToRenew(J) ==
  {c \in Certs :
    /\ LiveCert(c) /\ certs[c].renew /\ certs[c].acct /\ certs[c].due
    /\ ~LinkedToRenewal(c)
    /\ LiveNode(certs[c].issuer)
    /\ ~ActiveReference(J, c, {"issue"})}

\* The certificate's issuer gets it back, then the other nodes that had it.
Renewal(c) ==
  CertIssueJob(certs[c].issuer, c, certs[c].name, TRUE,
               certs[c].deployed \cup {certs[c].issuer})

-----------------------------------------------------------------------------
\* The jobs one maintenance creates, numbered by at; each new job is recorded
\* in the failed job it recovers, or the domain it renews.
NewJobs(J, F) ==
  {Recovery(j) : j \in F}
    \cup {DomainIssueJob(domains[d].node, d) : d \in DomainsToRenew(J)}
    \cup {Renewal(c) : c \in CertsToRenew(J)}

Recovered(J, at) ==
  [j \in JobIds |->
    IF \E i \in DOMAIN at : at[i].retryOf = j /\ j # NoJob
      THEN [J[j] EXCEPT !.retryJob = CHOOSE i \in DOMAIN at : at[i].retryOf = j]
      ELSE J[j]]

Scheduled(D, at) ==
  [d \in Domains |->
    IF \E i \in DOMAIN at : at[i].type = "issue" /\ at[i].domain = d
      THEN [D[d] EXCEPT !.lastJob =
              CHOOSE i \in DOMAIN at : at[i].type = "issue" /\ at[i].domain = d]
      ELSE D[d]]

Maintenance ==
  \E F \in Recoveries(AfterTimeouts) :
  \E last \in lastId..MaxJobs :
  \E at \in Numberings(NewJobs(AfterTimeouts, F), last) :
    /\ jobs' = AddJobs(Recovered(AfterTimeouts, at), at)
    /\ lastId' = last
    /\ domains' = Scheduled(TimedOutDeletions, at)
    /\ running' = [n \in Nodes |->
         IF Released(n) THEN NoJob ELSE running[n]]
    /\ UNCHANGED <<revoked, certs>>

SchedulerNext ==
  \/ \E j \in JobIds : TimePasses(j)
  \/ \E c \in Certs : CertificateAges(c)
  \/ Maintenance
=============================================================================
