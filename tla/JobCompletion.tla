---------------------------- MODULE JobCompletion ----------------------------
(***************************************************************************)
(* What the end of a job does to the controller's state: the effects of    *)
(* completeSuccessfulJob by type of job, the certificate record            *)
(* prepareCertificateResult builds from a snapshot, and revokeNodeState,   *)
(* which ends all jobs of a node.  Shared by the endpoints of the agents,  *)
(* the administrator's handlers and the controller's certificate issuer.   *)
(***************************************************************************)
EXTENDS ControllerState

-----------------------------------------------------------------------------
(* prepareCertificateResult *)

\* The record a returned certificate replaces.
ReplacedCert(job) == IF job.domain # NoDomain THEN domains[job.domain].cert ELSE job.cert

\* The name the certificate must cover.
CertifiedName(job) == IF job.domain # NoDomain THEN job.domain ELSE job.name

\* The identifier c the record gets is that of the record it replaces, if the
\* snapshot holds it, or a new one.  Which other names the certificate covers,
\* and whether they are enough for the record it replaces, is left open.
Prepares(job, c, sans) ==
  /\ job.domain # NoDomain => LiveDomain(job.domain)
  /\ CertifiedName(job) \in sans
  /\ IF LiveCert(ReplacedCert(job)) THEN c = ReplacedCert(job)
                                    ELSE certs[c].state = "unused"

Reserve(c) ==
  IF certs[c].state = "unused" THEN [certs EXCEPT ![c].state = "reserved"] ELSE certs

\* Automation settings and deployments are those of the snapshot.
PreparedRecord(job, c, sans) ==
  LET owner == job.domain
      own   == owner # NoDomain
  IN [ state    |-> "live",
       name     |-> CertifiedName(job),
       sans     |-> sans,
       issuer   |-> job.node,
       acct     |-> IF own THEN domains[owner].acct ELSE job.type = "issue" \/ job.renew,
       renew    |-> IF own THEN domains[owner].renew ELSE job.renew,
       deployed |-> certs[c].deployed \cup (IF job.type = "issue" THEN {} ELSE {job.node}),
       due      |-> FALSE ]

-----------------------------------------------------------------------------
(* completeSuccessfulJob: C is the certificate map, with the prepared record *)
(* c already stored when the job returned one.                               *)

\* The function returns an error, and the Update it is part of changes nothing.
Aborts(j) ==
  /\ jobs[j].type \in {"apply", "issue", "capture"}
  /\ jobs[j].type = "apply" \/ jobs[j].domain # NoDomain
  /\ ~LiveDomain(jobs[j].domain)

Syncs(S, d, c) == {SyncJob(n, d, c) : n \in S}

Deployed(C, c, n) == IF c = NoCert THEN C ELSE [C EXCEPT ![c].deployed = @ \cup {n}]

\* The node runs the configuration: the domain is enabled and no longer being
\* deleted, and its certificate goes to the other nodes that want it.
CompletesApply(J, j, c, C) ==
  LET d    == jobs[j].domain
      cert == IF c # NoCert THEN c ELSE domains[d].cert
      custom == CASE jobs[j].config = "keep" -> domains[d].custom
                  [] jobs[j].config = "custom" -> TRUE
                  [] jobs[j].config = "generated" -> FALSE
  IN
  /\ domains' = [domains EXCEPT ![d] =
       [@ EXCEPT !.cert = cert, !.enabled = TRUE, !.deleting = FALSE, !.custom = custom]]
  /\ certs' = Deployed(C, cert, domains[d].node)
  /\ EnqueueAll(J, IF cert = NoCert THEN {} ELSE Syncs(domains[d].syncs, d, cert))

CompletesDelete(J, j, C) ==
  /\ domains' = [d \in Domains |->
       IF d = jobs[j].domain /\ LiveDomain(d) THEN RemovedDomain ELSE domains[d]]
  /\ jobs' = J
  /\ certs' = C
  /\ UNCHANGED lastId

CompletesSync(J, j, C) ==
  /\ certs' = IF LiveCert(jobs[j].cert) THEN Deployed(C, jobs[j].cert, jobs[j].node) ELSE C
  /\ jobs' = J
  /\ UNCHANGED <<lastId, domains>>

CompletesCapture(J, j, c, C) ==
  /\ domains' = IF jobs[j].domain = NoDomain THEN domains
                ELSE [domains EXCEPT ![jobs[j].domain].cert = c]
  /\ certs' = C
  /\ EnqueueAll(J, Syncs(jobs[j].targets, NoDomain, c))

\* A domain's new certificate is installed by an apply job on its node,
\* a certificate of its own by sync jobs.
CompletesIssue(J, j, c, C) ==
  LET d == jobs[j].domain IN
  /\ certs' = C
  /\ IF d # NoDomain
       THEN /\ EnqueueOne(J, ApplyJob(domains[d].node, d, c, FALSE))
            /\ domains' = [domains EXCEPT ![d] =
                 [@ EXCEPT !.cert = c, !.mode = "acme", !.lastJob = NextId]]
       ELSE /\ EnqueueAll(J, Syncs(jobs[j].targets, NoDomain, c))
            /\ UNCHANGED domains

\* The job that ended becomes succeeded in the same Update.
CompletesWith(j, c, C) ==
  LET J == [jobs EXCEPT ![j] = Succeed(@)] IN
  /\ ~Aborts(j)
  /\ CASE jobs[j].type = "apply"   -> CompletesApply(J, j, c, C)
       [] jobs[j].type = "delete"  -> CompletesDelete(J, j, C)
       [] jobs[j].type = "sync"    -> CompletesSync(J, j, C)
       [] jobs[j].type = "capture" -> CompletesCapture(J, j, c, C)
       [] jobs[j].type = "issue"   -> CompletesIssue(J, j, c, C)
       [] OTHER -> jobs' = J /\ certs' = C /\ UNCHANGED <<lastId, domains>>

-----------------------------------------------------------------------------
(* revokeNodeState for a set of nodes *)

\* Mutant: the job being executed goes on.
QueuedJobsOf(S) == {j \in JobIds : jobs[j].status = "queued" /\ jobs[j].node \in S}

JobsOf(S) == {j \in JobIds : Active(jobs[j]) /\ jobs[j].node \in S}

\* Mutant: renewal of a domain without a node stays on.
OrphanedRenewing(D, S) ==
  [d \in Domains |->
    IF D[d].state # "live" THEN D[d]
    ELSE IF D[d].node \in S
      THEN [D[d] EXCEPT !.syncs = @ \ S, !.node = NoNode, !.enabled = FALSE,
                        !.deleting = FALSE]
      ELSE [D[d] EXCEPT !.syncs = @ \ S]]

\* A domain on a removed node stays, disabled and without a node.
Orphaned(D, S) ==
  [d \in Domains |->
    IF D[d].state # "live" THEN D[d]
    ELSE IF D[d].node \in S
      THEN [D[d] EXCEPT !.syncs = @ \ S, !.node = NoNode, !.enabled = FALSE,
                        !.deleting = FALSE, !.renew = FALSE]
      ELSE [D[d] EXCEPT !.syncs = @ \ S]]

\* Mutant: the removed node goes on signing.
UndeployedOnly(C, S) == [c \in Certs |-> [C[c] EXCEPT !.deployed = @ \ S]]

Undeployed(C, S) ==
  [c \in Certs |->
    IF C[c].issuer \in S
      THEN [C[c] EXCEPT !.deployed = @ \ S, !.issuer = NoNode, !.renew = FALSE]
      ELSE [C[c] EXCEPT !.deployed = @ \ S]]

Revokes(S) ==
  /\ revoked' = revoked \cup S
  /\ running' = [n \in Nodes |-> IF n \in S THEN NoJob ELSE running[n]]
  /\ jobs' = [j \in JobIds |-> IF j \in JobsOf(S) THEN Fail(jobs[j]) ELSE jobs[j]]
  /\ domains' = RestoreDeletions(Orphaned(domains, S), JobsOf(S))
  /\ certs' = Undeployed(certs, S)
  /\ UNCHANGED lastId
=============================================================================
