--------------------------- MODULE ControllerState ---------------------------
(***************************************************************************)
(* The controller's persisted state (model.State) as far as its job        *)
(* protocol depends on it, and the helpers every handler uses on it.       *)
(*                                                                         *)
(* One store.Update is one atomic step: Store.Update runs its function     *)
(* under the store's lock on a copy and publishes the copy only when the   *)
(* function returns nil.  What happens between two Updates or Snapshots of *)
(* one handler is interleaved, so a handler that takes several of them is  *)
(* several actions in the modules that extend this one.                    *)
(***************************************************************************)
EXTENDS Naturals, FiniteSets

CONSTANTS
  Nodes,          \* identifiers of enrolled nodes
  Domains,        \* identifiers of domains; a domain is named by its identifier
  Certs,          \* identifiers of certificate records
  NoNode,         \* the empty NodeID
  NoDomain,       \* the empty DomainID
  NoCert,         \* the empty CertificateID
  MaxJobs,        \* bound: jobs created in one behaviour
  MaxAttempts,    \* Job.MaxAttempts, 3 in the code
  Ops             \* the administrator's requests and the faults that may occur

ASSUME ControllerAssumption ==
  /\ MaxJobs \in Nat
  /\ MaxAttempts \in Nat \ {0}
  /\ NoNode \notin Nodes
  /\ NoDomain \notin Domains
  /\ NoCert \notin Certs

VARIABLES
  jobs,           \* state.Jobs; an identifier without a job maps to AbsentJob
  lastId,         \* the last job identifier given: identifiers are in the order of CreatedAt
  running,        \* node.RunningJobID, 0 when it is ""
  revoked,        \* the nodes with Status = NodeRevoked
  domains,        \* state.Domains
  certs           \* state.Certificates

stateVars == <<jobs, lastId, running, revoked, domains, certs>>

-----------------------------------------------------------------------------
(* Jobs *)

\* Identifier 0 is the empty string: it is never allocated, yet a map write
\* under an empty ID puts a job there.
NoJob  == 0
JobIds == 0..MaxJobs

JobTypes == {"none", "apply", "delete", "sync", "capture", "issue", "update", "system"}
Statuses == {"absent", "queued", "running", "succeeded", "failed"}
Modes    == {"none", "local", "upload", "acme"}

\* config is applyDomainSpec.CustomConfig: "keep" when it is nil.
Job == [ status   : Statuses,
         type     : JobTypes,
         node     : Nodes \cup {NoNode},
         domain   : Domains \cup {NoDomain},
         cert     : Certs \cup {NoCert},
         name     : Domains \cup {NoDomain},
         targets  : SUBSET (Nodes \cup {NoNode}),
         renew    : BOOLEAN,
         capture  : BOOLEAN,
         config   : {"keep", "generated", "custom"},
         attempts : Nat,
         overdue  : BOOLEAN,
         accepted : BOOLEAN,
         retryOf  : JobIds,
         retryJob : JobIds ]

\* The zero model.Job.
AbsentJob ==
  [ status |-> "absent", type |-> "none", node |-> NoNode, domain |-> NoDomain,
    cert |-> NoCert, name |-> NoDomain, targets |-> {}, renew |-> FALSE,
    capture |-> FALSE, config |-> "keep", attempts |-> 0, overdue |-> FALSE,
    accepted |-> FALSE, retryOf |-> NoJob, retryJob |-> NoJob ]

NewJob(type, n, d) ==
  [AbsentJob EXCEPT !.status = "queued", !.type = type, !.node = n, !.domain = d]

SyncJob(n, d, c) == [NewJob("sync", n, d) EXCEPT !.cert = c]

ApplyJob(n, d, c, capture) ==
  [NewJob("apply", n, d) EXCEPT !.cert = c, !.capture = capture]

DomainIssueJob(n, d) == [NewJob("issue", n, d) EXCEPT !.name = d]

CertIssueJob(n, c, name, renew, targets) ==
  [NewJob("issue", n, NoDomain) EXCEPT
     !.cert = c, !.name = name, !.renew = renew, !.targets = targets]

\* Mutant: a status there is no constant for.
FailMisspelt(r) == [r EXCEPT !.status = "error"]

Active(r)   == r.status \in {"queued", "running"}
Finished(r) == r.status \in {"succeeded", "failed"}

\* The jobs agents execute; issue_certificate runs on the controller.
AgentJob(r) == r.type # "issue"

Awaiting(r) == r.type = "update" /\ r.status = "running" /\ r.accepted

RunningAt(n) ==
  {j \in JobIds : jobs[j].status = "running" /\ AgentJob(jobs[j]) /\ jobs[j].node = n}

\* hasActiveJob, hasActiveNodeJob and hasAnyActiveNodeJob.
ActiveFor(J, d, types) ==
  \E j \in JobIds : Active(J[j]) /\ J[j].domain = d /\ J[j].type \in types
ActiveOn(J, n, types) ==
  \E j \in JobIds : Active(J[j]) /\ J[j].node = n /\ J[j].type \in types

\* Mutant: jobs that still wait are not looked at.
RunningReference(J, c, types) ==
  \E j \in JobIds : J[j].status = "running" /\ J[j].cert = c /\ J[j].type \in types

\* hasActiveCertificateReference and hasActiveCertificateJob: by the
\* certificate_id of the payload, which a domain's issue job does not carry.
ActiveReference(J, c, types) ==
  \E j \in JobIds : Active(J[j]) /\ J[j].cert = c /\ J[j].type \in types

Fail(r)    == [r EXCEPT !.status = "failed"]
Succeed(r) == [r EXCEPT !.status = "succeeded"]
\* QueuedAt = now and StartedAt = nil restart the queue timer.
Requeue(r) == [r EXCEPT !.status = "queued", !.overdue = FALSE]

\* A job starts, on its node or on the controller.
Dispatched(r) ==
  [r EXCEPT !.status = "running", !.attempts = @ + 1, !.overdue = FALSE]

\* enqueueJob called once: the new job is the youngest.
NextId == lastId + 1

EnqueueOne(J, rec) ==
  /\ NextId \in JobIds
  /\ jobs' = [J EXCEPT ![NextId] = rec]
  /\ lastId' = NextId

\* enqueueJob called once for each of a set of jobs, in either order.
Numberings(recs, last) ==
  { at \in [NextId..last -> recs] :
      /\ \A r \in recs : \E i \in NextId..last : at[i] = r
      /\ \A i, k \in NextId..last : at[i] = at[k] => i = k }

AddJobs(J, at) == [j \in JobIds |-> IF j \in DOMAIN at THEN at[j] ELSE J[j]]

EnqueueAll(J, recs) ==
  \E last \in lastId..MaxJobs : \E at \in Numberings(recs, last) :
    /\ jobs' = AddJobs(J, at)
    /\ lastId' = last

-----------------------------------------------------------------------------
(* Domains and certificates *)

\* Identifiers are random and never used again: a removed record stays removed.
\* "reserved": id.New returned the identifier, no record is stored under it yet.
Lives == {"unused", "reserved", "live", "removed"}

\* acct stands for both account references, which the handlers set and clear
\* together; custom says whether CustomConfig is not empty.
Domain == [ state    : Lives,
            observed : BOOLEAN,
            node     : Nodes \cup {NoNode},
            mode     : Modes,
            cert     : Certs \cup {NoCert},
            acct     : BOOLEAN,
            renew    : BOOLEAN,
            syncs    : SUBSET Nodes,
            custom   : BOOLEAN,
            enabled  : BOOLEAN,
            deleting : BOOLEAN,
            lastJob  : JobIds ]

UnusedDomain ==
  [ state |-> "unused", observed |-> FALSE, node |-> NoNode, mode |-> "none",
    cert |-> NoCert, acct |-> FALSE, renew |-> FALSE, syncs |-> {},
    custom |-> FALSE, enabled |-> FALSE, deleting |-> FALSE, lastJob |-> NoJob ]

RemovedDomain == [UnusedDomain EXCEPT !.state = "removed"]

\* due: the certificate is inside its renewal window.
Cert == [ state    : Lives,
          name     : Domains \cup {NoDomain},
          sans     : SUBSET Domains,
          issuer   : Nodes \cup {NoNode},
          acct     : BOOLEAN,
          renew    : BOOLEAN,
          deployed : SUBSET (Nodes \cup {NoNode}),
          due      : BOOLEAN ]

UnusedCert ==
  [ state |-> "unused", name |-> NoDomain, sans |-> {}, issuer |-> NoNode,
    acct |-> FALSE, renew |-> FALSE, deployed |-> {}, due |-> FALSE ]

RemovedCert == [UnusedCert EXCEPT !.state = "removed"]

LiveDomain(d) == d \in Domains /\ domains[d].state = "live"
LiveCert(c)   == c \in Certs /\ certs[c].state = "live"
LiveNode(n)   == n \in Nodes /\ n \notin revoked

Covers(c, d) == certs[c].name = d \/ d \in certs[c].sans

\* validateNodeIDs: every selected node must be live; the excluded one is dropped.
ValidTargets(S) == \A n \in S : LiveNode(n)

\* Mutant: the domain is not looked at when its deletion fails.
KeepDeletions(D, F) == D

\* restoreFailedDomainDeletion for every delete job in F: the domain is shown
\* again, enabled if it still has a node.
RestoreDeletions(D, F) ==
  [d \in Domains |->
    IF D[d].state = "live" /\ \E j \in F : jobs[j].type = "delete" /\ jobs[j].domain = d
      THEN [D[d] EXCEPT !.deleting = FALSE, !.enabled = (D[d].node # NoNode)]
      ELSE D[d]]

\* buildWireJob: what the payload of a job is resolved from must still exist.
\* r has the fields type, domain and cert of a job.
BuildsWire(r) ==
  CASE r.type = "apply"   -> LiveDomain(r.domain) /\ (r.cert = NoCert \/ LiveCert(r.cert))
    [] r.type = "sync"    -> LiveCert(r.cert)
    [] r.type = "issue"   -> r.domain = NoDomain
                             \/ (LiveDomain(r.domain) /\ domains[r.domain].acct)
    [] OTHER              -> r.type # "none"

-----------------------------------------------------------------------------
StateInit ==
  /\ jobs = [j \in JobIds |-> AbsentJob]
  /\ lastId = NoJob
  /\ running = [n \in Nodes |-> NoJob]
  /\ revoked = {}
  /\ domains = [d \in Domains |-> UnusedDomain]
  /\ certs = [c \in Certs |-> UnusedCert]

StateTypeOK ==
  /\ jobs \in [JobIds -> Job]
  /\ lastId \in JobIds
  /\ running \in [Nodes -> JobIds]
  /\ revoked \in SUBSET Nodes
  /\ domains \in [Domains -> Domain]
  /\ certs \in [Certs -> Cert]
=============================================================================
