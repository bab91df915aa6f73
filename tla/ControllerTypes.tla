--------------------------- MODULE ControllerTypes ---------------------------
(***************************************************************************)
(* Type correctness of Controller, for every set of nodes, domains and     *)
(* certificates and every bound, and the lemmas on the helpers it rests on.*)
(***************************************************************************)
EXTENDS Controller, WellFoundedInduction, TLAPS

AnyNode   == Nodes \cup {NoNode}
AnyDomain == Domains \cup {NoDomain}
AnyCert   == Certs \cup {NoCert}

-----------------------------------------------------------------------------
(* What the constructors return *)

LEMMA ConstantFacts ==
  /\ NoJob \in JobIds
  /\ JobIds \subseteq Nat
  /\ AbsentJob \in Job
BY ControllerAssumption DEF NoJob, JobIds, AbsentJob, Job, Statuses, JobTypes

LEMMA NewJobType ==
  ASSUME NEW type \in JobTypes, NEW n \in AnyNode, NEW d \in AnyDomain
  PROVE  NewJob(type, n, d) \in Job
BY ConstantFacts DEF NewJob, AbsentJob, Job, Statuses, AnyNode, AnyDomain

LEMMA SyncJobType ==
  ASSUME NEW n \in AnyNode, NEW d \in AnyDomain, NEW c \in AnyCert
  PROVE  SyncJob(n, d, c) \in Job
BY ConstantFacts DEF SyncJob, NewJob, AbsentJob, Job, Statuses, JobTypes, AnyNode, AnyDomain, AnyCert

LEMMA ApplyJobType ==
  ASSUME NEW n \in AnyNode, NEW d \in AnyDomain, NEW c \in AnyCert, NEW capture \in BOOLEAN
  PROVE  ApplyJob(n, d, c, capture) \in Job
BY ConstantFacts DEF ApplyJob, NewJob, AbsentJob, Job, Statuses, JobTypes, AnyNode, AnyDomain, AnyCert

LEMMA DomainIssueJobType ==
  ASSUME NEW n \in AnyNode, NEW d \in Domains
  PROVE  DomainIssueJob(n, d) \in Job
BY ConstantFacts DEF DomainIssueJob, NewJob, AbsentJob, Job, Statuses, JobTypes, AnyNode

LEMMA CertIssueJobType ==
  ASSUME NEW n \in AnyNode, NEW c \in AnyCert, NEW name \in AnyDomain,
         NEW renew \in BOOLEAN, NEW targets \in SUBSET AnyNode
  PROVE  CertIssueJob(n, c, name, renew, targets) \in Job
BY ConstantFacts DEF CertIssueJob, NewJob, AbsentJob, Job, Statuses, JobTypes, AnyNode, AnyDomain, AnyCert

LEMMA StatusChangeType ==
  ASSUME NEW r \in Job
  PROVE  /\ Fail(r) \in Job
         /\ Succeed(r) \in Job
         /\ Requeue(r) \in Job
         /\ Redelivered(r) \in Job
         /\ Dispatched(r) \in Job
<1>1. Fail(r) \in Job
  BY DEF Fail, Job, Statuses
<1>2. Succeed(r) \in Job
  BY DEF Succeed, Job, Statuses
<1>3. Requeue(r) \in Job
  BY DEF Requeue, Job, Statuses
<1>4. Redelivered(r) \in Job
  BY DEF Redelivered, Job
<1>5. Dispatched(r) \in Job
  <2>1. r.attempts + 1 \in Nat
    BY DEF Job
  <2>. QED
    BY <2>1 DEF Dispatched, Job, Statuses
<1>. QED
  BY <1>1, <1>2, <1>3, <1>4, <1>5

LEMMA DomainConstants == UnusedDomain \in Domain /\ RemovedDomain \in Domain
BY ConstantFacts DEF UnusedDomain, RemovedDomain, Domain, Lives, Modes

LEMMA CertConstants == UnusedCert \in Cert /\ RemovedCert \in Cert
BY DEF UnusedCert, RemovedCert, Cert, Lives

-----------------------------------------------------------------------------
(* Adding jobs *)

LEMMA EnqueueOneType ==
  ASSUME NEW J \in [JobIds -> Job], NEW rec \in Job, EnqueueOne(J, rec)
  PROVE  jobs' \in [JobIds -> Job] /\ lastId' \in JobIds /\ NextId \in JobIds
BY DEF EnqueueOne

LEMMA AddJobsType ==
  ASSUME NEW J \in [JobIds -> Job], NEW recs \in SUBSET Job, lastId \in JobIds,
         NEW last \in lastId..MaxJobs, NEW at \in Numberings(recs, last)
  PROVE  /\ AddJobs(J, at) \in [JobIds -> Job]
         /\ last \in JobIds
         /\ DOMAIN at \subseteq JobIds
         /\ \A i \in DOMAIN at : at[i] \in recs
<1>1. at \in [NextId..last -> recs]
  BY DEF Numberings
<1>2. \A j \in DOMAIN at : at[j] \in recs
  BY <1>1
<1>3. last \in JobIds /\ DOMAIN at \subseteq JobIds
  BY <1>1, ControllerAssumption DEF JobIds, NextId
<1>. QED
  BY <1>2, <1>3 DEF AddJobs

LEMMA EnqueueAllType ==
  ASSUME NEW J \in [JobIds -> Job], NEW recs \in SUBSET Job, lastId \in JobIds, EnqueueAll(J, recs)
  PROVE  jobs' \in [JobIds -> Job] /\ lastId' \in JobIds
<1>1. PICK last \in lastId..MaxJobs :
        \E at \in Numberings(recs, last) : jobs' = AddJobs(J, at) /\ lastId' = last
  BY DEF EnqueueAll
<1>2. PICK at \in Numberings(recs, last) : jobs' = AddJobs(J, at) /\ lastId' = last
  BY <1>1
<1>. QED
  BY <1>2, AddJobsType

LEMMA SyncsType ==
  ASSUME NEW S \in SUBSET AnyNode, NEW d \in AnyDomain, NEW c \in AnyCert
  PROVE  Syncs(S, d, c) \in SUBSET Job
BY SyncJobType DEF Syncs

-----------------------------------------------------------------------------
(* The end of a job *)

StateTypeOKNext ==
  /\ jobs' \in [JobIds -> Job]
  /\ lastId' \in JobIds
  /\ domains' \in [Domains -> Domain]
  /\ certs' \in [Certs -> Cert]

LEMMA DeployedType ==
  ASSUME NEW C \in [Certs -> Cert], NEW c \in AnyCert, NEW n \in AnyNode
  PROVE  Deployed(C, c, n) \in [Certs -> Cert]
<1>1. CASE c = NoCert
  BY <1>1 DEF Deployed
<1>2. CASE c \in Certs
  <2>1. [C[c] EXCEPT !.deployed = @ \cup {n}] \in Cert
    BY <1>2 DEF Cert, AnyNode
  <2>. QED
    BY <1>2, <2>1 DEF Deployed
<1>. QED
  BY <1>1, <1>2 DEF AnyCert

LEMMA RestoreDeletionsType ==
  ASSUME NEW D \in [Domains -> Domain], NEW F
  PROVE  RestoreDeletions(D, F) \in [Domains -> Domain]
<1>1. \A d \in Domains : [D[d] EXCEPT !.deleting = FALSE, !.enabled = (D[d].node # NoNode)] \in Domain
  BY DEF Domain
<1>. QED
  BY <1>1 DEF RestoreDeletions

LEMMA OrphanedType ==
  ASSUME NEW D \in [Domains -> Domain], NEW S \in SUBSET Nodes
  PROVE  Orphaned(D, S) \in [Domains -> Domain]
<1>1. \A d \in Domains :
        [D[d] EXCEPT !.syncs = @ \ S, !.node = NoNode, !.enabled = FALSE,
                     !.deleting = FALSE, !.renew = FALSE] \in Domain
  BY DEF Domain
<1>2. \A d \in Domains : [D[d] EXCEPT !.syncs = @ \ S] \in Domain
  BY DEF Domain
<1>. QED
  BY <1>1, <1>2 DEF Orphaned

LEMMA UndeployedType ==
  ASSUME NEW C \in [Certs -> Cert], NEW S \in SUBSET Nodes
  PROVE  Undeployed(C, S) \in [Certs -> Cert]
<1>1. \A c \in Certs : [C[c] EXCEPT !.deployed = @ \ S, !.issuer = NoNode, !.renew = FALSE] \in Cert
  BY DEF Cert
<1>2. \A c \in Certs : [C[c] EXCEPT !.deployed = @ \ S] \in Cert
  BY DEF Cert
<1>. QED
  BY <1>1, <1>2 DEF Undeployed

LEMMA RevokesType ==
  ASSUME StateTypeOK, NEW S \in SUBSET Nodes, Revokes(S)
  PROVE  StateTypeOK'
<1>1. jobs' \in [JobIds -> Job]
  BY StatusChangeType DEF StateTypeOK, Revokes
<1>2. domains' \in [Domains -> Domain]
  BY OrphanedType, RestoreDeletionsType DEF StateTypeOK, Revokes
<1>3. certs' \in [Certs -> Cert]
  BY UndeployedType DEF StateTypeOK, Revokes
<1>4. revoked' \in SUBSET Nodes /\ running' \in [Nodes -> JobIds] /\ lastId' \in JobIds
  BY ConstantFacts DEF StateTypeOK, Revokes
<1>. QED
  BY <1>1, <1>2, <1>3, <1>4 DEF StateTypeOK

\* A live domain is one of Domains, a live certificate one of Certs.
LEMMA CompletesApplyType ==
  ASSUME StateTypeOK, NEW J \in [JobIds -> Job], NEW j \in JobIds, NEW c \in AnyCert,
         NEW C \in [Certs -> Cert], LiveDomain(jobs[j].domain), CompletesApply(J, j, c, C)
  PROVE  StateTypeOKNext
<1>. DEFINE d    == jobs[j].domain
            cert == IF c # NoCert THEN c ELSE domains[d].cert
<1>1. d \in Domains /\ domains[d] \in Domain /\ cert \in AnyCert /\ jobs[j].config \in {"keep", "generated", "custom"}
  BY DEF StateTypeOK, LiveDomain, Domain, AnyCert, Job
<1>2. domains' \in [Domains -> Domain]
  <2>. DEFINE custom == CASE jobs[j].config = "keep" -> domains[d].custom
                          [] jobs[j].config = "custom" -> TRUE
                          [] jobs[j].config = "generated" -> FALSE
  <2>1. custom \in BOOLEAN
    BY <1>1 DEF Domain
  <2>2. \A b \in BOOLEAN : [domains[d] EXCEPT !.cert = cert, !.enabled = TRUE, !.deleting = FALSE,
                                               !.custom = b] \in Domain
    BY <1>1 DEF Domain, AnyCert
  <2>3. domains' = [domains EXCEPT ![d] =
           [domains[d] EXCEPT !.cert = cert, !.enabled = TRUE, !.deleting = FALSE, !.custom = custom]]
    BY <1>1 DEF CompletesApply
  <2>. HIDE DEF custom, cert, d
  <2>. QED
    BY <2>1, <2>2, <2>3 DEF StateTypeOK
<1>3. certs' \in [Certs -> Cert]
  <2>1. certs' = Deployed(C, cert, domains[d].node) /\ domains[d].node \in AnyNode
    BY <1>1 DEF CompletesApply, Domain, AnyNode
  <2>. QED
    BY <1>1, <2>1, DeployedType
<1>4. jobs' \in [JobIds -> Job] /\ lastId' \in JobIds
  <2>1. (IF cert = NoCert THEN {} ELSE Syncs(domains[d].syncs, d, cert)) \in SUBSET Job
    BY <1>1, SyncsType DEF Domain, AnyNode, AnyDomain
  <2>2. EnqueueAll(J, IF cert = NoCert THEN {} ELSE Syncs(domains[d].syncs, d, cert))
    BY DEF CompletesApply
  <2>. QED
    BY <2>1, <2>2, EnqueueAllType DEF StateTypeOK
<1>. QED
  BY <1>2, <1>3, <1>4 DEF StateTypeOKNext
LEMMA CompletesDeleteType ==
  ASSUME StateTypeOK, NEW J \in [JobIds -> Job], NEW j \in JobIds,
         NEW C \in [Certs -> Cert], CompletesDelete(J, j, C)
  PROVE  StateTypeOKNext
BY DomainConstants DEF CompletesDelete, StateTypeOK, StateTypeOKNext

LEMMA CompletesSyncType ==
  ASSUME StateTypeOK, NEW J \in [JobIds -> Job], NEW j \in JobIds,
         NEW C \in [Certs -> Cert], CompletesSync(J, j, C)
  PROVE  StateTypeOKNext
<1>1. jobs[j].cert \in AnyCert /\ jobs[j].node \in AnyNode
  BY DEF StateTypeOK, Job, AnyCert, AnyNode
<1>2. certs' \in [Certs -> Cert]
  BY <1>1, DeployedType DEF CompletesSync
<1>. QED
  BY <1>2 DEF CompletesSync, StateTypeOK, StateTypeOKNext

LEMMA CompletesCaptureType ==
  ASSUME StateTypeOK, NEW J \in [JobIds -> Job], NEW j \in JobIds, NEW c \in AnyCert,
         NEW C \in [Certs -> Cert], CompletesCapture(J, j, c, C)
  PROVE  StateTypeOKNext
<1>1. jobs[j].targets \in SUBSET AnyNode /\ jobs[j].domain \in AnyDomain
  BY DEF StateTypeOK, Job, AnyNode, AnyDomain
<1>2. domains' \in [Domains -> Domain]
  <2>1. \A d \in Domains : [domains[d] EXCEPT !.cert = c] \in Domain
    BY DEF StateTypeOK, Domain, AnyCert
  <2>. QED
    BY <1>1, <2>1 DEF CompletesCapture, StateTypeOK, AnyDomain
<1>3. Syncs(jobs[j].targets, NoDomain, c) \in SUBSET Job
  BY <1>1, SyncsType DEF AnyDomain
<1>4. jobs' \in [JobIds -> Job] /\ lastId' \in JobIds
  BY <1>3, EnqueueAllType DEF CompletesCapture, StateTypeOK
<1>. QED
  BY <1>2, <1>4 DEF CompletesCapture, StateTypeOKNext

LEMMA CompletesIssueType ==
  ASSUME StateTypeOK, NEW J \in [JobIds -> Job], NEW j \in JobIds, NEW c \in AnyCert,
         NEW C \in [Certs -> Cert], CompletesIssue(J, j, c, C)
  PROVE  StateTypeOKNext
<1>1. jobs[j].targets \in SUBSET AnyNode /\ jobs[j].domain \in AnyDomain
  BY DEF StateTypeOK, Job, AnyNode, AnyDomain
<1>2. CASE jobs[j].domain = NoDomain
  <2>1. Syncs(jobs[j].targets, NoDomain, c) \in SUBSET Job
    BY <1>1, SyncsType DEF AnyDomain
  <2>2. EnqueueAll(J, Syncs(jobs[j].targets, NoDomain, c)) /\ UNCHANGED domains /\ certs' = C
    BY <1>2 DEF CompletesIssue
  <2>3. jobs' \in [JobIds -> Job] /\ lastId' \in JobIds
    BY <2>1, <2>2, EnqueueAllType DEF StateTypeOK
  <2>. QED
    BY <2>2, <2>3 DEF StateTypeOK, StateTypeOKNext
<1>3. CASE jobs[j].domain # NoDomain
  <2>. DEFINE d == jobs[j].domain
  <2>1. d \in Domains /\ domains[d] \in Domain
    BY <1>1, <1>3 DEF AnyDomain, StateTypeOK
  <2>2. ApplyJob(domains[d].node, d, c, FALSE) \in Job
    BY <2>1, ApplyJobType DEF Domain, AnyNode, AnyDomain
  <2>3. EnqueueOne(J, ApplyJob(domains[d].node, d, c, FALSE)) /\ certs' = C
    BY <1>3 DEF CompletesIssue
  <2>4. jobs' \in [JobIds -> Job] /\ lastId' \in JobIds /\ NextId \in JobIds
    BY <2>2, <2>3, EnqueueOneType
  <2>5. [domains[d] EXCEPT !.cert = c, !.mode = "acme", !.lastJob = NextId] \in Domain
    BY <2>1, <2>4 DEF Domain, AnyCert, Modes
  <2>6. domains' = [domains EXCEPT ![d] =
           [domains[d] EXCEPT !.cert = c, !.mode = "acme", !.lastJob = NextId]]
    BY <1>3 DEF CompletesIssue
  <2>7. domains' \in [Domains -> Domain]
    BY <2>5, <2>6 DEF StateTypeOK
  <2>. QED
    BY <2>3, <2>4, <2>7 DEF StateTypeOKNext
<1>. QED
  BY <1>2, <1>3

LEMMA CompletesWithType ==
  ASSUME StateTypeOK, NEW j \in JobIds, NEW c \in AnyCert,
         NEW C \in [Certs -> Cert], CompletesWith(j, c, C)
  PROVE  StateTypeOKNext
<1>. DEFINE J == [jobs EXCEPT ![j] = Succeed(@)]
<1>1. J \in [JobIds -> Job]
  BY StatusChangeType DEF StateTypeOK
<1>2. ~Aborts(j)
  BY DEF CompletesWith
<1>3. CASE jobs[j].type = "apply"
  <2>1. LiveDomain(jobs[j].domain)
    BY <1>2, <1>3 DEF Aborts
  <2>2. CompletesApply(J, j, c, C)
    BY <1>3 DEF CompletesWith
  <2>. QED
    BY <1>1, <2>1, <2>2, CompletesApplyType
<1>4. CASE jobs[j].type = "delete"
  <2>1. CompletesDelete(J, j, C)
    BY <1>4 DEF CompletesWith
  <2>. QED
    BY <1>1, <2>1, CompletesDeleteType
<1>5. CASE jobs[j].type = "sync"
  <2>1. CompletesSync(J, j, C)
    BY <1>5 DEF CompletesWith
  <2>. QED
    BY <1>1, <2>1, CompletesSyncType
<1>6. CASE jobs[j].type = "capture"
  <2>1. CompletesCapture(J, j, c, C)
    BY <1>6 DEF CompletesWith
  <2>. QED
    BY <1>1, <2>1, CompletesCaptureType
<1>7. CASE jobs[j].type = "issue"
  <2>1. CompletesIssue(J, j, c, C)
    BY <1>7 DEF CompletesWith
  <2>. QED
    BY <1>1, <2>1, CompletesIssueType
<1>8. CASE jobs[j].type \notin {"apply", "delete", "sync", "capture", "issue"}
  <2>1. jobs' = J /\ certs' = C /\ UNCHANGED <<lastId, domains>>
    BY <1>8 DEF CompletesWith
  <2>. QED
    BY <1>1, <2>1 DEF StateTypeOK, StateTypeOKNext
<1>. QED
  BY <1>3, <1>4, <1>5, <1>6, <1>7, <1>8

LEMMA PreparedRecordType ==
  ASSUME StateTypeOK, NEW job \in Job, NEW c \in Certs, NEW sans \in SUBSET Domains
  PROVE  PreparedRecord(job, c, sans) \in Cert
<1>. DEFINE owner    == job.domain
            own      == owner # NoDomain
            name     == IF own THEN owner ELSE job.name
            acct     == IF own THEN domains[owner].acct ELSE job.type = "issue" \/ job.renew
            renew    == IF own THEN domains[owner].renew ELSE job.renew
            deployed == certs[c].deployed \cup (IF job.type = "issue" THEN {} ELSE {job.node})
<1>1. certs[c] \in Cert /\ job.node \in AnyNode /\ name \in AnyDomain
  BY DEF StateTypeOK, Job, AnyNode, AnyDomain
<1>2. own => domains[owner] \in Domain
  BY DEF StateTypeOK, Job
<1>3. acct \in BOOLEAN /\ renew \in BOOLEAN
  BY <1>2 DEF Domain, Job
<1>4. deployed \in SUBSET AnyNode
  BY <1>1 DEF Cert, AnyNode
<1>5. PreparedRecord(job, c, sans) =
        [ state |-> "live", name |-> name, sans |-> sans, issuer |-> job.node,
          acct |-> acct, renew |-> renew, deployed |-> deployed, due |-> FALSE ]
  BY DEF PreparedRecord, CertifiedName
<1>. HIDE DEF acct, renew, deployed, name
<1>. QED
  BY <1>1, <1>3, <1>4, <1>5 DEF Cert, Lives, AnyNode, AnyDomain

LEMMA ReserveType ==
  ASSUME StateTypeOK, NEW c \in Certs
  PROVE  Reserve(c) \in [Certs -> Cert]
<1>1. [certs[c] EXCEPT !.state = "reserved"] \in Cert
  BY DEF StateTypeOK, Cert, Lives
<1>. QED
  BY <1>1 DEF StateTypeOK, Reserve
-----------------------------------------------------------------------------
(* Steps of the agents and of the handlers that serve them *)

LEMMA HandlerConstants == Idle \in Handler /\ Free \in Worker
BY ConstantFacts, CertConstants DEF Idle, Handler, Free, Worker, JobTypes

\* Updates that change one job only.
LEMMA OneJobType ==
  ASSUME StateTypeOK, NEW j \in JobIds, NEW r \in Job, jobs' = [jobs EXCEPT ![j] = r]
  PROVE  jobs' \in [JobIds -> Job]
BY DEF StateTypeOK

LEMMA ServeType ==
  ASSUME StateTypeOK, AgentTypeOK, NEW h \in Handlers, NEW j \in JobIds, Serve(h, j)
  PROVE  handlers' \in [Handlers -> Handler]
<1>1. [ stage |-> "selected", job |-> j, type |-> jobs[j].type, node |-> jobs[j].node,
        domain |-> jobs[j].domain, cert |-> jobs[j].cert, client |-> TRUE ] \in Handler
  BY DEF StateTypeOK, Job, Handler
<1>. QED
  BY <1>1 DEF Serve, AgentTypeOK

LEMMA OldestIn ==
  ASSUME NEW S \in SUBSET JobIds, S # {}
  PROVE  Oldest(S) \in S /\ \A k \in S : Oldest(S) <= k
<1>1. S \subseteq Nat
  BY ConstantFacts
<1>2. PICK m \in S : \A k \in S : <<k, m>> \notin OpToRel(<, Nat)
  BY <1>1, WFMin, NatLessThanWellFounded, Zenon
<1>3. \A k \in S : ~(k < m)
  BY <1>1, <1>2, Zenon DEF OpToRel
<1>4. \A k \in S : m <= k
  BY <1>1, <1>3
<1>. QED
  BY <1>4 DEF Oldest
LEMMA AtTypes ==
  ASSUME StateTypeOK, NEW n \in Nodes
  PROVE  AwaitedAt(n) \subseteq JobIds /\ QueuedAt(n) \subseteq JobIds /\ Orphans(n) \subseteq JobIds
BY DEF AwaitedAt, QueuedAt, Orphans, RunningAt

LEMMA PollType ==
  ASSUME StateTypeOK, AgentTypeOK, NEW n \in Nodes, PollObserves(n) \/ PollFindsNothing(n)
  PROVE  StateTypeOK' /\ AgentTypeOK'
<1>1. CASE PollObserves(n)
  <2>1. PICK j \in AwaitedAt(n) :
          /\ jobs' = [jobs EXCEPT ![j] = Fail(jobs[j])] \/ jobs' = [jobs EXCEPT ![j] = Succeed(jobs[j])]
               \/ UNCHANGED jobs
          /\ running' = [running EXCEPT ![n] = NoJob] \/ running' = [running EXCEPT ![n] = j]
    BY <1>1 DEF PollObserves
  <2>2. j \in JobIds /\ jobs[j] \in Job
    BY <2>1, AtTypes DEF StateTypeOK
  <2>3. jobs' \in [JobIds -> Job]
    BY <2>1, <2>2, StatusChangeType DEF StateTypeOK
  <2>4. running' \in [Nodes -> JobIds]
    BY <2>1, <2>2, ConstantFacts DEF StateTypeOK
  <2>. QED
    BY <1>1, <2>3, <2>4 DEF PollObserves, StateTypeOK, AgentTypeOK, agentVars
<1>2. CASE PollFindsNothing(n)
  BY <1>2, ConstantFacts DEF PollFindsNothing, StateTypeOK, AgentTypeOK, agentVars
<1>. QED
  BY <1>1, <1>2

LEMMA PollServedType ==
  ASSUME StateTypeOK, AgentTypeOK, NEW n \in Nodes, NEW h \in Handlers,
         PollRedelivers(n, h) \/ PollAdopts(n, h) \/ PollDispatches(n, h)
  PROVE  StateTypeOK' /\ AgentTypeOK'
<1>1. CASE PollRedelivers(n, h)
  <2>1. running[n] \in JobIds /\ Redelivered(jobs[running[n]]) \in Job
    BY StatusChangeType DEF StateTypeOK
  <2>2. handlers' \in [Handlers -> Handler]
    BY <1>1, <2>1, ServeType DEF PollRedelivers
  <2>3. jobs' \in [JobIds -> Job]
    BY <1>1, <2>1 DEF PollRedelivers, StateTypeOK
  <2>. QED
    BY <1>1, <2>2, <2>3 DEF PollRedelivers, StateTypeOK, AgentTypeOK
<1>2. CASE PollAdopts(n, h)
  <2>. DEFINE j == Oldest(Orphans(n))
  <2>1. j \in JobIds
    BY <1>2, AtTypes, OldestIn DEF PollAdopts
  <2>. HIDE DEF j
  <2>2. Redelivered(jobs[j]) \in Job
    BY <2>1, StatusChangeType DEF StateTypeOK
  <2>3. /\ jobs' = [jobs EXCEPT ![j] = Redelivered(jobs[j])]
        /\ running' = [running EXCEPT ![n] = j]
        /\ Serve(h, j)
    BY <1>2 DEF PollAdopts, j
  <2>4. handlers' \in [Handlers -> Handler]
    BY <2>1, <2>3, ServeType
  <2>5. jobs' \in [JobIds -> Job] /\ running' \in [Nodes -> JobIds]
    BY <2>1, <2>2, <2>3 DEF StateTypeOK
  <2>. QED
    BY <1>2, <2>4, <2>5 DEF PollAdopts, StateTypeOK, AgentTypeOK
<1>3. CASE PollDispatches(n, h)
  <2>. DEFINE j == Oldest(QueuedAt(n))
  <2>1. j \in JobIds
    BY <1>3, AtTypes, OldestIn DEF PollDispatches
  <2>. HIDE DEF j
  <2>2. Dispatched(jobs[j]) \in Job
    BY <2>1, StatusChangeType DEF StateTypeOK
  <2>3. /\ jobs' = [jobs EXCEPT ![j] = Dispatched(jobs[j])]
        /\ running' = [running EXCEPT ![n] = j]
        /\ Serve(h, j)
    BY <1>3 DEF PollDispatches, j
  <2>4. handlers' \in [Handlers -> Handler]
    BY <2>1, <2>3, ServeType
  <2>5. jobs' \in [JobIds -> Job] /\ running' \in [Nodes -> JobIds]
    BY <2>1, <2>2, <2>3 DEF StateTypeOK
  <2>. QED
    BY <1>3, <2>4, <2>5 DEF PollDispatches, StateTypeOK, AgentTypeOK
<1>. QED
  BY <1>1, <1>2, <1>3

LEMMA HandlerStepType ==
  ASSUME StateTypeOK, AgentTypeOK, NEW h \in Handlers,
         Respond(h) \/ CannotBuild(h) \/ FailDispatch(h) \/ GiveUp(h)
  PROVE  StateTypeOK' /\ AgentTypeOK'
<1>1. handlers[h] \in Handler /\ handlers[h].job \in JobIds
  BY DEF AgentTypeOK, Handler
<1>2. CASE Respond(h)
  <2>1. agent' \in [Nodes -> JobIds]
    BY <1>1, <1>2 DEF Respond, AgentTypeOK
  <2>2. handlers' \in [Handlers -> Handler]
    BY <1>2, HandlerConstants DEF Respond, AgentTypeOK
  <2>. QED
    BY <1>2, <2>1, <2>2 DEF Respond, StateTypeOK, AgentTypeOK, stateVars
<1>3. CASE CannotBuild(h)
  <2>1. [handlers[h] EXCEPT !.stage = "failing"] \in Handler
    BY <1>1 DEF Handler
  <2>2. handlers' = [handlers EXCEPT ![h] = [handlers[h] EXCEPT !.stage = "failing"]]
    BY <1>3 DEF CannotBuild
  <2>3. handlers' \in [Handlers -> Handler]
    BY <2>1, <2>2 DEF AgentTypeOK
  <2>. QED
    BY <1>3, <2>3 DEF CannotBuild, StateTypeOK, AgentTypeOK, stateVars
<1>4. CASE FailDispatch(h)
  <2>. DEFINE j       == handlers[h].job
              current == IF jobs[j].status = "absent" THEN NoJob ELSE j
  <2>1. current \in JobIds
    BY <1>1, ConstantFacts
  <2>2. jobs' = [jobs EXCEPT ![current] = Fail(jobs[current])]
    BY <1>4 DEF FailDispatch
  <2>. HIDE DEF current
  <2>3. jobs' \in [JobIds -> Job]
    BY <2>1, <2>2, StatusChangeType DEF StateTypeOK
  <2>4. running' \in [Nodes -> JobIds]
    BY <1>4, ConstantFacts DEF FailDispatch, StateTypeOK
  <2>5. handlers' \in [Handlers -> Handler]
    BY <1>4, HandlerConstants DEF FailDispatch, AgentTypeOK
  <2>. QED
    BY <1>4, <2>3, <2>4, <2>5 DEF FailDispatch, StateTypeOK, AgentTypeOK
<1>5. CASE GiveUp(h)
  <2>1. [handlers[h] EXCEPT !.client = FALSE] \in Handler
    BY <1>1 DEF Handler
  <2>2. handlers' = [handlers EXCEPT ![h] = [handlers[h] EXCEPT !.client = FALSE]]
    BY <1>5 DEF GiveUp
  <2>3. handlers' \in [Handlers -> Handler]
    BY <2>1, <2>2 DEF AgentTypeOK
  <2>. QED
    BY <1>5, <2>3 DEF GiveUp, StateTypeOK, AgentTypeOK, stateVars
<1>. QED
  BY <1>2, <1>3, <1>4, <1>5

LEMMA AgentStepType ==
  ASSUME StateTypeOK, AgentTypeOK, NEW n \in Nodes, PostResult(n) \/ AgentCrash(n) \/ Unregister(n)
  PROVE  StateTypeOK' /\ AgentTypeOK'
<1>1. CASE PostResult(n)
  <2>1. \A o \in Outcomes : [job |-> agent[n], node |-> n, outcome |-> o] \in Result
    BY DEF AgentTypeOK, Result
  <2>2. results' \subseteq Result
    BY <1>1, <2>1 DEF PostResult, AgentTypeOK
  <2>. QED
    BY <1>1, <2>2, ConstantFacts DEF PostResult, StateTypeOK, AgentTypeOK, stateVars
<1>2. CASE AgentCrash(n)
  BY <1>2, ConstantFacts DEF AgentCrash, StateTypeOK, AgentTypeOK, stateVars
<1>3. CASE Unregister(n)
  <2>1. StateTypeOK'
    BY <1>3, RevokesType DEF Unregister
  <2>. QED
    BY <1>3, <2>1 DEF Unregister, AgentTypeOK, agentVars
<1>. QED
  BY <1>1, <1>2, <1>3

LEMMA ResultStepType ==
  ASSUME StateTypeOK, AgentTypeOK, NEW r \in results,
         \/ LoseResult(r) \/ ResultChangesNothing(r) \/ ResultAwaitsVersion(r)
         \/ ResultFails(r) \/ ResultSucceeds(r) \/ PrepareResult(r)
  PROVE  StateTypeOK' /\ AgentTypeOK'
<1>1. r \in Result /\ r.job \in JobIds /\ r.node \in Nodes /\ jobs[r.job] \in Job
  BY DEF AgentTypeOK, Result, StateTypeOK
<1>2. CASE LoseResult(r)
  BY <1>2 DEF LoseResult, StateTypeOK, AgentTypeOK, stateVars
<1>3. CASE ResultChangesNothing(r)
  BY <1>3 DEF ResultChangesNothing, Take, StateTypeOK, AgentTypeOK, stateVars
<1>4. CASE ResultAwaitsVersion(r)
  <2>1. [jobs[r.job] EXCEPT !.accepted = TRUE, !.overdue = FALSE] \in Job
    BY <1>1 DEF Job
  <2>2. jobs' = [jobs EXCEPT ![r.job] = [jobs[r.job] EXCEPT !.accepted = TRUE, !.overdue = FALSE]]
    BY <1>4 DEF ResultAwaitsVersion
  <2>3. jobs' \in [JobIds -> Job]
    BY <2>1, <2>2 DEF StateTypeOK
  <2>. QED
    BY <1>1, <1>4, <2>3 DEF ResultAwaitsVersion, Take, StateTypeOK, AgentTypeOK
<1>5. CASE ResultFails(r)
  <2>1. \/ jobs' = [jobs EXCEPT ![r.job] = Requeue(jobs[r.job])] /\ UNCHANGED domains
        \/ /\ jobs' = [jobs EXCEPT ![r.job] = Fail(jobs[r.job])]
           /\ domains' = RestoreDeletions(domains, {r.job})
    BY <1>5 DEF ResultFails
  <2>2. jobs' \in [JobIds -> Job]
    BY <1>1, <2>1, StatusChangeType DEF StateTypeOK
  <2>3. domains' \in [Domains -> Domain]
    BY <2>1, RestoreDeletionsType DEF StateTypeOK
  <2>. QED
    BY <1>1, <1>5, <2>2, <2>3, ConstantFacts DEF ResultFails, Take, StateTypeOK, AgentTypeOK
<1>6. CASE ResultSucceeds(r)
  <2>1. CASE CompletesWith(r.job, NoCert, certs) /\ running' = [running EXCEPT ![r.node] = NoJob] /\ UNCHANGED revoked
    <3>1. StateTypeOKNext
      BY <1>1, <2>1, CompletesWithType DEF StateTypeOK, AnyCert
    <3>. QED
      BY <1>6, <2>1, <3>1, ConstantFacts DEF ResultSucceeds, Take, StateTypeOK, StateTypeOKNext, AgentTypeOK
  <2>2. CASE UNCHANGED stateVars
    BY <1>6, <2>2 DEF ResultSucceeds, Take, StateTypeOK, AgentTypeOK, stateVars
  <2>. QED
    BY <1>6, <2>1, <2>2 DEF ResultSucceeds
<1>7. CASE PrepareResult(r)
  <2>1. PICK c \in Certs, sans \in SUBSET Domains :
          /\ certs' = Reserve(c)
          /\ commits' = commits \cup {[job |-> r.job, node |-> r.node, cert |-> c,
                                       record |-> PreparedRecord(jobs[r.job], c, sans)]}
    BY <1>7 DEF PrepareResult
  <2>2. [job |-> r.job, node |-> r.node, cert |-> c,
         record |-> PreparedRecord(jobs[r.job], c, sans)] \in Commit
    BY <1>1, PreparedRecordType DEF Commit
  <2>3. commits' \subseteq Commit
    BY <2>1, <2>2 DEF AgentTypeOK
  <2>4. certs' \in [Certs -> Cert]
    BY <2>1, ReserveType
  <2>. QED
    BY <1>7, <2>3, <2>4 DEF PrepareResult, Take, StateTypeOK, AgentTypeOK
<1>. QED
  BY <1>2, <1>3, <1>4, <1>5, <1>6, <1>7

LEMMA CommitStepType ==
  ASSUME StateTypeOK, AgentTypeOK, NEW k \in commits, CommitResult(k)
  PROVE  StateTypeOK' /\ AgentTypeOK'
<1>1. k \in Commit /\ k.job \in JobIds /\ k.cert \in Certs /\ k.record \in Cert
  BY DEF AgentTypeOK, Commit
<1>2. AgentTypeOK'
  BY DEF CommitResult, AgentTypeOK
<1>3. CASE CompletesWith(k.job, k.cert, Stored(k)) /\ running' = [running EXCEPT ![k.node] = NoJob] /\ UNCHANGED revoked
  <2>1. Stored(k) \in [Certs -> Cert]
    BY <1>1 DEF Stored, StateTypeOK
  <2>2. StateTypeOKNext
    BY <1>1, <1>3, <2>1, CompletesWithType DEF AnyCert
  <2>. QED
    BY <1>2, <1>3, <2>2, ConstantFacts DEF StateTypeOK, StateTypeOKNext
<1>4. CASE UNCHANGED stateVars
  BY <1>2, <1>4 DEF StateTypeOK, stateVars
<1>. QED
  BY <1>3, <1>4 DEF CommitResult

LEMMA AgentNextType ==
  ASSUME StateTypeOK, AgentTypeOK, AgentNext
  PROVE  StateTypeOK' /\ AgentTypeOK'
<1>1. ASSUME NEW n \in Nodes,
             \/ PollObserves(n) \/ PollFindsNothing(n)
             \/ PostResult(n) \/ AgentCrash(n) \/ Unregister(n)
      PROVE  StateTypeOK' /\ AgentTypeOK'
  BY <1>1, PollType, AgentStepType
<1>2. ASSUME NEW n \in Nodes, NEW h \in Handlers,
             PollRedelivers(n, h) \/ PollAdopts(n, h) \/ PollDispatches(n, h)
      PROVE  StateTypeOK' /\ AgentTypeOK'
  BY <1>2, PollServedType
<1>3. ASSUME NEW h \in Handlers, Respond(h) \/ CannotBuild(h) \/ FailDispatch(h) \/ GiveUp(h)
      PROVE  StateTypeOK' /\ AgentTypeOK'
  BY <1>3, HandlerStepType
<1>4. ASSUME NEW r \in results,
             \/ LoseResult(r) \/ ResultChangesNothing(r) \/ ResultAwaitsVersion(r)
             \/ ResultFails(r) \/ ResultSucceeds(r) \/ PrepareResult(r)
      PROVE  StateTypeOK' /\ AgentTypeOK'
  BY <1>4, ResultStepType
<1>5. ASSUME NEW k \in commits, CommitResult(k)
      PROVE  StateTypeOK' /\ AgentTypeOK'
  BY <1>5, CommitStepType
<1>. QED
  BY <1>1, <1>2, <1>3, <1>4, <1>5 DEF AgentNext
-----------------------------------------------------------------------------
(* Steps of the certificate worker *)

LEMMA IssuerNextType ==
  ASSUME StateTypeOK, IssuerTypeOK, IssuerNext
  PROVE  StateTypeOK' /\ IssuerTypeOK'
<1>1. /\ issuer.job \in JobIds /\ issuer.copy \in Job /\ issuer.record \in Cert
      /\ issuer.cert \in AnyCert /\ issuer \in Worker
  BY DEF IssuerTypeOK, Worker, AnyCert
<1>2. ASSUME NEW j \in JobIds, IssuerStart(j)
      PROVE  StateTypeOK' /\ IssuerTypeOK'
  <2>1. jobs[j] \in Job /\ jobs[j].attempts + 1 \in Nat /\ Dispatched(jobs[j]) \in Job
    BY StatusChangeType DEF StateTypeOK, Job
  <2>2. [Free EXCEPT !.stage = "picked", !.job = j, !.attempt = jobs[j].attempts + 1,
                     !.copy = jobs[j]] \in Worker
    BY <2>1, HandlerConstants DEF Worker
  <2>3. IssuerTypeOK'
    BY <1>2, <2>2 DEF IssuerStart, IssuerTypeOK
  <2>4. jobs' \in [JobIds -> Job] /\ running' \in [Nodes -> JobIds]
    BY <1>2, <2>1, ConstantFacts DEF IssuerStart, StateTypeOK
  <2>. QED
    BY <1>2, <2>3, <2>4 DEF IssuerStart, StateTypeOK
<1>3. CASE IssuerObtains
  <2>1. PICK c \in Certs, sans \in SUBSET Domains :
          /\ certs' = Reserve(c)
          /\ issuer' = [issuer EXCEPT !.stage = "issued", !.cert = c,
                                      !.record = PreparedRecord(issuer.copy, c, sans)]
    BY <1>3 DEF IssuerObtains
  <2>2. PreparedRecord(issuer.copy, c, sans) \in Cert
    BY <1>1, PreparedRecordType
  <2>3. IssuerTypeOK'
    BY <1>1, <2>1, <2>2 DEF IssuerTypeOK, Worker
  <2>4. certs' \in [Certs -> Cert]
    BY <2>1, ReserveType
  <2>. QED
    BY <1>3, <2>3, <2>4 DEF IssuerObtains, StateTypeOK
<1>4. CASE IssuerResolves \/ IssuerFails
  <2>1. UNCHANGED stateVars
    BY <1>4 DEF IssuerResolves, IssuerFails
  <2>2. issuer' = [issuer EXCEPT !.stage = "issuing"] \/ issuer' = [issuer EXCEPT !.stage = "failed"]
    BY <1>4 DEF IssuerResolves, IssuerFails
  <2>. QED
    BY <1>1, <2>1, <2>2 DEF IssuerTypeOK, Worker, StateTypeOK, stateVars
<1>5. CASE IssuerCommits
  <2>1. IssuerTypeOK'
    BY <1>5, HandlerConstants DEF IssuerCommits, IssuerTypeOK
  <2>2. CASE UNCHANGED stateVars
    BY <2>1, <2>2 DEF StateTypeOK, stateVars
  <2>3. CASE /\ CompletesWith(issuer.job, issuer.cert, [certs EXCEPT ![issuer.cert] = issuer.record])
             /\ UNCHANGED <<running, revoked>>
    <3>1. [certs EXCEPT ![issuer.cert] = issuer.record] \in [Certs -> Cert]
      BY <1>1 DEF StateTypeOK
    <3>2. StateTypeOKNext
      BY <1>1, <2>3, <3>1, CompletesWithType
    <3>. QED
      BY <2>1, <2>3, <3>2 DEF StateTypeOK, StateTypeOKNext
  <2>. QED
    BY <1>5, <2>2, <2>3 DEF IssuerCommits
<1>6. CASE IssuerReportsFailure
  <2>1. IssuerTypeOK'
    BY <1>6, HandlerConstants DEF IssuerReportsFailure, IssuerTypeOK
  <2>2. \/ UNCHANGED jobs
        \/ jobs' = [jobs EXCEPT ![issuer.job] = Requeue(jobs[issuer.job])]
        \/ jobs' = [jobs EXCEPT ![issuer.job] = Fail(jobs[issuer.job])]
    BY <1>6 DEF IssuerReportsFailure
  <2>3. jobs' \in [JobIds -> Job]
    BY <1>1, <2>2, StatusChangeType DEF StateTypeOK
  <2>. QED
    BY <1>6, <2>1, <2>3 DEF IssuerReportsFailure, StateTypeOK
<1>. QED
  BY <1>2, <1>3, <1>4, <1>5, <1>6 DEF IssuerNext

-----------------------------------------------------------------------------
(* Steps of the scheduler *)

LEMMA TimeType ==
  ASSUME StateTypeOK, NEW j \in JobIds, TimePasses(j)
  PROVE  StateTypeOK'
<1>1. [jobs[j] EXCEPT !.overdue = TRUE] \in Job
  <2>1. jobs[j] \in Job
    BY DEF StateTypeOK
  <2>. QED
    BY <2>1 DEF Job
<1>2. jobs' = [jobs EXCEPT ![j] = [jobs[j] EXCEPT !.overdue = TRUE]]
  BY DEF TimePasses
<1>3. jobs' \in [JobIds -> Job]
  BY <1>1, <1>2 DEF StateTypeOK
<1>. QED
  BY <1>3 DEF TimePasses, StateTypeOK

LEMMA AgeType ==
  ASSUME StateTypeOK, NEW c \in Certs, CertificateAges(c)
  PROVE  StateTypeOK'
<1>1. [certs[c] EXCEPT !.due = TRUE] \in Cert
  BY DEF StateTypeOK, Cert
<1>2. certs' = [certs EXCEPT ![c] = [certs[c] EXCEPT !.due = TRUE]]
  BY DEF CertificateAges
<1>3. certs' \in [Certs -> Cert]
  BY <1>1, <1>2 DEF StateTypeOK
<1>. QED
  BY <1>3 DEF CertificateAges, StateTypeOK

LEMMA NewJobsType ==
  ASSUME StateTypeOK, NEW F \in SUBSET JobIds
  PROVE  NewJobs(AfterTimeouts, F) \in SUBSET Job
<1>1. \A j \in F : Recovery(j) \in Job
  <2>. SUFFICES ASSUME NEW j \in F PROVE Recovery(j) \in Job
    OBVIOUS
  <2>1. jobs[j].node \in AnyNode /\ jobs[j].domain \in AnyDomain /\ jobs[j].cert \in AnyCert
    BY DEF StateTypeOK, Job, AnyNode, AnyDomain, AnyCert
  <2>2. SyncJob(jobs[j].node, jobs[j].domain, jobs[j].cert) \in Job
    BY <2>1, SyncJobType
  <2>. QED
    BY <2>2 DEF Recovery, Job
<1>2. \A d \in DomainsToRenew(AfterTimeouts) : DomainIssueJob(domains[d].node, d) \in Job
  BY DomainIssueJobType DEF DomainsToRenew, StateTypeOK, Domain, AnyNode
<1>3. \A c \in CertsToRenew(AfterTimeouts) : Renewal(c) \in Job
  <2>. SUFFICES ASSUME NEW c \in Certs PROVE Renewal(c) \in Job
    BY DEF CertsToRenew
  <2>1. /\ certs[c].issuer \in AnyNode
        /\ certs[c].name \in AnyDomain
        /\ certs[c].deployed \cup {certs[c].issuer} \in SUBSET AnyNode
    BY DEF StateTypeOK, Cert, AnyNode, AnyDomain
  <2>. QED
    BY <2>1, CertIssueJobType DEF Renewal, AnyCert
<1>. QED
  BY <1>1, <1>2, <1>3 DEF NewJobs

LEMMA AfterTimeoutsType ==
  ASSUME StateTypeOK
  PROVE  AfterTimeouts \in [JobIds -> Job]
BY StatusChangeType DEF AfterTimeouts, StateTypeOK

LEMMA RecoveredType ==
  ASSUME NEW J \in [JobIds -> Job], NEW at, DOMAIN at \subseteq JobIds
  PROVE  Recovered(J, at) \in [JobIds -> Job]
<1>1. \A j, i \in JobIds : [J[j] EXCEPT !.retryJob = i] \in Job
  BY DEF Job
<1>. QED
  BY <1>1 DEF Recovered

LEMMA ScheduledType ==
  ASSUME NEW D \in [Domains -> Domain], NEW at, DOMAIN at \subseteq JobIds
  PROVE  Scheduled(D, at) \in [Domains -> Domain]
<1>1. \A d \in Domains : \A i \in JobIds : [D[d] EXCEPT !.lastJob = i] \in Domain
  BY DEF Domain
<1>. QED
  BY <1>1 DEF Scheduled

LEMMA MaintenanceType ==
  ASSUME StateTypeOK, Maintenance
  PROVE  StateTypeOK'
<1>. DEFINE A == AfterTimeouts
<1>1. PICK F \in Recoveries(A) :
        \E last \in lastId..MaxJobs : \E at \in Numberings(NewJobs(A, F), last) :
          /\ jobs' = AddJobs(Recovered(A, at), at)
          /\ lastId' = last
          /\ domains' = Scheduled(TimedOutDeletions, at)
  BY DEF Maintenance
<1>2. PICK last \in lastId..MaxJobs :
        \E at \in Numberings(NewJobs(A, F), last) :
          /\ jobs' = AddJobs(Recovered(A, at), at)
          /\ lastId' = last
          /\ domains' = Scheduled(TimedOutDeletions, at)
  BY <1>1
<1>3. PICK at \in Numberings(NewJobs(A, F), last) :
          /\ jobs' = AddJobs(Recovered(A, at), at)
          /\ lastId' = last
          /\ domains' = Scheduled(TimedOutDeletions, at)
  BY <1>2
<1>4. A \in [JobIds -> Job]
  BY AfterTimeoutsType
<1>5. NewJobs(A, F) \in SUBSET Job
  <2>1. F \in SUBSET JobIds
    BY DEF Recoveries, Recoverable
  <2>. QED
    BY <2>1, NewJobsType
<1>. HIDE DEF A
<1>6. DOMAIN at \subseteq JobIds /\ last \in JobIds
  BY <1>4, <1>5, AddJobsType DEF StateTypeOK
<1>7. Recovered(A, at) \in [JobIds -> Job]
  BY <1>4, <1>6, RecoveredType
<1>8. jobs' \in [JobIds -> Job] /\ lastId' \in JobIds
  BY <1>3, <1>5, <1>6, <1>7, AddJobsType DEF StateTypeOK
<1>9. domains' \in [Domains -> Domain]
  <2>1. TimedOutDeletions \in [Domains -> Domain]
    BY RestoreDeletionsType DEF TimedOutDeletions, StateTypeOK
  <2>. QED
    BY <1>3, <1>6, <2>1, ScheduledType
<1>10. running' \in [Nodes -> JobIds] /\ UNCHANGED <<revoked, certs>>
  BY ConstantFacts DEF Maintenance, StateTypeOK
<1>. QED
  BY <1>8, <1>9, <1>10 DEF StateTypeOK
-----------------------------------------------------------------------------
(* The administrator's requests *)

\* What the requests that change domains choose from.
LEMMA MakeRenewType ==
  ASSUME StateTypeOK, NEW c \in AnyCert, NEW wanted \in BOOLEAN
  PROVE  MakeRenew(c, wanted) \in [Certs -> Cert]
<1>1. CASE c # NoCert /\ wanted
  <2>1. c \in Certs /\ [certs[c] EXCEPT !.renew = TRUE, !.acct = TRUE] \in Cert
    BY <1>1 DEF AnyCert, StateTypeOK, Cert
  <2>2. MakeRenew(c, wanted) = [certs EXCEPT ![c] = [certs[c] EXCEPT !.renew = TRUE, !.acct = TRUE]]
    BY <1>1 DEF MakeRenew
  <2>. QED
    BY <2>1, <2>2 DEF StateTypeOK
<1>2. CASE ~(c # NoCert /\ wanted)
  BY <1>2 DEF MakeRenew, StateTypeOK
<1>. QED
  BY <1>1, <1>2

LEMMA CreateDomainType ==
  ASSUME StateTypeOK, NEW d \in Domains, NEW n \in Nodes, NEW m \in Modes, NEW c \in AnyCert,
         NEW rn \in BOOLEAN, NEW S \in SUBSET Nodes, CreateDomain(d, n, m, c, rn, S)
  PROVE  StateTypeOK'
<1>1. (IF m = "acme" THEN DomainIssueJob(n, d) ELSE ApplyJob(n, d, c, m = "local")) \in Job
  BY DomainIssueJobType, ApplyJobType DEF AnyNode, AnyDomain
<1>2. jobs' \in [JobIds -> Job] /\ lastId' \in JobIds /\ NextId \in JobIds
  BY <1>1, EnqueueOneType DEF CreateDomain, StateTypeOK
<1>3. [UnusedDomain EXCEPT !.state = "live", !.node = n, !.mode = m, !.cert = c,
                           !.acct = (m = "acme" \/ rn), !.renew = rn,
                           !.syncs = S \ {n}, !.lastJob = NextId] \in Domain
  <2>1. (m = "acme" \/ rn) \in BOOLEAN /\ S \ {n} \in SUBSET Nodes
    OBVIOUS
  <2>. QED
    BY <1>2, <2>1 DEF UnusedDomain, Domain, Lives, AnyCert
<1>4. domains' \in [Domains -> Domain]
  BY <1>3 DEF CreateDomain, StateTypeOK
<1>5. certs' \in [Certs -> Cert]
  BY MakeRenewType DEF CreateDomain
<1>. QED
  BY <1>2, <1>4, <1>5 DEF CreateDomain, StateTypeOK

LEMMA AdoptDomainType ==
  ASSUME StateTypeOK, NEW d \in Domains, NEW n \in Nodes, NEW takeover \in BOOLEAN,
         NEW tls \in BOOLEAN, AdoptDomain(d, n, takeover, tls)
  PROVE  StateTypeOK'
<1>. DEFINE adopted == [UnusedDomain EXCEPT !.state = "live", !.node = n,
                          !.mode = IF tls THEN "local" ELSE "none",
                          !.observed = ~takeover, !.enabled = TRUE]
<1>1. adopted \in Domain /\ \A i \in JobIds : [adopted EXCEPT !.lastJob = i] \in Domain
  <2>1. (IF tls THEN "local" ELSE "none") \in Modes /\ (~takeover) \in BOOLEAN
    BY DEF Modes
  <2>. QED
    BY <2>1, ConstantFacts DEF UnusedDomain, Domain, Lives
<1>2. ApplyJob(n, d, NoCert, tls) \in Job /\ NewJob("capture", n, d) \in Job
  BY ApplyJobType, NewJobType DEF AnyNode, AnyDomain, AnyCert, JobTypes
<1>3. \/ /\ EnqueueOne(jobs, ApplyJob(n, d, NoCert, tls)) \/ EnqueueOne(jobs, NewJob("capture", n, d))
         /\ domains' = [domains EXCEPT ![d] = [adopted EXCEPT !.lastJob = NextId]]
      \/ /\ domains' = [domains EXCEPT ![d] = adopted]
         /\ UNCHANGED <<jobs, lastId>>
  BY DEF AdoptDomain
<1>. HIDE DEF adopted
<1>4. jobs' \in [JobIds -> Job] /\ lastId' \in JobIds /\ domains' \in [Domains -> Domain]
  BY <1>1, <1>2, <1>3, EnqueueOneType DEF StateTypeOK
<1>. QED
  BY <1>4 DEF AdoptDomain, StateTypeOK

LEMMA DeleteDomainType ==
  ASSUME StateTypeOK, NEW d \in Domains, DeleteDomain(d)
  PROVE  StateTypeOK'
<1>1. CASE Forgettable(d) /\ domains' = [domains EXCEPT ![d] = RemovedDomain] /\ UNCHANGED <<jobs, lastId>>
  BY <1>1, DomainConstants DEF DeleteDomain, StateTypeOK
<1>2. CASE /\ EnqueueOne(jobs, NewJob("delete", domains[d].node, d))
           /\ domains' = [domains EXCEPT ![d] =
                [domains[d] EXCEPT !.enabled = FALSE, !.deleting = TRUE, !.lastJob = NextId]]
  <2>1. NewJob("delete", domains[d].node, d) \in Job
    BY NewJobType DEF StateTypeOK, Domain, AnyNode, AnyDomain, JobTypes
  <2>2. jobs' \in [JobIds -> Job] /\ lastId' \in JobIds /\ NextId \in JobIds
    BY <1>2, <2>1, EnqueueOneType DEF StateTypeOK
  <2>3. [domains[d] EXCEPT !.enabled = FALSE, !.deleting = TRUE, !.lastJob = NextId] \in Domain
    BY <2>2 DEF StateTypeOK, Domain
  <2>4. domains' \in [Domains -> Domain]
    BY <1>2, <2>3 DEF StateTypeOK
  <2>. QED
    BY <2>2, <2>4 DEF DeleteDomain, StateTypeOK
<1>. QED
  BY <1>1, <1>2 DEF DeleteDomain

LEMMA UpdateDomainType ==
  ASSUME StateTypeOK, NEW d \in Domains, NEW n \in Nodes, NEW m \in Modes, NEW c \in AnyCert,
         NEW rn \in BOOLEAN, NEW S \in SUBSET Nodes, UpdateDomain(d, n, m, c, rn, S)
  PROVE  StateTypeOK'
<1>. DEFINE cert   == EditedCert(d, m, c)
            edited == [domains[d] EXCEPT !.node = n, !.mode = m, !.cert = cert,
                         !.acct = (m = "acme" \/ rn), !.renew = rn, !.syncs = S \ {n},
                         !.enabled = TRUE, !.deleting = FALSE]
            job    == IF m = "acme" /\ cert = NoCert THEN DomainIssueJob(n, d)
                      ELSE ApplyJob(n, d, IF m = "local" THEN NoCert ELSE cert, m = "local")
<1>1. domains[d] \in Domain
  BY DEF StateTypeOK
<1>2. cert \in AnyCert
  BY <1>1 DEF EditedCert, Modes, Domain, AnyCert
<1>3. \/ domains' = [domains EXCEPT ![d] = edited] /\ UNCHANGED <<jobs, lastId>>
      \/ EnqueueOne(jobs, job) /\ domains' = [domains EXCEPT ![d] = [edited EXCEPT !.lastJob = NextId]]
  BY DEF UpdateDomain
<1>4. certs' = MakeRenew(cert, rn) /\ UNCHANGED <<running, revoked>>
  BY DEF UpdateDomain
<1>. HIDE DEF cert
<1>5. edited \in Domain /\ \A i \in JobIds : [edited EXCEPT !.lastJob = i] \in Domain
  <2>1. (m = "acme" \/ rn) \in BOOLEAN /\ S \ {n} \in SUBSET Nodes
    OBVIOUS
  <2>. QED
    BY <1>1, <1>2, <2>1 DEF Domain, AnyCert
<1>6. job \in Job
  <2>1. DomainIssueJob(n, d) \in Job
    BY DomainIssueJobType DEF AnyNode
  <2>2. (IF m = "local" THEN NoCert ELSE cert) \in AnyCert
    BY <1>2 DEF AnyCert
  <2>3. ApplyJob(n, d, IF m = "local" THEN NoCert ELSE cert, m = "local") \in Job
    BY <2>2, ApplyJobType DEF AnyNode, AnyDomain
  <2>. QED
    BY <2>1, <2>3
<1>. HIDE DEF edited, job
<1>7. jobs' \in [JobIds -> Job] /\ lastId' \in JobIds /\ domains' \in [Domains -> Domain]
  BY <1>3, <1>5, <1>6, EnqueueOneType DEF StateTypeOK
<1>8. certs' \in [Certs -> Cert]
  BY <1>2, <1>4, MakeRenewType
<1>. QED
  BY <1>4, <1>7, <1>8 DEF StateTypeOK

\* Requests that enqueue one job and note it in the domain.
LEMMA NotedJobType ==
  ASSUME StateTypeOK, NEW d \in Domains, NEW rec \in Job, EnqueueOne(jobs, rec),
         domains' = [domains EXCEPT ![d].lastJob = NextId]
  PROVE  jobs' \in [JobIds -> Job] /\ lastId' \in JobIds /\ domains' \in [Domains -> Domain]
<1>1. jobs' \in [JobIds -> Job] /\ lastId' \in JobIds /\ NextId \in JobIds
  BY EnqueueOneType DEF StateTypeOK
<1>2. [domains[d] EXCEPT !.lastJob = NextId] \in Domain
  BY <1>1 DEF StateTypeOK, Domain
<1>3. domains' = [domains EXCEPT ![d] = [domains[d] EXCEPT !.lastJob = NextId]]
  OBVIOUS
<1>4. domains' \in [Domains -> Domain]
  BY <1>2, <1>3 DEF StateTypeOK
<1>. QED
  BY <1>1, <1>4

LEMMA UpdateDomainConfigType ==
  ASSUME StateTypeOK, NEW d \in Domains, NEW config \in {"generated", "custom"},
         UpdateDomainConfig(d, config)
  PROVE  StateTypeOK'
<1>. DEFINE cert == IF domains[d].mode \in {"acme", "upload"} THEN domains[d].cert ELSE NoCert
            job  == [ApplyJob(domains[d].node, d, cert, FALSE) EXCEPT !.config = config]
<1>1. job \in Job
  <2>1. domains[d].node \in AnyNode /\ cert \in AnyCert
    BY DEF StateTypeOK, Domain, AnyNode, AnyCert
  <2>2. ApplyJob(domains[d].node, d, cert, FALSE) \in Job
    BY <2>1, ApplyJobType DEF AnyDomain
  <2>. QED
    BY <2>2 DEF Job
<1>2. EnqueueOne(jobs, job) /\ domains' = [domains EXCEPT ![d].lastJob = NextId]
  BY DEF UpdateDomainConfig
<1>. HIDE DEF job
<1>. QED
  BY <1>1, <1>2, NotedJobType DEF UpdateDomainConfig, StateTypeOK
LEMMA RetryJobType ==
  ASSUME StateTypeOK, AdminTypeOK, NEW i \in JobIds, RetryJob(i)
  PROVE  StateTypeOK'
<1>. DEFINE j == retrying[i]
            d == jobs[j].domain
<1>1. j \in JobIds /\ jobs[j] \in Job
  BY DEF StateTypeOK, AdminTypeOK
<1>2. Retry(j) \in Job /\ [jobs[j] EXCEPT !.retryJob = i] \in Job
  BY <1>1, ConstantFacts DEF Retry, Job, Statuses
<1>3. jobs' = [[jobs EXCEPT ![j] = [jobs[j] EXCEPT !.retryJob = i]] EXCEPT ![i] = Retry(j)]
  BY DEF RetryJob
<1>5. jobs' \in [JobIds -> Job] /\ UNCHANGED lastId
  BY <1>2, <1>3 DEF StateTypeOK, RetryJob
<1>6. domains' \in [Domains -> Domain]
  <2>1. CASE domains' = domains
    BY <2>1 DEF StateTypeOK
  <2>2. CASE LiveDomain(d) /\ domains' = [domains EXCEPT ![d] =
               [domains[d] EXCEPT !.lastJob = i, !.deleting = TRUE, !.enabled = FALSE]]
    <3>1. d \in Domains /\ domains[d] \in Domain
      BY <2>2 DEF LiveDomain, StateTypeOK
    <3>2. [domains[d] EXCEPT !.lastJob = i, !.deleting = TRUE, !.enabled = FALSE] \in Domain
      BY <3>1 DEF Domain
    <3>. QED
      BY <2>2, <3>2 DEF StateTypeOK
  <2>3. CASE LiveDomain(d) /\ domains' = [domains EXCEPT ![d].lastJob = i]
    <3>1. d \in Domains /\ domains[d] \in Domain
      BY <2>3 DEF LiveDomain, StateTypeOK
    <3>2. [domains[d] EXCEPT !.lastJob = i] \in Domain
      BY <3>1 DEF Domain
    <3>. QED
      BY <2>3, <3>2 DEF StateTypeOK
  <2>. QED
    BY <2>1, <2>2, <2>3 DEF RetryJob
<1>. QED
  BY <1>5, <1>6 DEF RetryJob, StateTypeOK

LEMMA RetryRequestType ==
  ASSUME StateTypeOK, AdminTypeOK, RetryRequests
  PROVE  StateTypeOK' /\ AdminTypeOK'
<1>1. PICK i \in JobIds : ReceiveRetry(i) \/ RetryJob(i) \/ RefuseRetry(i)
  BY DEF RetryRequests
<1>2. AdminTypeOK'
  <2>1. \/ retrying' = [retrying EXCEPT ![NextId] = i]
        \/ retrying' = [retrying EXCEPT ![i] = NoJob]
    BY <1>1 DEF ReceiveRetry, RetryJob, RefuseRetry
  <2>. QED
    BY <2>1, ConstantFacts DEF AdminTypeOK
<1>3. CASE ReceiveRetry(i)
  BY <1>2, <1>3 DEF ReceiveRetry, StateTypeOK
<1>4. CASE RefuseRetry(i)
  BY <1>2, <1>4 DEF RefuseRetry, StateTypeOK, stateVars
<1>. QED
  BY <1>1, <1>2, <1>3, <1>4, RetryJobType

LEMMA ClearPendingType ==
  ASSUME StateTypeOK, ClearPending
  PROVE  StateTypeOK'
<1>1. jobs' \in [JobIds -> Job] /\ running' \in [Nodes -> JobIds]
  BY ConstantFacts DEF ClearPending, StateTypeOK
<1>2. domains' \in [Domains -> Domain]
  <2>1. \A d \in Domains :
          /\ [domains[d] EXCEPT !.lastJob = NoJob, !.deleting = FALSE, !.enabled = TRUE] \in Domain
          /\ [domains[d] EXCEPT !.lastJob = NoJob] \in Domain
    BY ConstantFacts DEF StateTypeOK, Domain
  <2>2. domains' = [d \in Domains |->
          IF ~LiveDomain(d) \/ domains[d].lastJob \notin Clearable THEN domains[d]
          ELSE IF jobs[domains[d].lastJob].type = "delete"
            THEN [domains[d] EXCEPT !.lastJob = NoJob, !.deleting = FALSE, !.enabled = TRUE]
            ELSE [domains[d] EXCEPT !.lastJob = NoJob]]
    BY DEF ClearPending
  <2>. QED
    BY <2>1, <2>2 DEF StateTypeOK
<1>. QED
  BY <1>1, <1>2 DEF ClearPending, StateTypeOK

LEMMA NodeRequestType ==
  ASSUME StateTypeOK,
         \/ \E n \in Nodes : \E type \in {"update", "system"} : UpdateNode(n, type)
         \/ \E S \in SUBSET Nodes : RevokeNodes(S)
  PROVE  StateTypeOK'
<1>1. ASSUME NEW n \in Nodes, NEW type \in {"update", "system"}, UpdateNode(n, type)
      PROVE  StateTypeOK'
  <2>1. NewJob(type, n, NoDomain) \in Job
    BY NewJobType DEF AnyNode, AnyDomain, JobTypes
  <2>2. jobs' \in [JobIds -> Job] /\ lastId' \in JobIds
    BY <1>1, <2>1, EnqueueOneType DEF UpdateNode, StateTypeOK
  <2>. QED
    BY <1>1, <2>2 DEF UpdateNode, StateTypeOK
<1>2. ASSUME NEW S \in SUBSET Nodes, RevokeNodes(S)
      PROVE  StateTypeOK'
  BY <1>2, RevokesType DEF RevokeNodes
<1>. QED
  BY <1>1, <1>2

LEMMA UploadCertificateType ==
  ASSUME StateTypeOK, NEW c \in Certs, NEW name \in Domains, NEW sans \in SUBSET Domains,
         NEW n \in AnyNode, NEW rn \in BOOLEAN, NEW S \in SUBSET Nodes,
         UploadCertificate(c, name, sans, n, rn, S)
  PROVE  StateTypeOK'
<1>1. [UnusedCert EXCEPT !.state = "live", !.name = name, !.sans = sans,
                         !.issuer = n, !.acct = rn, !.renew = rn] \in Cert
  BY DEF UnusedCert, Cert, Lives, AnyNode
<1>2. certs' \in [Certs -> Cert]
  BY <1>1 DEF UploadCertificate, StateTypeOK
<1>3. Syncs(S, NoDomain, c) \in SUBSET Job
  BY SyncsType DEF AnyNode, AnyDomain, AnyCert
<1>4. jobs' \in [JobIds -> Job] /\ lastId' \in JobIds
  BY <1>3, EnqueueAllType DEF UploadCertificate, StateTypeOK
<1>. QED
  BY <1>2, <1>4 DEF UploadCertificate, StateTypeOK

LEMMA IssueImportType ==
  ASSUME StateTypeOK, NEW n \in Nodes, NEW c \in AnyCert, NEW name \in Domains,
         NEW rn \in BOOLEAN, NEW S \in SUBSET Nodes,
         IssueCertificate(n, c, name, rn, S) \/ ImportCertificate(n, c, name, rn, S)
  PROVE  StateTypeOK'
<1>1. CertIssueJob(n, c, name, rn, S \cup {n}) \in Job
  BY CertIssueJobType DEF AnyNode, AnyDomain
<1>2. [NewJob("capture", n, NoDomain) EXCEPT
         !.cert = c, !.name = name, !.renew = rn, !.targets = S \ {n}] \in Job
  <2>1. NewJob("capture", n, NoDomain) \in Job
    BY NewJobType DEF AnyNode, AnyDomain, JobTypes
  <2>2. S \ {n} \in SUBSET (Nodes \cup {NoNode}) /\ c \in Certs \cup {NoCert}
    BY DEF AnyCert
  <2>. QED
    BY <2>1, <2>2 DEF Job
<1>3. jobs' \in [JobIds -> Job] /\ lastId' \in JobIds
  BY <1>1, <1>2, EnqueueOneType DEF IssueCertificate, ImportCertificate, StateTypeOK
<1>. QED
  BY <1>3 DEF IssueCertificate, ImportCertificate, StateTypeOK

LEMMA CertificateRequestType ==
  ASSUME StateTypeOK, NEW c \in Certs,
         \/ DeleteCertificate(c) \/ RenewCertificate(c)
         \/ \E S \in TargetSets : SyncCertificate(c, S)
  PROVE  StateTypeOK'
<1>1. CASE DeleteCertificate(c)
  BY <1>1, CertConstants DEF DeleteCertificate, StateTypeOK
<1>2. CASE RenewCertificate(c)
  <2>. DEFINE d == certs[c].name
  <2>1. certs[c] \in Cert
    BY DEF StateTypeOK
  <2>2. CASE LiveDomain(d) /\ EnqueueOne(jobs, DomainIssueJob(domains[d].node, d))
              /\ domains' = [domains EXCEPT ![d].lastJob = NextId]
    <3>1. d \in Domains
      BY <2>2 DEF LiveDomain
    <3>2. DomainIssueJob(domains[d].node, d) \in Job
      <4>1. domains[d].node \in AnyNode
        BY <3>1 DEF StateTypeOK, Domain, AnyNode
      <4>. QED
        BY <3>1, <4>1, DomainIssueJobType
    <3>. QED
      BY <1>2, <2>2, <3>1, <3>2, NotedJobType DEF RenewCertificate, StateTypeOK
  <2>3. CASE EnqueueOne(jobs, CertIssueJob(certs[c].issuer, c, d, certs[c].renew,
                                           certs[c].deployed \cup {certs[c].issuer}))
              /\ UNCHANGED domains
    <3>1. CertIssueJob(certs[c].issuer, c, d, certs[c].renew,
                       certs[c].deployed \cup {certs[c].issuer}) \in Job
      <4>1. /\ certs[c].issuer \in AnyNode /\ d \in AnyDomain /\ certs[c].renew \in BOOLEAN
            /\ certs[c].deployed \cup {certs[c].issuer} \in SUBSET AnyNode
        BY <2>1 DEF Cert, AnyNode, AnyDomain
      <4>. QED
        BY <4>1, CertIssueJobType DEF AnyCert
    <3>2. jobs' \in [JobIds -> Job] /\ lastId' \in JobIds
      BY <2>3, <3>1, EnqueueOneType DEF StateTypeOK
    <3>. QED
      BY <1>2, <2>3, <3>2 DEF RenewCertificate, StateTypeOK
  <2>. QED
    BY <1>2, <2>2, <2>3 DEF RenewCertificate
<1>3. ASSUME NEW S \in TargetSets, SyncCertificate(c, S)
      PROVE  StateTypeOK'
  <2>1. Syncs(S, NoDomain, c) \in SUBSET Job
    BY SyncsType DEF TargetSets, AnyNode, AnyDomain, AnyCert
  <2>2. jobs' \in [JobIds -> Job] /\ lastId' \in JobIds
    BY <1>3, <2>1, EnqueueAllType DEF SyncCertificate, StateTypeOK
  <2>. QED
    BY <1>3, <2>2 DEF SyncCertificate, StateTypeOK
<1>. QED
  BY <1>1, <1>2, <1>3

LEMMA AutomationType ==
  ASSUME StateTypeOK, NEW c \in Certs,
         \/ \E enabled \in BOOLEAN : SetCertificateAutoRenew(c, enabled)
         \/ \E n \in AnyNode, rn \in BOOLEAN : UpdateCertificateAutomation(c, n, rn)
  PROVE  StateTypeOK'
<1>1. certs[c] \in Cert
  BY DEF StateTypeOK
<1>2. ASSUME NEW enabled \in BOOLEAN, SetCertificateAutoRenew(c, enabled)
      PROVE  StateTypeOK'
  <2>. DEFINE n == IF enabled THEN SigningNode(c) ELSE certs[c].issuer
              on(d) == /\ enabled /\ d = certs[c].name
                       /\ domains[d].node = n /\ domains[d].acct
  <2>1. n \in AnyNode
    <3>1. SigningNode(c) \in AnyNode
      BY <1>1 DEF SigningNode, LiveDomain, StateTypeOK, Cert, Domain, AnyNode
    <3>. QED
      BY <1>1, <3>1 DEF Cert, AnyNode
  <2>2. /\ certs' = [certs EXCEPT ![c] =
             [certs[c] EXCEPT !.renew = enabled, !.issuer = n, !.acct = enabled \/ certs[c].acct]]
        /\ domains' = [d \in Domains |->
             IF ~LiveDomain(d) \/ domains[d].cert # c THEN domains[d]
             ELSE [domains[d] EXCEPT !.renew = on(d)]]
    BY <1>2 DEF SetCertificateAutoRenew
  <2>3. \A d \in Domains : on(d) \in BOOLEAN
    OBVIOUS
  <2>. HIDE DEF n, on
  <2>4. certs' \in [Certs -> Cert]
    <3>1. (enabled \/ certs[c].acct) \in BOOLEAN
      BY <1>1 DEF Cert
    <3>2. [certs[c] EXCEPT !.renew = enabled, !.issuer = n, !.acct = enabled \/ certs[c].acct] \in Cert
      BY <1>1, <2>1, <3>1 DEF Cert, AnyNode
    <3>. QED
      BY <2>2, <3>2 DEF StateTypeOK
  <2>5. domains' \in [Domains -> Domain]
    <3>1. \A d \in Domains : \A b \in BOOLEAN : [domains[d] EXCEPT !.renew = b] \in Domain
      BY DEF StateTypeOK, Domain
    <3>. QED
      BY <2>2, <2>3, <3>1 DEF StateTypeOK
  <2>. QED
    BY <1>2, <2>4, <2>5 DEF SetCertificateAutoRenew, StateTypeOK
<1>3. ASSUME NEW n \in AnyNode, NEW rn \in BOOLEAN, UpdateCertificateAutomation(c, n, rn)
      PROVE  StateTypeOK'
  <2>. DEFINE on(d) == rn /\ domains[d].node = n
  <2>1. /\ certs' = [certs EXCEPT ![c] = [certs[c] EXCEPT !.issuer = n, !.acct = TRUE, !.renew = rn]]
        /\ domains' = [d \in Domains |->
             IF ~LiveDomain(d) \/ domains[d].cert # c \/ d # certs[c].name THEN domains[d]
             ELSE [domains[d] EXCEPT !.acct = TRUE, !.renew = on(d)]]
    BY <1>3 DEF UpdateCertificateAutomation
  <2>2. \A d \in Domains : on(d) \in BOOLEAN
    OBVIOUS
  <2>. HIDE DEF on
  <2>3. [certs[c] EXCEPT !.issuer = n, !.acct = TRUE, !.renew = rn] \in Cert
    BY <1>1 DEF Cert, AnyNode
  <2>4. \A d \in Domains : \A b \in BOOLEAN : [domains[d] EXCEPT !.acct = TRUE, !.renew = b] \in Domain
    BY DEF StateTypeOK, Domain
  <2>5. certs' \in [Certs -> Cert]
    BY <2>1, <2>3 DEF StateTypeOK
  <2>6. domains' \in [Domains -> Domain]
    BY <2>1, <2>2, <2>4 DEF StateTypeOK
  <2>7. UNCHANGED <<jobs, lastId, running, revoked>>
    BY <1>3 DEF UpdateCertificateAutomation
  <2>. QED
    BY <2>5, <2>6, <2>7 DEF StateTypeOK
<1>. QED
  BY <1>2, <1>3
LEMMA AdminNextType ==
  ASSUME StateTypeOK, AdminTypeOK, AdminNext
  PROVE  StateTypeOK' /\ AdminTypeOK'
<1>1. /\ Renewing \subseteq BOOLEAN /\ Signers \subseteq AnyNode
      /\ TargetSets \subseteq SUBSET Nodes /\ Modes \cap Ops \subseteq Modes
  BY DEF Renewing, Signers, TargetSets, AnyNode
<1>2. ASSUME DomainRequests PROVE StateTypeOK'
  <2>1. ASSUME NEW d \in Domains, DeleteDomain(d)
        PROVE  StateTypeOK'
    BY <2>1, DeleteDomainType
  <2>2. ASSUME NEW d \in Domains, NEW n \in Nodes, NEW takeover \in BOOLEAN, NEW tls \in BOOLEAN,
               AdoptDomain(d, n, takeover, tls)
        PROVE  StateTypeOK'
    BY <2>2, AdoptDomainType
  <2>3. ASSUME NEW d \in Domains, NEW config \in {"generated", "custom"}, UpdateDomainConfig(d, config)
        PROVE  StateTypeOK'
    BY <2>3, UpdateDomainConfigType
  <2>4. ASSUME NEW d \in Domains, NEW n \in Nodes, NEW m \in Modes \cap Ops, NEW c \in AnyCert,
               NEW rn \in Renewing, NEW S \in TargetSets,
               CreateDomain(d, n, m, c, rn, S) \/ UpdateDomain(d, n, m, c, rn, S)
        PROVE  StateTypeOK'
    <3>1. m \in Modes /\ rn \in BOOLEAN /\ S \in SUBSET Nodes
      BY <1>1
    <3>. QED
      BY <2>4, <3>1, CreateDomainType, UpdateDomainType
  <2>. QED
    BY <1>2, <2>1, <2>2, <2>3, <2>4 DEF DomainRequests, AnyCert
<1>3. ASSUME JobRequests PROVE StateTypeOK'
  BY <1>3, ClearPendingType, NodeRequestType DEF JobRequests
<1>4. ASSUME CertificateRequests PROVE StateTypeOK'
  <2>1. ASSUME NEW c \in Certs,
               \/ DeleteCertificate(c) \/ RenewCertificate(c)
               \/ \E S \in TargetSets : SyncCertificate(c, S)
        PROVE  StateTypeOK'
    BY <2>1, CertificateRequestType
  <2>2. ASSUME NEW c \in Certs,
               \/ \E enabled \in BOOLEAN : SetCertificateAutoRenew(c, enabled)
               \/ \E n \in AnyNode, rn \in Renewing : UpdateCertificateAutomation(c, n, rn)
        PROVE  StateTypeOK'
    BY <1>1, <2>2, AutomationType
  <2>3. ASSUME NEW c \in Certs, NEW n \in Signers, NEW rn \in Renewing, NEW S \in TargetSets,
               NEW name \in Domains, NEW sans \in SUBSET Domains,
               UploadCertificate(c, name, sans, n, rn, S)
        PROVE  StateTypeOK'
    <3>1. n \in AnyNode /\ rn \in BOOLEAN /\ S \in SUBSET Nodes
      BY <1>1
    <3>. QED
      BY <2>3, <3>1, UploadCertificateType
  <2>4. ASSUME NEW n \in Nodes, NEW c \in AnyCert, NEW name \in Domains,
               NEW rn \in Renewing, NEW S \in TargetSets,
               IssueCertificate(n, c, name, rn, S) \/ ImportCertificate(n, c, name, rn, S)
        PROVE  StateTypeOK'
    <3>1. rn \in BOOLEAN /\ S \in SUBSET Nodes
      BY <1>1
    <3>. QED
      BY <2>4, <3>1, IssueImportType
  <2>. QED
    BY <1>4, <2>1, <2>2, <2>3, <2>4 DEF CertificateRequests, AnyNode, AnyCert
<1>5. CASE RetryRequests
  BY <1>5, RetryRequestType
<1>. QED
  BY <1>2, <1>3, <1>4, <1>5 DEF AdminNext, AdminTypeOK

-----------------------------------------------------------------------------
\* Every reachable state is well typed: no handler stores a status, an identifier
\* or a record there is no type for, whatever it read before.
THEOREM TypeCorrect == Spec => []TypeOK
<1>1. Init => TypeOK
  <2>. SUFFICES ASSUME Init PROVE TypeOK
    OBVIOUS
  <2>1. StateTypeOK
    BY ConstantFacts, DomainConstants, CertConstants DEF Init, StateInit, StateTypeOK
  <2>2. AgentTypeOK /\ IssuerTypeOK
    BY ConstantFacts, HandlerConstants DEF Init, AgentInit, IssuerInit, AgentTypeOK, IssuerTypeOK
  <2>3. AdminTypeOK
    BY ConstantFacts DEF Init, AdminInit, AdminTypeOK
  <2>. QED
    BY <2>1, <2>2, <2>3 DEF TypeOK
<1>2. TypeOK /\ [Next]_vars => TypeOK'
  <2>. SUFFICES ASSUME TypeOK, [Next]_vars PROVE TypeOK'
    OBVIOUS
  <2>. USE DEF TypeOK
  <2>1. CASE Agents
    BY <2>1, AgentNextType DEF Agents, AdminTypeOK, IssuerTypeOK
  <2>2. CASE Issuing
    BY <2>2, IssuerNextType DEF Issuing, AdminTypeOK, AgentTypeOK, agentVars
  <2>3. CASE Admin
    BY <2>3, AdminNextType DEF Admin, AgentTypeOK, agentVars, IssuerTypeOK
  <2>4. CASE Clock
    BY <2>4, TimeType DEF Clock, AdminTypeOK, AgentTypeOK, agentVars, IssuerTypeOK
  <2>5. CASE Aging
    BY <2>5, AgeType DEF Aging, AdminTypeOK, AgentTypeOK, agentVars, IssuerTypeOK
  <2>6. CASE Maintains
    BY <2>6, MaintenanceType DEF Maintains, AdminTypeOK, AgentTypeOK, agentVars, IssuerTypeOK
  <2>7. CASE ControllerRestart
    BY <2>7, HandlerConstants, ConstantFacts DEF ControllerRestart, AdminTypeOK, StateTypeOK, stateVars, AgentTypeOK, IssuerTypeOK
  <2>8. CASE UNCHANGED vars
    BY <2>8 DEF vars, AdminTypeOK, StateTypeOK, stateVars, AgentTypeOK, agentVars, IssuerTypeOK
  <2>. QED
    BY <2>1, <2>2, <2>3, <2>4, <2>5, <2>6, <2>7, <2>8 DEF Next
<1>. QED
  BY <1>1, <1>2, PTL DEF Spec
=============================================================================
