------------------------------ MODULE AdminApi ------------------------------
(***************************************************************************)
(* The administrator's endpoints that change jobs, domains, certificates   *)
(* or nodes.  Each is one Update; what a handler checks in a snapshot      *)
(* before it is checked again in the Update, but for the values a request  *)
(* leaves out, which any request may name.  The retry of a job is two      *)
(* steps: the time that places it among the jobs is taken before it waits  *)
(* for the store's lock.                                                   *)
(*                                                                         *)
(* Ops names the requests a behaviour may contain, and the options they    *)
(* may use: the certificate modes, "renew" for automatic renewal,          *)
(* "targets" for nodes to synchronise a certificate to.  An uploaded       *)
(* certificate has a signing node only where it may renew itself.  At      *)
(* least one DNS and one ACME account exist; requests name accounts only   *)
(* where needed.                                                           *)
(***************************************************************************)
EXTENDS JobCompletion

VARIABLE retrying   \* for the identifier and the time of a retry: the job to be retried,
                    \* while the request waits for its Update

Renewing   == {FALSE} \cup (IF "renew" \in Ops THEN {TRUE} ELSE {})
Signers    == {NoNode} \cup (IF "renew" \in Ops THEN Nodes ELSE {})
TargetSets == IF "targets" \in Ops THEN SUBSET Nodes ELSE {{}}

\* An administrator's choice of a certificate that renews itself.
MakeRenew(c, wanted) ==
  IF c # NoCert /\ wanted
    THEN [certs EXCEPT ![c].renew = TRUE, ![c].acct = TRUE]
    ELSE certs

-----------------------------------------------------------------------------
(* Domains *)

CreateDomain(d, n, m, c, rn, S) ==
  /\ "create" \in Ops
  /\ domains[d].state = "unused" /\ LiveNode(n) /\ ValidTargets(S \ {n})
  /\ m = "upload" => c # NoCert
  /\ c # NoCert => LiveCert(c) /\ Covers(c, d)
  /\ m = "none" => ~rn
  /\ EnqueueOne(jobs, IF m = "acme" THEN DomainIssueJob(n, d)
                                    ELSE ApplyJob(n, d, c, m = "local"))
  /\ domains' = [domains EXCEPT ![d] =
       [UnusedDomain EXCEPT !.state = "live", !.node = n, !.mode = m, !.cert = c,
                            !.acct = (m = "acme" \/ rn), !.renew = rn,
                            !.syncs = S \ {n}, !.lastJob = NextId]]
  /\ certs' = MakeRenew(c, rn)
  /\ UNCHANGED <<running, revoked>>

\* A site found on a node is taken over by an apply job, or only observed;
\* then a certificate the node reports for it may be captured.
AdoptDomain(d, n, takeover, tls) ==
  /\ "adopt" \in Ops
  /\ domains[d].state = "unused" /\ LiveNode(n)
  /\ LET adopted == [UnusedDomain EXCEPT !.state = "live", !.node = n,
                       !.mode = IF tls THEN "local" ELSE "none",
                       !.observed = ~takeover, !.enabled = TRUE]
     IN
     \/ /\ takeover
        /\ EnqueueOne(jobs, ApplyJob(n, d, NoCert, tls))
        /\ domains' = [domains EXCEPT ![d] = [adopted EXCEPT !.lastJob = NextId]]
     \/ /\ ~takeover /\ tls
        /\ EnqueueOne(jobs, NewJob("capture", n, d))
        /\ domains' = [domains EXCEPT ![d] = [adopted EXCEPT !.lastJob = NextId]]
     \/ /\ ~takeover
        /\ domains' = [domains EXCEPT ![d] = adopted]
        /\ UNCHANGED <<jobs, lastId>>
  /\ UNCHANGED <<running, revoked, certs>>

\* domainIsDeleting
IsDeleting(d) ==
  \/ domains[d].deleting
  \/ jobs[domains[d].lastJob].type = "delete" /\ jobs[domains[d].lastJob].status # "failed"

\* An observed domain, and one whose node is gone, is only forgotten.
Forgettable(d) == domains[d].observed \/ ~LiveNode(domains[d].node)

DeleteDomain(d) ==
  /\ "delete" \in Ops
  /\ LiveDomain(d)
  /\ \/ /\ Forgettable(d)
        /\ domains' = [domains EXCEPT ![d] = RemovedDomain]
        /\ UNCHANGED <<jobs, lastId>>
     \/ /\ ~Forgettable(d) /\ ~IsDeleting(d)
        /\ EnqueueOne(jobs, NewJob("delete", domains[d].node, d))
        /\ domains' = [domains EXCEPT ![d] =
             [@ EXCEPT !.enabled = FALSE, !.deleting = TRUE, !.lastJob = NextId]]
  /\ UNCHANGED <<running, revoked, certs>>

\* hasActiveCustomConfigJob
ActiveConfig(d) ==
  \E j \in JobIds :
    Active(jobs[j]) /\ jobs[j].domain = d /\ jobs[j].type = "apply" /\ jobs[j].config # "keep"

\* The certificate an edited domain has: the one uploaded, or its own if the
\* mode lets it keep it.
EditedCert(d, m, c) ==
  LET own == domains[d].cert IN
  CASE m = "upload" -> c
    [] m = "acme"   -> IF domains[d].mode = "acme" /\ LiveCert(own) /\ Covers(own, d)
                         THEN own ELSE NoCert
    [] m = "local"  -> IF LiveCert(own) THEN own ELSE NoCert
    [] m = "none"   -> NoCert

\* What the request itself must satisfy: a domain with its own configuration
\* keeps everything that configuration depends on.
EditAllowed(d, n, m, c, rn) ==
  /\ domains[d].custom => /\ n = domains[d].node /\ m = domains[d].mode
                          /\ m = "upload" => c = domains[d].cert
  /\ m = "upload" => c # NoCert
  /\ m = "none" => ~rn

UpdateDomain(d, n, m, c, rn, S) ==
  LET cert   == EditedCert(d, m, c)
      edited == [domains[d] EXCEPT !.node = n, !.mode = m, !.cert = cert,
                   !.acct = (m = "acme" \/ rn), !.renew = rn, !.syncs = S \ {n},
                   !.enabled = TRUE, !.deleting = FALSE]
  IN
  /\ "edit" \in Ops
  /\ LiveDomain(d) /\ EditAllowed(d, n, m, c, rn) /\ ~ActiveConfig(d)
  /\ LiveNode(n) /\ ValidTargets(S \ {n})
  /\ cert # NoCert => LiveCert(cert) /\ Covers(cert, d)
  /\ IF domains[d].observed
       THEN /\ domains' = [domains EXCEPT ![d] = edited]
            /\ UNCHANGED <<jobs, lastId>>
       ELSE /\ EnqueueOne(jobs,
                 IF m = "acme" /\ cert = NoCert THEN DomainIssueJob(n, d)
                 ELSE ApplyJob(n, d, IF m = "local" THEN NoCert ELSE cert, m = "local"))
            /\ domains' = [domains EXCEPT ![d] = [edited EXCEPT !.lastJob = NextId]]
  /\ certs' = MakeRenew(cert, rn)
  /\ UNCHANGED <<running, revoked>>

\* The complete Nginx configuration; an empty one restores the generated one.
UpdateDomainConfig(d, config) ==
  LET cert == IF domains[d].mode \in {"acme", "upload"} THEN domains[d].cert ELSE NoCert IN
  /\ "config" \in Ops
  /\ LiveDomain(d) /\ ~domains[d].observed /\ ~domains[d].deleting
  /\ LiveNode(domains[d].node)
  /\ ~ActiveFor(jobs, d, {"apply", "issue", "delete"})
  /\ domains[d].mode = "acme" => cert # NoCert
  /\ EnqueueOne(jobs, [ApplyJob(domains[d].node, d, cert, FALSE) EXCEPT !.config = config])
  /\ domains' = [domains EXCEPT ![d].lastJob = NextId]
  /\ UNCHANGED <<running, revoked, certs>>

-----------------------------------------------------------------------------
(* Jobs and nodes *)

\* A copy of the failed job, queued; both jobs name each other.
Retry(j) ==
  [jobs[j] EXCEPT !.status = "queued", !.attempts = 0, !.overdue = FALSE,
                  !.accepted = FALSE, !.retryOf = j, !.retryJob = NoJob]

\* Mutant: the copy made before is not looked at.
RetriableAgain(j) == jobs[j].status = "failed"

Retriable(j) == jobs[j].status = "failed" /\ jobs[j].retryJob = NoJob

\* handleRetryJob takes an identifier and CreatedAt ...
ReceiveRetry(j) ==
  /\ "retry" \in Ops
  /\ j # NoJob /\ jobs[j].status # "absent"
  /\ NextId \in JobIds
  /\ lastId' = NextId
  /\ retrying' = [retrying EXCEPT ![NextId] = j]
  /\ UNCHANGED <<jobs, running, revoked, domains, certs>>

MayRetry(j) == Retriable(j) /\ LiveNode(jobs[j].node) /\ BuildsWire(jobs[j])

\* ... and stores the copy when it gets the lock: jobs that are younger by then
\* may already run or have ended.
RetryJob(i) ==
  LET j == retrying[i]
      d == jobs[j].domain
  IN
  /\ j # NoJob /\ MayRetry(j)
  /\ jobs' = [jobs EXCEPT ![j].retryJob = i, ![i] = Retry(j)]
  /\ domains' = IF ~LiveDomain(d) THEN domains
                ELSE IF jobs[j].type = "delete"
                  THEN [domains EXCEPT ![d] = [@ EXCEPT !.lastJob = i,
                                                        !.deleting = TRUE, !.enabled = FALSE]]
                  ELSE [domains EXCEPT ![d].lastJob = i]
  /\ retrying' = [retrying EXCEPT ![i] = NoJob]
  /\ UNCHANGED <<lastId, running, revoked, certs>>

RefuseRetry(i) ==
  /\ retrying[i] # NoJob /\ ~MayRetry(retrying[i])
  /\ retrying' = [retrying EXCEPT ![i] = NoJob]
  /\ UNCHANGED stateVars

Clearable == {j \in JobIds : jobs[j].status \in {"queued", "failed"}}

\* Queued and failed jobs are forgotten, and with them the deletions they were.
ClearPending ==
  /\ "clear" \in Ops
  /\ jobs' = [j \in JobIds |-> IF j \in Clearable THEN AbsentJob ELSE jobs[j]]
  /\ running' = [n \in Nodes |->
       IF running[n] \in Clearable /\ jobs[running[n]].node = n THEN NoJob ELSE running[n]]
  /\ domains' = [d \in Domains |->
       IF ~LiveDomain(d) \/ domains[d].lastJob \notin Clearable THEN domains[d]
       ELSE IF jobs[domains[d].lastJob].type = "delete"
         THEN [domains[d] EXCEPT !.lastJob = NoJob, !.deleting = FALSE, !.enabled = TRUE]
         ELSE [domains[d] EXCEPT !.lastJob = NoJob]]
  /\ UNCHANGED <<lastId, revoked, certs>>

\* handleUpdateNodeAtlas, handleUpdateNodeSystem
UpdateNode(n, type) ==
  /\ type \in Ops
  /\ LiveNode(n) /\ ~ActiveOn(jobs, n, {type})
  /\ EnqueueOne(jobs, NewJob(type, n, NoDomain))
  /\ UNCHANGED <<running, revoked, domains, certs>>

RevokeNodes(S) ==
  /\ "revoke" \in Ops
  /\ S # {} /\ ValidTargets(S)
  /\ Revokes(S)

-----------------------------------------------------------------------------
(* Certificates *)

\* A batch is deleted as if one after the other.
DeleteCertificate(c) ==
  /\ "deletecert" \in Ops
  /\ LiveCert(c)
  /\ \A d \in Domains : LiveDomain(d) => domains[d].cert # c
  /\ ~ActiveReference(jobs, c, JobTypes)
  /\ certs' = [certs EXCEPT ![c] = RemovedCert]
  /\ UNCHANGED <<jobs, lastId, running, revoked, domains>>

UploadCertificate(c, name, sans, n, rn, S) ==
  /\ "upload" \in Ops
  /\ certs[c].state = "unused" /\ name \in sans /\ ValidTargets(S)
  /\ n # NoNode => LiveNode(n)
  /\ rn => n # NoNode
  /\ certs' = [certs EXCEPT ![c] =
       [UnusedCert EXCEPT !.state = "live", !.name = name, !.sans = sans,
                          !.issuer = n, !.acct = rn, !.renew = rn]]
  /\ EnqueueAll(jobs, Syncs(S, NoDomain, c))
  /\ UNCHANGED <<running, revoked, domains>>

\* certificateIDForDomain: some certificate with that primary name.
NamedBy(name, c) ==
  IF \E k \in Certs : LiveCert(k) /\ certs[k].name = name
    THEN LiveCert(c) /\ certs[c].name = name
    ELSE c = NoCert

IssueCertificate(n, c, name, rn, S) ==
  /\ "issue" \in Ops
  /\ LiveNode(n) /\ ValidTargets(S \ {n}) /\ NamedBy(name, c)
  /\ EnqueueOne(jobs, CertIssueJob(n, c, name, rn, S \cup {n}))
  /\ UNCHANGED <<running, revoked, domains, certs>>

\* A certificate the node reports is fetched from it.
ImportCertificate(n, c, name, rn, S) ==
  /\ "import" \in Ops
  /\ LiveNode(n) /\ ValidTargets(S \ {n}) /\ NamedBy(name, c)
  /\ EnqueueOne(jobs, [NewJob("capture", n, NoDomain) EXCEPT
                         !.cert = c, !.name = name, !.renew = rn, !.targets = S \ {n}])
  /\ UNCHANGED <<running, revoked, domains, certs>>

\* A domain with accounts and this certificate under its own name renews it;
\* otherwise the certificate renews itself.
RenewCertificate(c) ==
  LET d    == certs[c].name
      n    == certs[c].issuer
      byDomain == LiveDomain(d) /\ domains[d].cert = c /\ domains[d].acct
  IN
  /\ "renewnow" \in Ops
  /\ LiveCert(c)
  /\ \/ /\ byDomain
        /\ LiveNode(domains[d].node) /\ ~ActiveFor(jobs, d, {"issue"})
        /\ EnqueueOne(jobs, DomainIssueJob(domains[d].node, d))
        /\ domains' = [domains EXCEPT ![d].lastJob = NextId]
     \/ /\ ~byDomain
        /\ certs[c].acct /\ LiveNode(n) /\ ~ActiveReference(jobs, c, {"issue"})
        /\ EnqueueOne(jobs, CertIssueJob(n, c, d, certs[c].renew, certs[c].deployed \cup {n}))
        /\ UNCHANGED domains
  /\ UNCHANGED <<running, revoked, certs>>

SyncCertificate(c, S) ==
  /\ "sync" \in Ops
  /\ LiveCert(c) /\ ValidTargets(S)
  /\ EnqueueAll(jobs, Syncs(S, NoDomain, c))
  /\ UNCHANGED <<running, revoked, domains, certs>>

\* certificateAutomationDependencies: the certificate's own signing node, or
\* that of the domain of its name that uses it.
SigningNode(c) ==
  LET d == certs[c].name IN
  IF certs[c].issuer # NoNode /\ certs[c].acct THEN certs[c].issuer
  ELSE IF /\ LiveDomain(d) /\ ~IsDeleting(d)
          /\ domains[d].cert = c /\ domains[d].acct /\ domains[d].node # NoNode
    THEN domains[d].node
    ELSE certs[c].issuer

\* Only the domain of the certificate's own name, on the signing node, keeps
\* the schedule; the other domains that use it rely on the certificate's.
SetCertificateAutoRenew(c, enabled) ==
  LET n == IF enabled THEN SigningNode(c) ELSE certs[c].issuer IN
  /\ "autorenew" \in Ops
  /\ LiveCert(c)
  /\ enabled => LiveNode(n)
  /\ certs' = [certs EXCEPT ![c] =
       [@ EXCEPT !.renew = enabled, !.issuer = n, !.acct = enabled \/ certs[c].acct]]
  /\ domains' = [d \in Domains |->
       IF ~LiveDomain(d) \/ domains[d].cert # c THEN domains[d]
       ELSE [domains[d] EXCEPT !.renew = /\ enabled /\ d = certs[c].name
                                         /\ domains[d].node = n /\ domains[d].acct]]
  /\ UNCHANGED <<jobs, lastId, running, revoked>>

\* The signing node and the accounts are set to those requested, and the domain
\* of the certificate's name follows.
UpdateCertificateAutomation(c, n, rn) ==
  /\ "automation" \in Ops
  /\ LiveCert(c)
  /\ n = NoNode => certs[c].issuer = NoNode /\ ~rn
  /\ n # NoNode => LiveNode(n)
  /\ certs' = [certs EXCEPT ![c] = [@ EXCEPT !.issuer = n, !.acct = TRUE, !.renew = rn]]
  /\ domains' = [d \in Domains |->
       IF ~LiveDomain(d) \/ domains[d].cert # c \/ d # certs[c].name THEN domains[d]
       ELSE [domains[d] EXCEPT !.acct = TRUE, !.renew = rn /\ domains[d].node = n]]
  /\ UNCHANGED <<jobs, lastId, running, revoked>>

-----------------------------------------------------------------------------
DomainRequests ==
  \E d \in Domains :
    \/ DeleteDomain(d)
    \/ \E n \in Nodes : \E takeover, tls \in BOOLEAN : AdoptDomain(d, n, takeover, tls)
    \/ \E config \in {"generated", "custom"} : UpdateDomainConfig(d, config)
    \/ \E n \in Nodes, m \in Modes \cap Ops, c \in Certs \cup {NoCert},
          rn \in Renewing, S \in TargetSets :
         CreateDomain(d, n, m, c, rn, S) \/ UpdateDomain(d, n, m, c, rn, S)

JobRequests ==
  \/ ClearPending
  \/ \E n \in Nodes : \E type \in {"update", "system"} : UpdateNode(n, type)
  \/ \E S \in SUBSET Nodes : RevokeNodes(S)

CertificateRequests ==
  \/ \E c \in Certs :
       \/ DeleteCertificate(c)
       \/ RenewCertificate(c)
       \/ \E S \in TargetSets : SyncCertificate(c, S)
       \/ \E enabled \in BOOLEAN : SetCertificateAutoRenew(c, enabled)
       \/ \E n \in Nodes \cup {NoNode}, rn \in Renewing : UpdateCertificateAutomation(c, n, rn)
       \/ \E n \in Signers, rn \in Renewing, S \in TargetSets,
             name \in Domains, sans \in SUBSET Domains :
            UploadCertificate(c, name, sans, n, rn, S)
  \/ \E n \in Nodes, c \in Certs \cup {NoCert}, name \in Domains,
        rn \in Renewing, S \in TargetSets :
       IssueCertificate(n, c, name, rn, S) \/ ImportCertificate(n, c, name, rn, S)

RetryRequests == \E j \in JobIds : ReceiveRetry(j) \/ RetryJob(j) \/ RefuseRetry(j)

AdminInit == retrying = [j \in JobIds |-> NoJob]

AdminNext ==
  \/ (DomainRequests \/ JobRequests \/ CertificateRequests) /\ UNCHANGED retrying
  \/ RetryRequests

AdminTypeOK == retrying \in [JobIds -> JobIds]
=============================================================================
