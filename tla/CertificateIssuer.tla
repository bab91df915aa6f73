-------------------------- MODULE CertificateIssuer --------------------------
(***************************************************************************)
(* The controller's single certificate worker.  It picks the oldest issue  *)
(* job that is due and marks it running, resolves the payload from a       *)
(* snapshot, obtains the certificate outside the store's lock for up to 15 *)
(* minutes, prepares the record from another snapshot, and commits it if   *)
(* the job is still at the attempt it started.                             *)
(***************************************************************************)
EXTENDS JobCompletion

CONSTANT MaxIssueAttempts   \* bound: attempts of one issue job, unbounded in the code

ASSUME IssuerAssumption == MaxIssueAttempts \in Nat

VARIABLE issuer   \* what the worker holds between its Updates

Free == [ stage |-> "free", job |-> NoJob, attempt |-> 0, copy |-> AbsentJob,
          cert |-> NoCert, record |-> UnusedCert ]

Worker == [ stage   : {"free", "picked", "issuing", "issued", "failed"},
            job     : JobIds,
            attempt : Nat,
            copy    : Job,
            cert    : Certs \cup {NoCert},
            record  : Cert ]

IssueJobs == {j \in JobIds : jobs[j].type = "issue" /\ Active(jobs[j])}

\* A job put back after a failure waits QueuedAt, some minutes in the future;
\* everything else is due, jobs left running by an earlier process included.
MayBeEarly(j) == jobs[j].status = "queued" /\ jobs[j].attempts > 0

\* The oldest in the snapshot the worker picks from: a retry of an older place
\* may have been stored since.
IssuerStart(j) ==
  /\ issuer = Free
  /\ j \in IssueJobs
  /\ \A k \in IssueJobs : k < j => MayBeEarly(k) \/ jobs[k].retryOf # NoJob
  /\ jobs[j].attempts < MaxIssueAttempts
  /\ jobs' = [jobs EXCEPT ![j] = Dispatched(@)]
  /\ running' = [n \in Nodes |->
       IF n = jobs[j].node /\ running[n] = j THEN NoJob ELSE running[n]]
  /\ issuer' = [Free EXCEPT !.stage = "picked", !.job = j,
                            !.attempt = jobs[j].attempts + 1, !.copy = jobs[j]]
  /\ UNCHANGED <<lastId, revoked, domains, certs>>

\* The payload is resolved from a snapshot taken after that Update, or it cannot be.
IssuerResolves ==
  /\ issuer.stage = "picked"
  /\ issuer' = [issuer EXCEPT !.stage = IF BuildsWire(issuer.copy) THEN "issuing" ELSE "failed"]
  /\ UNCHANGED stateVars

\* The record is prepared from the snapshot at the end of the attempt, whatever
\* became of the domain since the payload was resolved: the certificate it has
\* now is the one that is replaced.
IssuerObtains ==
  /\ issuer.stage = "issuing"
  /\ \E c \in Certs, sans \in SUBSET Domains :
       /\ Prepares(issuer.copy, c, sans)
       /\ certs' = Reserve(c)
       /\ issuer' = [issuer EXCEPT !.stage = "issued", !.cert = c,
                                   !.record = PreparedRecord(issuer.copy, c, sans)]
  /\ UNCHANGED <<jobs, lastId, running, revoked, domains>>

\* The authority refuses, or the certificate is not acceptable.
IssuerFails ==
  /\ issuer.stage = "issuing"
  /\ issuer' = [issuer EXCEPT !.stage = "failed"]
  /\ UNCHANGED stateVars

\* Mutant: only the attempt is compared.
SameAttempt == jobs[issuer.job].attempts = issuer.attempt

StillMine ==
  /\ jobs[issuer.job].status = "running"
  /\ jobs[issuer.job].attempts = issuer.attempt

IssuerCommits ==
  /\ issuer.stage = "issued"
  /\ \/ /\ StillMine
        /\ CompletesWith(issuer.job, issuer.cert, [certs EXCEPT ![issuer.cert] = issuer.record])
        /\ UNCHANGED <<running, revoked>>
     \/ /\ ~StillMine \/ Aborts(issuer.job)
        /\ UNCHANGED stateVars
  /\ issuer' = Free

IssuerReportsFailure ==
  /\ issuer.stage = "failed"
  /\ IF StillMine
       THEN jobs' = [jobs EXCEPT ![issuer.job] =
              IF jobs[issuer.job].attempts < MaxAttempts THEN Requeue(@) ELSE Fail(@)]
       ELSE UNCHANGED jobs
  /\ issuer' = Free
  /\ UNCHANGED <<lastId, running, revoked, domains, certs>>

IssuerInit == issuer = Free

IssuerNext ==
  \/ \E j \in JobIds : IssuerStart(j)
  \/ IssuerResolves
  \/ IssuerObtains
  \/ IssuerFails
  \/ IssuerCommits
  \/ IssuerReportsFailure

IssuerTypeOK == issuer \in Worker
=============================================================================
