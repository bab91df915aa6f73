------------------------------ MODULE AgentApi ------------------------------
(***************************************************************************)
(* The endpoints agents call: poll, job result, unregister.                *)
(*                                                                         *)
(* A poll request commits its choice of a job in one Update, then resolves *)
(* the payload from a later snapshot, and fails the job in another Update  *)
(* when that is impossible; the three are separate steps of a handler.  An *)
(* agent has one request or one job at a time, but gives up on a request   *)
(* that takes too long, and the handler it left behind goes on.            *)
(***************************************************************************)
EXTENDS JobCompletion

CONSTANTS
  Handlers,     \* bound: poll requests being served at once
  MaxResults    \* bound: results on their way at once

VARIABLES
  handlers,   \* poll requests between their Update and their answer
  agent,      \* the job each agent executes, 0 when it executes none
  results,    \* POSTed results not yet looked at by the controller
  commits     \* results whose certificate is prepared but not yet committed

agentVars == <<handlers, agent, results, commits>>

Idle == [ stage |-> "idle", job |-> NoJob, type |-> "none", node |-> NoNode,
          domain |-> NoDomain, cert |-> NoCert, client |-> FALSE ]

Handler == [ stage  : {"idle", "selected", "failing"},
             job    : JobIds,
             type   : JobTypes,
             node   : Nodes \cup {NoNode},
             domain : Domains \cup {NoDomain},
             cert   : Certs \cup {NoCert},
             client : BOOLEAN ]

Outcomes == {"ok", "error", "fatal"}
Result   == [ job : JobIds, node : Nodes, outcome : Outcomes ]
Commit   == [ job : JobIds, node : Nodes, cert : Certs, record : Cert ]

\* Clients read a response only while they wait for it.
Waiting(n) == \E h \in Handlers : handlers[h].node = n /\ handlers[h].client

-----------------------------------------------------------------------------
(* Poll *)

\* Serving a request that needs its job resolved: the handler keeps the copy
\* of the job the Update selected.
Serve(h, j) ==
  handlers' = [handlers EXCEPT ![h] =
    [ stage |-> "selected", job |-> j, type |-> jobs[j].type, node |-> jobs[j].node,
      domain |-> jobs[j].domain, cert |-> jobs[j].cert, client |-> TRUE ]]

\* Mutant: the redelivery counts without the bound.
RedeliveredUnbounded(r) == [r EXCEPT !.attempts = @ + 1]

\* A running job sent once more counts as an attempt, up to the maximum, and
\* keeps its StartedAt.
Redelivered(r) == [r EXCEPT !.attempts = IF @ < MaxAttempts THEN @ + 1 ELSE @]

\* Mutant: the slice is sorted the other way round.
Youngest(S) == CHOOSE j \in S : \A k \in S : k <= j

\* Slices are sorted by CreatedAt.
Oldest(S) == CHOOSE j \in S : \A k \in S : j <= k

AwaitedAt(n) == {j \in JobIds : jobs[j].node = n /\ Awaiting(jobs[j])}
QueuedAt(n) ==
  {j \in JobIds : jobs[j].node = n /\ AgentJob(jobs[j]) /\ jobs[j].status = "queued"}

\* The job node.RunningJobID names, when it is one that can be sent again.
Pointed(n) ==
  LET j == running[n] IN j # NoJob /\ jobs[j].status = "running" /\ AgentJob(jobs[j])

\* Mutant: only RunningJobID is looked at.
NoOrphans(n) == {}

\* Running jobs no RunningJobID names, left by an earlier failure.
Orphans(n) == IF Pointed(n) THEN {} ELSE RunningAt(n)

CanPoll(n) == LiveNode(n) /\ agent[n] = NoJob /\ ~Waiting(n)

\* observeUpdate: an update whose result was accepted is never sent again.  It
\* fails at the deadline, succeeds once the new version is stably reported, and
\* is waited for otherwise.
PollObserves(n) ==
  /\ CanPoll(n)
  /\ \E j \in AwaitedAt(n) :
       \/ /\ jobs[j].overdue
          /\ jobs' = [jobs EXCEPT ![j] = Fail(@)]
          /\ running' = [running EXCEPT ![n] = NoJob]
       \/ /\ ~jobs[j].overdue
          /\ jobs' = [jobs EXCEPT ![j] = Succeed(@)]
          /\ running' = [running EXCEPT ![n] = NoJob]
       \/ /\ ~jobs[j].overdue
          /\ running' = [running EXCEPT ![n] = j]
          /\ UNCHANGED jobs
  /\ UNCHANGED <<lastId, revoked, domains, certs, agentVars>>

PollRedelivers(n, h) ==
  /\ CanPoll(n) /\ AwaitedAt(n) = {} /\ handlers[h] = Idle
  /\ Pointed(n)
  /\ jobs' = [jobs EXCEPT ![running[n]] = Redelivered(@)]
  /\ Serve(h, running[n])
  /\ UNCHANGED <<lastId, running, revoked, domains, certs, agent, results, commits>>

PollAdopts(n, h) ==
  /\ CanPoll(n) /\ AwaitedAt(n) = {} /\ handlers[h] = Idle
  /\ ~Pointed(n) /\ Orphans(n) # {}
  /\ LET j == Oldest(Orphans(n)) IN
       /\ jobs' = [jobs EXCEPT ![j] = Redelivered(@)]
       /\ running' = [running EXCEPT ![n] = j]
       /\ Serve(h, j)
  /\ UNCHANGED <<lastId, revoked, domains, certs, agent, results, commits>>

PollDispatches(n, h) ==
  /\ CanPoll(n) /\ AwaitedAt(n) = {} /\ handlers[h] = Idle
  /\ ~Pointed(n) /\ Orphans(n) = {} /\ QueuedAt(n) # {}
  /\ LET j == Oldest(QueuedAt(n)) IN
       /\ jobs' = [jobs EXCEPT ![j] = Dispatched(@)]
       /\ running' = [running EXCEPT ![n] = j]
       /\ Serve(h, j)
  /\ UNCHANGED <<lastId, revoked, domains, certs, agent, results, commits>>

\* Nothing to do: a RunningJobID that names no running job is cleared.
PollFindsNothing(n) ==
  /\ CanPoll(n) /\ AwaitedAt(n) = {}
  /\ ~Pointed(n) /\ Orphans(n) = {} /\ QueuedAt(n) = {}
  /\ running' = [running EXCEPT ![n] = NoJob]
  /\ UNCHANGED <<jobs, lastId, revoked, domains, certs, agentVars>>

\* The snapshot taken after the Update resolves the payload, and the response
\* reaches the agent, if it still waits, or is lost.
Respond(h) ==
  /\ handlers[h].stage = "selected" /\ BuildsWire(handlers[h])
  /\ \/ /\ handlers[h].client
        /\ agent' = [agent EXCEPT ![handlers[h].node] = handlers[h].job]
     \/ /\ \/ ~handlers[h].client
           \/ "loss" \in Ops
        /\ UNCHANGED agent
  /\ handlers' = [handlers EXCEPT ![h] = Idle]
  /\ UNCHANGED <<stateVars, results, commits>>

\* The payload cannot be resolved from that snapshot.
CannotBuild(h) ==
  /\ handlers[h].stage = "selected" /\ ~BuildsWire(handlers[h])
  /\ handlers' = [handlers EXCEPT ![h].stage = "failing"]
  /\ UNCHANGED <<stateVars, agent, results, commits>>

\* failDispatch: the job is failed whatever became of it in between.  When it
\* was deleted, the zero Job is stored under its empty identifier.
FailDispatch(h) ==
  /\ handlers[h].stage = "failing"
  /\ LET j == handlers[h].job
         current == IF jobs[j].status = "absent" THEN NoJob ELSE j
     IN jobs' = [jobs EXCEPT ![current] = Fail(@)]
  /\ running' = [running EXCEPT ![handlers[h].node] = NoJob]
  /\ handlers' = [handlers EXCEPT ![h] = Idle]
  /\ UNCHANGED <<lastId, revoked, domains, certs, agent, results, commits>>

\* The agent's HTTP client times out.
GiveUp(h) ==
  /\ "timeout" \in Ops
  /\ handlers[h].client
  /\ handlers' = [handlers EXCEPT ![h].client = FALSE]
  /\ UNCHANGED <<stateVars, agent, results, commits>>

-----------------------------------------------------------------------------
(* The agent *)

\* Execution ends and the result is POSTed.  "fatal" is one of the two messages
\* nonRetryableUpdateError recognises.
PostResult(n) ==
  /\ agent[n] # NoJob /\ Cardinality(results) < MaxResults
  /\ \E outcome \in Outcomes :
       /\ outcome = "fatal" => "fatal" \in Ops
       /\ results' = results \cup {[job |-> agent[n], node |-> n, outcome |-> outcome]}
  /\ agent' = [agent EXCEPT ![n] = NoJob]
  /\ UNCHANGED <<stateVars, handlers, commits>>

\* The agent stops while it executes a job and starts again without it.
AgentCrash(n) ==
  /\ "crash" \in Ops
  /\ agent[n] # NoJob
  /\ agent' = [agent EXCEPT ![n] = NoJob]
  /\ UNCHANGED <<stateVars, handlers, results, commits>>

LoseResult(r) ==
  /\ "loss" \in Ops
  /\ results' = results \ {r}
  /\ UNCHANGED <<stateVars, handlers, agent, commits>>

-----------------------------------------------------------------------------
(* Job result *)

\* Mutant: the status is not looked at again.
AcceptsAny(r) ==
  jobs[r.job].status # "absent" /\ jobs[r.job].node = r.node /\ AgentJob(jobs[r.job])

\* The check the Update repeats: of the job, not of the attempt reported on.
Accepts(r) ==
  jobs[r.job].status = "running" /\ jobs[r.job].node = r.node /\ AgentJob(jobs[r.job])

\* Capture tasks, and apply tasks that adopt a certificate found on the node,
\* must return it.
Captures(r) == jobs[r.job].type = "capture" \/ jobs[r.job].capture

Take(r) == results' = results \ {r}

\* A late result, or one POSTed again while an update is being confirmed.
ResultChangesNothing(r) ==
  /\ ~Accepts(r) \/ Awaiting(jobs[r.job])
  /\ Take(r)
  /\ UNCHANGED <<stateVars, handlers, agent, commits>>

\* A finished update stays running until the new version is confirmed.
ResultAwaitsVersion(r) ==
  /\ Accepts(r) /\ ~Awaiting(jobs[r.job])
  /\ r.outcome = "ok" /\ jobs[r.job].type = "update"
  /\ jobs' = [jobs EXCEPT ![r.job] = [@ EXCEPT !.accepted = TRUE, !.overdue = FALSE]]
  /\ running' = [running EXCEPT ![r.node] = r.job]
  /\ Take(r)
  /\ UNCHANGED <<lastId, revoked, domains, certs, handlers, agent, commits>>

\* nonRetryableUpdateError: an update refused for good is not tried again.
TriedAgain(r) ==
  jobs[r.job].attempts < MaxAttempts /\ ~(r.outcome = "fatal" /\ jobs[r.job].type = "update")

\* A failure, or a success whose certificate is not acceptable.
ResultFails(r) ==
  /\ Accepts(r) /\ ~Awaiting(jobs[r.job])
  /\ r.outcome # "ok" \/ Captures(r)
  /\ IF TriedAgain(r)
       THEN jobs' = [jobs EXCEPT ![r.job] = Requeue(@)] /\ UNCHANGED domains
       ELSE jobs' = [jobs EXCEPT ![r.job] = Fail(@)] /\ domains' = RestoreDeletions(domains, {r.job})
  /\ running' = [running EXCEPT ![r.node] = NoJob]
  /\ Take(r)
  /\ UNCHANGED <<lastId, revoked, certs, handlers, agent, commits>>

ResultSucceeds(r) ==
  /\ Accepts(r)
  /\ r.outcome = "ok" /\ jobs[r.job].type # "update" /\ ~Captures(r)
  /\ \/ /\ CompletesWith(r.job, NoCert, certs)
        /\ running' = [running EXCEPT ![r.node] = NoJob]
        /\ UNCHANGED revoked
     \/ /\ Aborts(r.job)
        /\ UNCHANGED stateVars
  /\ Take(r)
  /\ UNCHANGED <<handlers, agent, commits>>

\* The certificate record is prepared from a snapshot ...
PrepareResult(r) ==
  /\ Accepts(r)
  /\ r.outcome = "ok" /\ Captures(r)
  /\ \E c \in Certs, sans \in SUBSET Domains :
       /\ Prepares(jobs[r.job], c, sans)
       /\ certs' = Reserve(c)
       /\ commits' = commits \cup {[job |-> r.job, node |-> r.node, cert |-> c,
                                    record |-> PreparedRecord(jobs[r.job], c, sans)]}
  /\ Take(r)
  /\ UNCHANGED <<jobs, lastId, running, revoked, domains, handlers, agent>>

\* Mutant: a record that is new is not stored.
StoredIfKnown(k) == IF LiveCert(k.cert) THEN [certs EXCEPT ![k.cert] = k.record] ELSE certs

Stored(k) == [certs EXCEPT ![k.cert] = k.record]

\* ... and stored, whatever changed since, by the Update that ends the job.
CommitResult(k) ==
  /\ \/ /\ Accepts(k)
        /\ CompletesWith(k.job, k.cert, Stored(k))
        /\ running' = [running EXCEPT ![k.node] = NoJob]
        /\ UNCHANGED revoked
     \/ /\ ~Accepts(k) \/ Aborts(k.job)
        /\ UNCHANGED stateVars
  /\ commits' = commits \ {k}
  /\ UNCHANGED <<handlers, agent, results>>

\* handleAgentUnregister: a node revokes itself, even when it already is.
Unregister(n) ==
  /\ "unregister" \in Ops
  /\ Revokes({n})
  /\ UNCHANGED agentVars

-----------------------------------------------------------------------------
AgentInit ==
  /\ handlers = [h \in Handlers |-> Idle]
  /\ agent = [n \in Nodes |-> NoJob]
  /\ results = {}
  /\ commits = {}

AgentNext ==
  \/ \E n \in Nodes :
       \/ PollObserves(n)
       \/ PollFindsNothing(n)
       \/ PostResult(n)
       \/ AgentCrash(n)
       \/ Unregister(n)
       \/ \E h \in Handlers :
            \/ PollRedelivers(n, h)
            \/ PollAdopts(n, h)
            \/ PollDispatches(n, h)
  \/ \E h \in Handlers : Respond(h) \/ CannotBuild(h) \/ FailDispatch(h) \/ GiveUp(h)
  \/ \E r \in results :
       \/ LoseResult(r)
       \/ ResultChangesNothing(r)
       \/ ResultAwaitsVersion(r)
       \/ ResultFails(r)
       \/ ResultSucceeds(r)
       \/ PrepareResult(r)
  \/ \E k \in commits : CommitResult(k)

AgentTypeOK ==
  /\ handlers \in [Handlers -> Handler]
  /\ agent \in [Nodes -> JobIds]
  /\ results \subseteq Result
  /\ commits \subseteq Commit
=============================================================================
