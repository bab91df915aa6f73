# Nginx Atlas: a TLA+ model of the controller and its agents

Nginx Atlas manages the Nginx configuration and the TLS certificates of a fleet
of machines.  One *controller* (`internal/server`) keeps all state in one JSON
file, serves an administrator's web interface, and creates *jobs*.  On each
machine an *agent* (`internal/agent`) polls the controller every few seconds,
executes at most one job at a time and posts its result.  Certificates are
obtained by a worker inside the controller and distributed by further jobs.
An installer script puts agents on machines and removes them; a web page is
told of changes by an event stream and fetches the state again.

This directory holds TLA+ modules translated from that code, TLC
configurations that check them on small instances, and proofs checked by TLAPS
that hold for every instance.

## 1. Inventory

| Component | State it keeps | Operations | What makes it hard | What makes it correct |
|---|---|---|---|---|
| **Store** `store/store.go` | `model.State` in memory, its file, subscribers | `Update` (copy, change, persist, publish), `Snapshot`, `Subscribe` | a crash or an error while the file is replaced; notification after the lock is released | an acknowledged update survives, a refused one leaves no trace, a subscriber learns of every change |
| **Agent endpoints** `server/agent_api.go` | jobs, `node.RunningJobID` | register, poll, result, unregister | polls overlap; the payload is resolved from a later snapshot; late, lost and duplicated results | one job at a time per node, in order, a bounded number of times |
| **Job completion** `completeSuccessfulJob`, `prepareCertificateResult`, `revokeNodeState` | jobs, domains, certificates | follow-up jobs of every job type, the end of all jobs of a node | records are prepared from a snapshot and stored later | nothing refers to what was removed meanwhile |
| **Certificate issuer** `server/certificate_issuer.go`, `issuer/issuer.go` | at most one attempt | pick, obtain (up to 15 min), commit | everything may change during an attempt; restart resumes it | a stale attempt changes nothing |
| **Administrator API** `server/admin.go`, `domain_config.go`, `node_management.go` | domains, certificates, jobs, nodes | create, adopt, edit, delete; upload, issue, import, renew, synchronise; retry, clear; update and revoke nodes | each handler checks what other handlers and jobs change | no dangling certificate, no domain stuck in deletion, no renewal lost |
| **Scheduler** `server/scheduler.go`, `certificate_sync_recovery.go` | – (works on all jobs) | every 15 s: time out, recover, renew | it races every poll and every result | every job ends; each failed sync is recovered once; each certificate has a working schedule |
| **Update confirmation** `server/update_confirmation.go` | `UpdateAcceptedAt`, `UpdateVersionSeenAt`, `UpdateLastReportAt` | observe a report, expire | the version that reports may be rolled back a minute later | success only for a version that stays |
| **Agent client** `agent/client.go` | credentials, a pending decommission | loop: poll, execute, post; decommission | response lost, process replaced | no job executed twice at once |
| **Agent self-update** `agent/update_rollback.go`, part of `executor.go` | binary, backup, marker, watchdog | prepare, restart, confirm, roll back | four processes, a crash at any step | the machine always ends with a binary that reaches the controller |
| **Agent executor** `agent/executor.go` | sites, certificates, the operator's file and its backup, what Nginx loaded | apply, delete, sync, reload, take over, capture, system update | any step may fail or be the last before a crash; several domains share one file of the operator | a failed job leaves the files as they were, no rule is lost, success is real |
| **Fleet** `enroll` in `agent_api.go`, `node_management.go`, `client.go`, `install.sh` | enrolment tokens, nodes, credential files, rollout jobs | create a token, install, enrol, revoke, decommission, uninstall; update one or all | requests with one token overlap; an answer is lost; an agent stops in the middle of its removal | one node for a token; one canary for a release; a removed agent gives up its credential |
| **Login limits, sessions** `server/login_limit.go`, `password.go` | attempt windows, token bucket, sessions | login, logout | windows roll over; bounded table | limits hold per source, sessions end |
| **Event stream** `server/events.go`, page `web/src/App.tsx` | slots, subscriptions; the page's connection, timer and fetch | hand-shake, subscribe, write, leave; refresh | coalesced notifications, broken connections, a fetch overtaken by a change | no signal is lost, no slot leaks, a page becomes fresh |
| **Settings, releases, Cloudflare** | settings, cached release | validate, fetch | remote calls | – |
| **Rendering, parsing, cryptography** `nginxconfig`, `certutil`, `securebox`, `id`, `password` | none | pure functions | – | – |
| **Command line, rest of installer and web interface** | none of the controller's | input and output | – | – |

How they interact:

* Every handler, the issuer and the scheduler change the state only through
  `store.Update`, which serialises them; a handler that takes several Updates or
  Snapshots is interrupted between them by everybody else.
* Agents only ever call the controller.  A request may time out on one side
  while the other side still works on it.
* A completed job queues further jobs: an issued certificate is synchronised
  to nodes and applied to its domain; an applied domain synchronises its
  certificate; a captured certificate is synchronised or applied.
* A failed job of a domain's deletion restores the domain.  It can fail in the
  result handler, in the dispatch, by timeout, by revocation or be cleared.

`PROJECT.json` lists the hazards found in the code, each at its line.

## 2. Modules

```
ControllerState   state, helpers             JobLifecycle        what is promised of jobs
  |                                             |
JobCompletion     ends of jobs               JobLifecycleProofs  its safety, proved
  |        \           \
AgentApi  CertificateIssuer  AdminApi  Scheduler
        \      |      /        /
          Controller ---- implements ----> JobLifecycle
            |      \
     MCController   ControllerTypes <- ControllerJobs <- ControllerSafety   (theorems)

SelfUpdate   UpdateConfirmation
        \     /
      UpdateHandoff --- UpdateProofs                        (theorems)

  StateStore   files and memory                DurableRegister   what is promised of updates
       |                                          ^
  EventStream ------------- implements -----------+
       |      \
   MCEvents    EventProofs                                  (theorems)

  Executor                          Fleet
    |     \                           |    \
MCExecutor  ExecutorProofs         MCFleet  FleetProofs     (theorems)
```

The four groups are four questions asked of one system.  `Controller` takes
`store.Update` for atomic and the outcome of a job for given; `StateStore` shows
the first and `Executor` says what the second means on the machine.  In
`Controller` nodes exist and an update is a choice among outcomes; `Fleet` has
how nodes come and go, and `UpdateHandoff` the update.

| Module | Models |
|---|---|
| `ControllerState` | `model.State` as far as jobs depend on it; `hasActive...`, `restoreFailedDomainDeletion`, `buildWireJob`, `enqueueJob` |
| `JobCompletion` | `completeSuccessfulJob`, `prepareCertificateResult`, `revokeNodeState` |
| `AgentApi` | poll (its Update, its later snapshot, `failDispatch`), result (with and without a certificate), unregister; the agent as the controller sees it |
| `CertificateIssuer` | the worker's transactions and the attempt between them |
| `AdminApi` | the administrator's requests on domains, jobs, nodes, certificates |
| `Scheduler` | `runMaintenance`, in one step, with time as flags |
| `Controller` | all of them interleaved, restart, the properties |
| `JobLifecycle` | abstract specification: how one job may move |
| `MCController` | sets of requests for the runs |
| `SelfUpdate` | the agent's side of an update: `updateAtlas`, marker, watchdog and its helper, the restart, `confirmPendingUpdate`, crashes and reboots between all steps, in clock units |
| `UpdateConfirmation` | the controller's side: dispatch, result, `observeUpdate`, expiry, in the same units |
| `UpdateHandoff` | both sides and the requests between them |
| `Executor` | the jobs on the files of a machine: each write, test and reload a step that may fail, the way back, and crashes |
| `MCExecutor` | the jobs a controller sends to two domains with one file |
| `StateStore` | `store.go`: `Update`, `persist`, `Subscribe`, `Open` |
| `DurableRegister` | abstract specification: an update takes effect at one instant, durably, or not at all |
| `EventStream` | the handlers of `events.go` on top of the store, and the page's refresh |
| `MCEvents` | connections and their addresses |
| `Fleet` | enrolment, revocation, decommissioning, install and uninstall; the rollout of a release |
| `MCFleet` | the situations a run begins with |

### The controller

Correspondence of state.  `jobs[j]` is the job with the j-th identifier, and the
order of identifiers is the order of `CreatedAt`.  `enqueueJob` stamps a job in the
step that stores it.  `handleRetryJob` takes identifier and time before it waits for
the store's lock (`admin.go:296`), so `ReceiveRetry` takes the next identifier,
`retrying[i]` remembers the job to be retried under it, and `RetryJob` or
`RefuseRetry` follows when the lock is free: a retry may be stored with an older
place than jobs that run by then.  Identifier 0 is the empty string, under which a dispatch that fails after its
job was cleared stores a job (`failDispatch` assigns to the map whatever it
finds).  `jobs[j].cert`, `.name`, `.targets`, `.renew`, `.capture` and `.config`
are the fields of the payload later code reads.  `running[n]` is
`node.RunningJobID`.  `handlers[h]` is a poll between its Update and its answer
and keeps the copy of the job the code keeps.  `agent[n]` is the job the agent
executes.  `commits` holds results whose certificate record is prepared from a
snapshot and not yet stored.  `issuer` is the worker's attempt: the job it picked,
the payload it resolved from one snapshot, the record it prepared from another one
up to 15 minutes later (`certificate_issuer.go:70` and `:87`).  `overdue` and
`due` are the two comparisons with the clock the code makes: a job exceeded
its limit, a certificate is inside its renewal window.

Correspondence of steps.  One `store.Update` is one action, including the
follow-up jobs it enqueues and the records it changes.  Where a handler reads
a snapshot first and updates later, there are two actions with everything in
between, except where the Update repeats the checks of the snapshot
(`handleUpdateDomain`, the issuer's pick), which is one action.  The pick is
the oldest job of the snapshot; since a retry of an older place may be stored
before the Update, `IssuerStart` does not compare with retries.

Abstractions, all of them deliberate:

* A domain is identified with its name, so a removed name is not created again.
* A certificate covers the name it was asked for (`certutil.Validate`); which other
  names it covers is left open, and so is whether they are enough for the record it
  replaces, which `ensureCertificateNames` may refuse.
* There is at least one ACME and one DNS account, so only the presence of a
  reference is modelled.
* What a job installs, writes or reports is left out: a job ends `ok`,
  `error`, or `fatal` (one of the two messages of `nonRetryableUpdateError`).
* A batch of deletions is as many single ones.
* The confirmation of an update is a choice among its three outcomes, which
  `UpdateConfirmation` models in detail.
* The rate limit of polls and the status `offline` restrict behaviours and
  decide nothing else; without them the model has more behaviours.

### The update of a node

Correspondence of state.  `disk` is the installed binary and `proc` the version
of the process that runs; `stage` is how far `pollOnce` is with the update in
that process; `marker` is `pending-update.json`; `watchdog` and `restart` are the
two transient systemd units, the first through the steps of its helper script;
`confirming` is the point in `confirmPendingUpdate` between removing the marker
and stopping the watchdog.  `update` holds the fields of the job, with the time
since each recorded event in place of its time.  `post` holds results sent and
not yet read.  `PollForJob` is the controller's transaction; its answer is on the way in
`stage` `polling` until `ReceiveJob`, a lost request or the end of the process.
`stuck` and `reportingStuck` are an error result that names a marker because
restoring the binary failed, so that the agent tries again when its result is not
acknowledged (`client.go:278`).

Failures.  Each of the two restorations of the agent may fail, before or after its
rename (`replaceRegularFile` may fail at its last step, the sync of the directory):
`CannotArmNorRestore`, `CannotRestore`.  The helper's script runs with `set -eu`:
`HelperFails` is a failing `install`, `mv` or `systemctl restart`, after which the
marker stays and no unit is left.  These count as faults, like crashes and reboots.
`unguarded` records that an update was left without its watchdog by a reboot or by a
failing helper.

Time.  `Tick` advances every timer by one unit, and cannot happen while
something is due: a unit of systemd at its limit, a step of a process that is
not waiting, an expired confirmation.  What is not modelled as due takes any
time: polls, answers within the request's limit, the limits of waiting and
executed jobs.

Abstractions: download, verification, backup and helper are one step that may
fail; the helper's removal of the marker happens with its successful restart; a
report is the version that runs, with or without capabilities (heartbeats), and a
poll that gets no job is one step, since the process that waits for its answer is
the one that reported; `late` is about results, not about polls nobody waits for;
removing a marker does not fail; a `systemd-run` that fails left no unit behind, and
a `systemctl stop` stops it.  Where either is untrue, the helper finds neither itself
nor a marker, or runs to its end as when it is faster, except if arming and
restoring fail and the timer was started after all: then there is a watchdog more
than in the model.  The controller's process does not stop in this part.

### The jobs on a machine

Correspondence of state.  `site[d]`, `chain[d]` and `key[d]` are
`atlas-<domain>.conf`, `fullchain.pem` and `privkey.pem`; `source` and `backup` are
the operator's file and its private copy, each as the set of domains that have
a rule in it, empty when there is no such file.  `loaded` is what Nginx read at its last
reload.  `saved` is what `captureFiles` holds and, for the properties, which
domains were answered for.  `step` is the point in the functions of `executor.go`,
`changed` is `takeoverChanged` or `restoredTakeover`, `outcome` the result posted,
with `unavailable` for the error of `ensureLocalCertificate` and `damaged` for a way
back that failed, too.  `adopted` is the controller's side: a domain is deleted with
the path to restore exactly when it was adopted with one.

Correspondence of steps.  Every write, removal, `nginx -t` and reload is one
action with a disjunct in which it fails; which way back follows is the code's
choice: a certificate of an apply job that cannot be installed is rolled back when
it was sent and not when it is copied, a delete job that could not remove its
site puts nothing back, `reload` has nothing to put back.  `Crash` ends the agent
at any step.  Moving a file across devices (copy, then unlink) is two actions:
`RestoreRule`/`DropBackup` and `UndoSource`/`UndoBackup`.

Abstractions, deliberate: capturing the certificate after an apply job only
reads; `updateSystem` is a sequence of package commands; an operator does not
edit the file while a backup of it exists (the code would overwrite the edit when
it restores the backup); a copied chain or key is complete or absent, though
`copyRegularFile` writes it in place and removes what it could not finish, so a crash
may leave a part of it; the configuration of a site is one of a few contents,
one of which `nginx -t` refuses.

What the model makes visible and no property forbids.  Failing, or deleting, a
second domain taken over from one file restores the whole pristine backup, and so
also enables the rule of the first domain, which then has a site and a rule
(`executor.go:711-750`).  `RuleKept` is about domains that nobody answers for and
is not violated by this.  `RuleKept` and `Restartable` excuse machines on which a
job was interrupted or could not be undone (`clean`): the code has no recovery of
half done jobs but the next job.

### The store and the event stream

The state is the set of updates that took effect, which is all that
atomicity and durability can tell apart.  `phase[u]` is the point in `Update`; the lock
is free when no update is in `Locked`.  `channel[c]` is the channel of capacity
one of a subscriber, `notify[u]` the subscribers an update collected under
the lock and still has to notify after it.  `handler[c]`, `eventPending`,
`eventPendingIP` and `eventClients` are the handler of a connection and the
counters of `server.go`.  Of the page, `socket`, `timer` and `fetch` are the
connection, the timer of 180 ms a message starts, and `refreshInFlight`; a
message on its way and the timer it starts are one flag.

Abstractions: a ticket is an outcome of `Authenticate`; the revision number in a
message is left out, because `App.tsx` does not compare it; the page is
one that is visible (a hidden one does not refresh, and does when it is shown again); a rename is durable when
it returns, though the directory is not synced, so a loss of power that reverts
a completed rename is not covered.

### The fleet

`token[t]` is an enrolment, `status[n]`, `origin[n]`, `paid[n]` and `version[n]` a
node, the machine and the token it came from and the version it reported.
`requests` are enrolments between the first look of `handleAgentEnroll` at the
token and its transaction; `awaited` says whether the agent still waits for the
answer.  `env`, `credential` and `marker` are `agent.env`, `state.json` and
`state.json.revoked`, `enabled` the unit, `proc` the agent's process.
`job[n][v]` is the latest update of a node to a release, `all` whether an update of
all nodes created it.  `start` is the situation a behaviour begins with, so that
one run has a fleet that begins and one that is to be updated.

Abstractions: of a node's jobs to one release only the latest is kept, which is
what `latestAtlasUpdateJobs` looks at; the conditions that exclude a node from a
batch (offline, unhealthy, busy, another architecture) are a choice of
candidates; an update has the outcomes `UpdateHandoff` derives; a retry is the
latest update of its node, although it may be stored with an older `CreatedAt` than
one that failed meanwhile, which makes the code's rollout only more careful;
`UpdateOne` looks at the version in its transaction, the code in the snapshot before
(`node_management.go:85-98`), and the agent refuses what is not newer; an uninstall is
one step; renaming a node changes nothing here.

What the model makes visible and no text forbids: an answer to an enrolment that is
lost leaves a node no agent knows, until an administrator removes it
(`agent_api.go:76`); installing with a new token on a machine that still has the
`state.json` of a revoked node keeps the old credential (`install.sh:539`), and the
agent decommissions itself once more; a retry of an old update would be a
downgrade, which the agent refuses (`executor.go:455`).

## 3. Runs

Bounds of the controller are constants of the modules: `MaxJobs` (jobs ever
created), `MaxAttempts` (3 in the code), `Handlers` (polls served at once),
`MaxResults` (results on their way), `MaxIssueAttempts` (attempts of the worker,
which the code does not bound).  `Ops` selects the requests and faults of a run:
no run can have all of them, and each has those that interact in what it
checks.  Together the runs fire every action.

| Run | Instance | Checks | Shows |
|---|---|---|---|
| `queue` | 1 node, 1 domain, 3 jobs, 2 attempts | `AttemptsBounded` `InOrder` `DeletingHasDeleteJob` `RevokedIdle` `JobsRefined` `EveryJobEnds` `DeletionEnds` | lost results, crashes, timeouts, retries and a node that leaves never reorder or multiply jobs; the controller implements `JobLifecycle`; the scheduler alone ends every job and every deletion |
| `dispatch` | 1 node, 2 overlapping polls, 1 certificate, 3 jobs | `OneRunningJob` `PointerValid` | nothing a late dispatch failure, a timeout or clearing does makes a node run two jobs, or its pointer name a job that does not run there |
| `issue` | 1 node, domain and certificate, 3 jobs, 2 attempts of the worker | `TypeOK` `RevokedUnreferenced` `CertificatesInUseExist` `NeverRevived` | a certificate the worker issued or a node returned is stored consistently whatever was edited, deleted, revoked or restarted meanwhile |
| `distribute` | 2 nodes, 1 certificate, 3 jobs | `RetriedOnce` `CertificatesInUseExist` | recovery and manual retries, also two that wait for the lock, never retry the same failure twice; a waiting job keeps its certificate |
| `renew` | 1 node, domain and certificate, 3 jobs | `LinkedRenewalWorks` `RevokedUnreferenced` | whichever way the schedules are switched, a domain that took over the renewal can do it |
| `update` | one update, 2 attempts, 2 crashes, reboots or failing restorations | `TypeOK` `SuccessBeyondWindow` `SuccessHealthy` `NoRollbackAfterSuccess` `NotSentAgain` `UpdateEnds` `WatchdogSettles` | success is reported only when no watchdog is left, never for services that stay unhealthy, and nothing restores the old binary afterwards; no accepted update is executed again; neither side waits for ever |
| `executor` | 2 domains with rules in one file, 2 certificates, 4 jobs, 2 faults, 1 crash | `TypeOK` `OriginalRecoverable` `FailureRestores` `RuleKept` `SuccessInstalls` `Restartable` | a failed job leaves the files of its domain as they were, a successful one did what it says, also after an interrupted one; at every moment each rule of the operator is in the file or in its backup; without interruptions nobody loses a domain but by its deletion, and Nginx can be started again |
| `events` | 2 updates, 2 connections from one address, 1 restart | `TypeOK` `NoLostSignal` `SlotsConserved` `ShownIsDurable` `EventuallyFresh` `StoreRefined` | the store implements `DurableRegister`; no handler misses a change, no slot leaks, no page shows what a restart takes back, and a page becomes fresh again and again |
| `fleet` | 2 machines, 2 tokens and 1 fault, or 2 nodes and 2 releases | `TypeOK` `TokenOnce` `CanaryFirst` `RevokedLeaves` | a token admits one node, a release that nobody was updated to is tried on one node at a time, and a removed agent gives up its credential wherever it was stopped |

Are the bounds enough?  The interesting cases of the controller need two active
jobs on a node and one that finished or is created meanwhile (three jobs), a
first delivery and a repeated one (two attempts), two polls, two results of one
job.  Two nodes are needed where one is removed while the other takes over.
`dispatch`, `issue`, `distribute` and `renew` have one attempt per job, because
what they check relates several jobs; repeated attempts are the subject of
`queue`.  In `update` a unit is 15 s, so the durations of the code are 2
(stability, gaps, confirmation of the agent), 3 (request), 6 (watchdog) and 12
(observation); the confirmation's limit of 30 minutes is 16 units instead of 120,
which is enough to lie beyond the observation, and execution takes up to one
unit.  Two faults are a restoration that fails and a crash or a second failure after
it.

In `executor` two domains of one file are taken over, fail and are deleted in
any order with four jobs; two faults are a failure and another one on the way back
or in a second job; the shared certificate and one of its own make chain and key
differ.  In `events` the limits are 2, 2 and 1 instead of 16, 2 and 128: one of
two connections is refused, both are in their handshakes at once; two updates
are the second change while the first is being signalled or fetched.  `EventuallyFresh`
is about crashes, lost connections and failing fetches; it holds by the interval of 60 s
and says nothing of a fetch that was served before a message, which `stale.cfg` is
about.  In `fleet` two
requests with one token, and a node that leaves and comes back, need two machines
and two nodes; batches of more than one node do not occur with two, and are
covered by the theorem.  Every property has a mutant of the code that violates
it within its run's bounds.

Fairness.  `Controller!FairSpec` assumes weak fairness of `Maintains` and of the
passing of each job's time limit, and nothing else.  `runScheduler` calls
`runMaintenance` on every tick of a 15 s ticker, and deadlines are compared with
the wall clock.  Agents, administrators and the certificate worker may stop for
ever.  `DeletionEnds` is checked with retries and without `clear`: with both of
them the code violates `DeletingHasDeleteJob`, see below.

`UpdateHandoff!FairSpec` assumes that time goes on (strong fairness of `Tick`: the
agent waits between polls, so no behaviour keeps it from happening for ever),
that the scheduler expires confirmations, that a process and a unit of systemd
go on with what they began (successfully or not), that a request ends, and that a
process finds healthy services healthy.  Polls, answers, time limits of jobs, faults
and the recovery of slow services are not forced.  `WatchdogSettles` excuses an update
that is `unguarded`: transient units do not survive a reboot, and nobody runs a
helper again that failed.  In both cases the code leaves the marker, and the node
refuses every further update until its new version confirms itself or an operator
removes the marker.  `SuccessHealthy` has the same excuse: without the helper a bad
version stays, and reports itself.

`EventStream!Spec` assumes weak fairness of every call of `Update` that began and
of the page's interval (60 s, whether connected or not), and strong fairness of
serving and finishing a fetch: of the fetches that are repeated without end, not
all fail.  Connections, messages and their timer are not forced: `EventuallyFresh` does
not rest on them.  It says `[]<>`, since updates are few in the model and may go on
in the program.

`Fleet!Spec` assumes weak fairness of each machine's agent: systemd restarts it
(`Restart=always`), and its loop goes on.  Installers, administrators, answers
and faults are not forced.  An installer that runs without end could keep an agent
from its decommissioning, which is why it interrupts one only as often as the
bound of faults says.

Deadlock is checked in all of these runs but `executor`, which ends when `MaxJobs`
jobs were executed: maintenance is always possible, time always goes on, a page
always polls, a token can be installed or a job cleared again.

### Disagreements between the code and what is said of it

TLC finds each of them violated.  The first three are runs of the project.

* `stuckdelete` – `DeletingHasDeleteJob`.  The apply job of a domain times out
  while its delete job is queued; the apply job is retried, which makes the copy
  the domain's `LastJobID`; clearing removes both and, because `LastJobID` is no
  delete job, leaves `Deleting` set: the domain is hidden and refuses every edit.
* `lateresult` – `SuccessBeyondWindow`.  The controller stalls for longer than the
  agent waits for the answer to its result.  The agent rolls back, polls and
  gets the job again; then the first result is read and starts the confirmation,
  while the second attempt is still downloading (`MaxExecution` is as long as the
  observation here).  That attempt's watchdog is armed when the observation is
  over, and success is reported for a version that can still be rolled back.
  `Faults` has `"late"` in this run only, and the theorems below exclude it.
  `NotSentAgain` fails with late results, too: one is accepted while the job is on its
  way to the agent again.
* `lostrule` – `RuleRestored`.  `README.md:238` says that a failed validation or
  reload restores the original rule.  Two domains of one file are adopted; the
  first takeover fails before it disables anything, the second succeeds.
  Deleting the first restores the file from the backup; when the validation or the
  reload then fails, `deleteDomain` (`executor.go:299`) disables the rule of its own
  domain instead of the one that was disabled before, and puts back a site that never
  was: a domain that Nginx answered for is left without a rule.

The same modules with these configurations show four more:

* `orphan.cfg`, module `MCController` – `OrphanDisabled`.  `agent_api.go:834` says
  that a domain that lost its node stays disabled until it gets another one.  Create a
  domain, delete it, revoke its node (which fails the delete job and empties
  `NodeID`), clear the failed jobs: `handleClearPendingJobs` sets `Enabled`.
* `inuse.cfg`, module `MCController` – `RemovedNotInUse`.  The issue job of a domain
  replaces the domain's certificate but does not name it in its payload, so after
  the domain lets go of the certificate it can be deleted while the job executes,
  and is stored again at its end.
* `localcopy.cfg`, module `MCExecutor` – `LocalEnsured`.  `executor.go:795-797` says
  that `ensureLocalCertificate` makes sure a domain has a usable certificate,
  linked or copied into its directory.  `copyRegularFile` (`:1162`) opens the
  destination with `O_EXCL`, so a takeover that is delivered again after the first
  one copied the pair, or stopped between the two files, fails with "local
  certificate is unavailable" although every write succeeds.
* `stale.cfg`, module `MCEvents` – `FreshAfterSignal`.  `store.go:151-152` asks callers
  to read a fresh snapshot after a signal.  `refresh` (`App.tsx:79`) returns at once
  while another fetch is in flight, and nothing repeats it: a page whose fetch was
  served before the change keeps the old state until the next event or the
  interval of 60 s, though it is connected and was told.

Two more behaviours are worth knowing, though no text promises the contrary: a certificate
whose own schedule started a renewal is renewed a second time by a domain linked
to it meanwhile, and a domain that is only monitored gets an apply job when its
certificate is issued.  `README.md:234` speaks of a failure after five minutes
without a confirmation, where the code waits `updateConfirmationTimeout`, 30 minutes.
`README.md:238` also says that a symbolic link is moved into the private backup,
where the code refuses links (`executor.go:1099`).

## 4. Proofs

For all `Nodes`, `Domains`, `Certs`, bounds and `Ops`, under
`ControllerAssumption` (the empty identifiers are no identifiers, `MaxAttempts`
is positive) and the assumptions of the modules that declare constants:

| Theorem | States | Argument |
|---|---|---|
| `ControllerTypes!TypeCorrect` | `Spec => []TypeOK` | `TypeOK` is inductive: one lemma per action, on lemmas that say what `EnqueueOne`, `EnqueueAll`, `Revokes`, `CompletesWith` and the renewals of maintenance return |
| `ControllerJobs!ImplementsJobLifecycle` | `Spec => JobsRefined` | every action moves each job by one of the steps of `JobLifecycle!Step`; the identifiers in `retrying` are the places promised there (`promised`).  Needs that identifiers above `lastId` and promised ones are unused (`FreshIds`), which is invariant together with `TypeOK`, and that at most one job runs on a node, which comes from the abstract specification itself |
| `ControllerJobs!JobsSafe` | `Spec => [](OneRunningJob /\ InOrder /\ AttemptsBounded)` | the invariants of `JobLifecycle`, carried over through the refinement mapping.  `InOrder` is about jobs that are no retries: a retry that waited for the lock may be stored when younger jobs already run or have succeeded, after which it is the next to start |
| `ControllerJobs!EndedJobsStay` | `Spec => NeverRevived` | likewise |
| `ControllerSafety!SafetyInvariant` | `Spec => []SafetyInv` | the inductive invariant of the next six, described below |
| `ControllerSafety!PointersValid` | `Spec => []PointerValid` | `PointerSteps`: a pointer that is kept names a job the step leaves running, a new one a job of this node that runs after the step |
| `ControllerSafety!RevokedStaysIdle` | `Spec => []RevokedIdle` | a revocation ends what runs on the node and what the worker would issue for it, and no job starts, and no issue job is created, for a revoked node |
| `ControllerSafety!RetriedAtMostOnce` | `Spec => []RetriedOnce` | a retry is created in the step that makes the failed job name it, and only if that job names none (`FirstRetry`), however many requests wait to retry it |
| `ControllerSafety!RevokedNotReferenced` | `Spec => []RevokedUnreferenced` | `RecordsInv` with `CommitsHeld` and `WorkHeld`: a record held since before the revocation is signed by a node that is looked up again when it is stored |
| `ControllerSafety!CertificatesExist` | `Spec => []CertificatesInUseExist` | `RecordsInv` and `JobsInstallLive`: what a job will install was live when the job was created (`Wanted`) and is not deleted while the job waits or runs (`UsedStays`); a record the worker prepared replaces the certificate its domain had at that moment, whatever mode the domain was switched to |
| `ControllerSafety!LinkedRenewalsWork` | `Spec => []LinkedRenewalWorks` | `RecordsInv`: a revocation that takes the node of a domain takes its renewal too |
| `ControllerSafety!DeletionsHaveJobs` | `Spec /\ [][~ClearPending]_vars => []DeletingHasDeleteJob` | `DeletionSteps`: a domain being deleted after a step has a delete job, or was being deleted before and none of its delete jobs ended; with `SafetyInv`, since no handler fails a delete job it could not resolve |
| `ControllerSafety!DeletionsHaveJobsUncleared` | `"clear" \notin Ops` implies `Spec => []DeletingHasDeleteJob` | the same for an administrator who never clears |
| `JobLifecycleProofs!LifecycleSafe` | the safety invariants of `JobLifecycle` | their conjunction with the type of `job` is inductive: starting a job requires that nothing runs and nothing older waits |
| `JobLifecycleProofs!LifecycleEnds` | `JobLifecycle!Spec => EndedForGood` | no step leads back |

The abstract specification is what makes the proofs short: the safety of jobs
is proved once about eight kinds of steps, and the controller's forty actions
only have to be recognised as such steps.

None of the invariants about nodes, records and jobs together is inductive alone.  A late
result, a failing dispatch or a certificate that is ready to be stored acts on
what was copied some steps ago, and the job it was copied from may have timed out, been
retried or been cleared since; a job that starts acts on records its domain had
when the job was created.  `SafetyInv` therefore has, besides the invariants
themselves:

* `JobsInv`: the types, and that identifiers above `lastId` and those of retries that
  wait for the lock are unused.  `IdsKept` says of each step that it keeps them.
* `HeldInv`: what the copies are worth.  While the job a handler or the worker
  copied is kept, it still has the type and the node of the copy; what the worker
  holds is an issue job, and what it issued, like every prepared result, is signed by
  the node it was issued for; a delete job is never in the hands of a
  handler that fails its dispatch; the job `failDispatch` stores under the empty
  identifier has no type, so that no rule about types applies to it.
* `RecordsInv` and `JobsInstallLive`: the two halves of `CertificatesInUseExist`, with
  what `RevokedUnreferenced` and `LinkedRenewalWorks` say of each record.

The proof is in two layers.  `StepFacts` summarises one step: what may become of
each job (`TaskSteps`), of each pointer, of each record and of each copy; every
action is shown to satisfy it.  `StepPreserves` takes `SafetyInv` from the
summary alone, without an action in sight.  TLC checked `SafetyInv`, `HeldInv` included,
on the instances of the runs before any of it was proved.

The hypothesis of `DeletionsHaveJobs` is needed: `ClearPending` restores the
domain of a job it clears only if it is the domain's `LastJobID`, and a retry
replaces that.  `stuckdelete` shows the state that results.  The hypothesis is
broader than the error: it excludes clearing altogether, also where nothing is lost.

For all durations, attempts and faults of an update, under `WindowAssumption` (the
watchdog, 90 s, and the agent's request, 45 s, are shorter than the observation, 180 s):

| Theorem | States | Argument |
|---|---|---|
| `UpdateProofs!TypeCorrect` | `Spec => []TypeOK` | inductive, in three parts: numbers and stages, flags, results |
| `UpdateProofs!SuccessIsFinal` | `NoLateReads => (Spec => []SuccessBeyondWindow)` | `Window` is inductive: as long as the watchdog runs, the acceptance is not older than the watchdog (`WatchdogFirst`), and it is not older than a request the agent still acts on (`JustAccepted`); success takes the whole observation, which is longer than both |
| `UpdateProofs!NoLateRollback` | `NoLateReads => (Spec => NoRollbackAfterSuccess)` | after success `Window` leaves neither a watchdog nor an agent that restores |
| `UpdateProofs!BadNeverSucceeds` | `NoLateReads => (Spec => []SuccessHealthy)` | `BadGuarded`: with services that stay unhealthy, and as long as neither a reboot nor a failing helper intervened, either the old binary is installed or something is left that restores it; with `Window`, that something is gone only once the old binary is back |
| `UpdateProofs!AcceptedNotSentAgain` | `NoLateReads => (Spec => NotSentAgain)` | `NotYetAccepted`, a part of `Window`: `Dispatch` requires that nothing is awaited, and while the job is on its way or being prepared there is no result to be accepted |

`NoLateReads` says that a result nobody waits for is not read.  It is needed: see
`lateresult`.  The theorems hold for any number of crashes, reboots and failing
restorations.

For all updates, connections, addresses, limits and restarts, under
`StoreAssumption` and `CapsAssumption` (the connections are finitely many):

| Theorem | States | Argument |
|---|---|---|
| `EventProofs!StoreTypesHold`, `MemoryFollowsFile` | `Spec => []StoreTypeOK`, `Spec => []MemoryIsFile` | `StoreInv` is inductive: at most one update is in `Locked`, memory and file differ only while it has replaced the file and not yet published, and then by that update; what a caller was told is in the file or is not |
| `EventProofs!StoreIsRegister` | `Spec => StoreRefined` | with `StoreInv`, replacing the file is `Apply` of the register, the return of a call `Answer`, a restart `Restart` of the calls under way, everything else a stutter |
| `EventProofs!ChangesAreSignalled` | `Spec => []NoLostSignal` | inductive with: a serving handler is subscribed.  An update collects its subscribers in the step that publishes, and a handler reads the state in the step that empties its channel |
| `EventProofs!PageShowsDurable` | `Spec => []ShownIsDurable` | what was served or shown is part of the file, which only grows; a snapshot is taken when memory follows it |
| `EventProofs!NoSlotLeaks`, `TypesHold` | `Spec => []SlotsConserved`, `Spec => []TypeOK` | `SlotInv`: each counter is the cardinality of a set of handlers, which a step changes by one handler |

For all domains, original rules, certificates, contents, requests, faults and
crashes, under `ExecutorAssumption` (a sync job carries its bundle):

| Theorem | States | Argument |
|---|---|---|
| `ExecutorProofs!TypeCorrect` | `Spec => []TypeOK` | part of the invariant |
| `ExecutorProofs!OriginalKept` | `Spec => []OriginalRecoverable` | `BackupInv`: the backup is the whole original file or absent, and the file is whole while it is absent |
| `ExecutorProofs!FailureUndone` | `Spec => []FailureRestores` | `FilesInv`: at which steps each file is as captured, before the job wrote it and after it was put back |
| `ExecutorProofs!SuccessIsReal` | `Spec => []SuccessInstalls` | `WorkInv`: what has been done at which step |
| `ExecutorProofs!NothingTaken` | `Spec => []RuleKept` | `CapturedInv`: rules of other domains stay, that of the job's own is in its site, in the file, or in the backup it is restored from |
| `ExecutorProofs!AlwaysRestartable` | `Spec => []Restartable` | `CleanInv`: without interruptions, what could be invalid or not loaded belongs to the job's domain, and what it captured was valid |

The parts are inductive only together (`ExecutorInv`), with `StepInv`, which says
which operations reach which step, and `FailedInv`, which says that whoever puts
files back has failed.

For all machines, tokens, releases, situations and batches, under `FleetAssumption`:

| Theorem | States | Argument |
|---|---|---|
| `FleetProofs!TypeCorrect` | `Spec => []TypeOK` | inductive with `JoinInv`: an agent that enrols has a token |
| `FleetProofs!OneNodePerToken` | `Spec => []TokenOnce` | `PaidInv`: the token of a node is not usable, and never becomes so again |
| `FleetProofs!OneCanary` | `Spec => []CanaryFirst` | `OneAhead`, with `JobsInv`: a success proves a release.  While nobody proved it, a node that is ahead has a job that is active or failed, which keeps `Quiet` from holding, and one batch is one node; every other step leaves each job, drops it, or moves it |

Only model-checked: liveness under fairness (`EveryJobEnds`, `DeletionEnds`,
`UpdateEnds`, `WatchdogSettles`, `EventuallyFresh`, `RevokedLeaves`), for which the
prover has no `ENABLED`.  Every safety property of a passing run is stated by a
theorem; `DeletingHasDeleteJob` under the hypothesis its runs satisfy.

## 5. Plan

Done: jobs and everything that changes them, with the proof of all their safety
properties; the update of a node from end to end;
the executor's file transactions; the store and the event stream; enrolment,
decommissioning and the rollout.

1. An instance of `Fleet` in which a batch has more than one node.
2. An operator who edits the file while a backup of it exists.
3. Login limits.

## 6. Not modelled

Rendering and parsing of Nginx configuration, cryptography, identifiers and
passwords are pure functions of libraries and text.  Settings, releases and
Cloudflare calls are validation and remote requests, one transaction each, that
no job depends on.  Login limits, passwords and sessions are counters and tables in
memory that nothing else depends on.  Routing, middleware, the command line, the
packages the installer fetches and the presentation of the web interface are
input and output.
