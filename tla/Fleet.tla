--------------------------------- MODULE Fleet ---------------------------------
(***************************************************************************)
(* How machines join the fleet and leave it, and how a release reaches all *)
(* of them: the one-time tokens, the credential each agent keeps in a      *)
(* file, its revocation, the installer, and the updates of many nodes that *)
(* one canary precedes.  UpdateHandoff has the update of one node.         *)
(***************************************************************************)
EXTENDS Integers, Sequences, FiniteSets

CONSTANTS
  Machines,     \* machines an agent may be installed on
  Own,          \* ... the controller's, or None
  Tokens,       \* enrolments
  Releases,     \* versions that may be published, 1..n; machines start with 0
  Starts,       \* situations to begin with: the nodes there are, the tokens and releases there
                \* will be, and a bound of agents with a credential stopped and answers lost
  Batch,        \* nodes in a batch after the canary: 5 in the code
  MaxNodes,     \* bound: nodes ever created
  None

ASSUME FleetAssumption ==
  /\ MaxNodes \in Nat /\ Batch \in Nat \ {0}
  /\ None \notin Machines \cup Tokens
  /\ Releases \subseteq Nat \ {0}
  /\ \A s \in Starts :
       /\ s.joined \in Seq([machine : Machines, token : Tokens]) /\ Len(s.joined) <= MaxNodes
       /\ s.tokens \subseteq Tokens /\ s.releases \subseteq Releases /\ s.faults \in Nat
       /\ \A n \in DOMAIN s.joined :
            /\ s.joined[n].token \notin s.tokens
            /\ \A k \in DOMAIN s.joined : s.joined[n].token = s.joined[k].token
                                         \/ s.joined[n].machine = s.joined[k].machine => n = k

Nodes == 1..MaxNodes

VARIABLES
  start,        \* the situation it began with
  token,        \* Enrollments
  status, origin, paid, version,   \* nodes: their status, machine, token, last reported version
  job,          \* latest update of a node to a release, and whether a rollout queued it
  requests,     \* enrolments that passed the first look at their token
  env,          \* ATLAS_ENROLLMENT_TOKEN of agent.env
  credential,   \* state.json: the node, 0 without it
  marker,       \* state.json.revoked exists
  enabled,      \* the agent's unit is enabled
  proc, gets,   \* what the agent's process does; the node it was given and has not saved
  proven,       \* ghost: releases some node was updated to
  faults

controllerVars == <<token, status, origin, paid>>
updateVars     == <<version, job, proven>>
machineVars    == <<env, credential, marker, enabled, proc, gets>>
vars           == <<start, controllerVars, updateVars, requests, machineVars, faults>>

NoJob    == [status |-> "none", all |-> FALSE]
Statuses == {"none", "queued", "running", "succeeded", "failed"}

TypeOK ==
  /\ start \in Starts
  /\ token \in [Tokens -> {"none", "usable", "used", "gone"}]
  /\ status \in [Nodes -> {"none", "active", "revoked"}]
  /\ origin \in [Nodes -> Machines \cup {None}] /\ paid \in [Nodes -> Tokens \cup {None}]
  /\ version \in [Nodes -> {0} \cup Releases]
  /\ job \in [Nodes -> [Releases -> [status : Statuses, all : BOOLEAN]]]
  /\ requests \subseteq [machine : Machines, token : Tokens, awaited : BOOLEAN]
  /\ env \in [Machines -> Tokens \cup {None}]
  /\ credential \in [Machines -> {0} \cup Nodes] /\ gets \in [Machines -> {0} \cup Nodes]
  /\ marker \in [Machines -> BOOLEAN] /\ enabled \in [Machines -> BOOLEAN]
  /\ proc \in [Machines -> {"off", "joining", "saving", "polling", "removing", "marking",
                            "disabling"}]
  /\ proven \subseteq Releases
  /\ faults \in 0..start.faults

\* The n-th node there is at the beginning.
Joined(n) == n <= Len(start.joined)
Joiner(m) == {n \in Nodes : Joined(n) /\ start.joined[n].machine = m}

Init ==
  /\ start \in Starts
  /\ token = [t \in Tokens |-> IF t \in start.tokens THEN "none" ELSE "gone"]
  /\ status = [n \in Nodes |-> IF Joined(n) THEN "active" ELSE "none"]
  /\ origin = [n \in Nodes |-> IF Joined(n) THEN start.joined[n].machine ELSE None]
  /\ paid = [n \in Nodes |-> IF Joined(n) THEN start.joined[n].token ELSE None]
  /\ version = [n \in Nodes |-> 0] /\ job = [n \in Nodes |-> [v \in Releases |-> NoJob]]
  /\ requests = {}
  /\ credential = [m \in Machines |-> IF Joiner(m) = {} THEN 0 ELSE CHOOSE n \in Joiner(m) : TRUE]
  /\ env = [m \in Machines |-> IF Joiner(m) = {} THEN None ELSE paid[credential[m]]]
  /\ marker = [m \in Machines |-> FALSE] /\ enabled = [m \in Machines |-> Joiner(m) # {}]
  /\ proc = [m \in Machines |-> "off"] /\ gets = [m \in Machines |-> 0]
  /\ proven = {} /\ faults = 0

Becomes(m, p) == proc' = [proc EXCEPT ![m] = p]

Fault == faults < start.faults /\ faults' = faults + 1

-------------------------------------------------------------------------------
\* Tokens.

CreateEnrollment(t) ==
  /\ token[t] = "none" /\ token' = [token EXCEPT ![t] = "usable"]
  /\ UNCHANGED <<status, origin, paid, updateVars, requests, machineVars, faults>>

\* Maintenance removes an enrolment a day after it expired, used or not: that changes nothing.
Expire(t) ==
  /\ token[t] = "usable" /\ token' = [token EXCEPT ![t] = "gone"]
  /\ UNCHANGED <<status, origin, paid, updateVars, requests, machineVars, faults>>

-------------------------------------------------------------------------------
\* The agent's process.

\* loadState; Restart=always starts a process that ended once more.
Boot(m) ==
  /\ enabled[m] /\ proc[m] = "off" /\ ~marker[m]
  /\ IF credential[m] # 0 THEN Becomes(m, "polling")
                          ELSE env[m] # None /\ Becomes(m, "joining")
  /\ UNCHANGED <<controllerVars, updateVars, requests, env, credential, marker, enabled, gets,
                 faults>>

Awaited(m) == {q \in requests : q.machine = m /\ q.awaited}

\* handleAgentEnroll looks at the token before it takes the lock.
Ask(m) ==
  /\ proc[m] = "joining" /\ Awaited(m) = {}
  /\ IF token[env[m]] = "usable"
       THEN /\ requests' = requests \cup {[machine |-> m, token |-> env[m], awaited |-> TRUE]}
            /\ UNCHANGED proc
       ELSE Becomes(m, "off") /\ UNCHANGED requests
  /\ UNCHANGED <<controllerVars, updateVars, env, credential, marker, enabled, gets, faults>>

\* Mutant: the transaction trusts the first look.
AdmitsAny(q) == TRUE

\* The transaction looks again.
Admits(q) == token[q.token] = "usable"

Fresh == {n \in Nodes : status[n] = "none" /\ \A k \in 1..(n - 1) : status[k] # "none"}

\* The answer may be lost: the token is used, and the machine has no credential.
Enroll(q) ==
  /\ requests' = requests \ {q}
  /\ IF Admits(q)
       THEN \E n \in Fresh :
              /\ token' = [token EXCEPT ![q.token] = "used"]
              /\ status' = [status EXCEPT ![n] = "active"]
              /\ origin' = [origin EXCEPT ![n] = q.machine]
              /\ paid' = [paid EXCEPT ![n] = q.token]
              /\ \/ /\ q.awaited /\ Becomes(q.machine, "saving")
                    /\ gets' = [gets EXCEPT ![q.machine] = n] /\ UNCHANGED faults
                 \/ /\ q.awaited /\ Fault /\ Becomes(q.machine, "off") /\ UNCHANGED gets
                 \/ ~q.awaited /\ UNCHANGED <<proc, gets, faults>>
       ELSE /\ IF q.awaited THEN Becomes(q.machine, "off") ELSE UNCHANGED proc
            /\ UNCHANGED <<controllerVars, gets, faults>>
  /\ UNCHANGED <<updateVars, env, credential, marker, enabled>>

Save(m) ==
  /\ proc[m] = "saving"
  /\ credential' = [credential EXCEPT ![m] = gets[m]] /\ gets' = [gets EXCEPT ![m] = 0]
  /\ Becomes(m, "polling")
  /\ UNCHANGED <<controllerVars, updateVars, requests, env, marker, enabled, faults>>

\* A poll that is answered node_unauthorized.
Rejected(m) ==
  /\ proc[m] = "polling" /\ status[credential[m]] = "revoked"
  /\ Becomes(m, "removing")
  /\ UNCHANGED <<controllerVars, updateVars, requests, env, credential, marker, enabled, gets,
                 faults>>

\* Mutant: the unit is disabled first.
DecommissionLast(m) ==
  /\ \/ /\ proc[m] = "removing" /\ Becomes(m, "marking")
        /\ enabled' = [enabled EXCEPT ![m] = FALSE] /\ UNCHANGED <<credential, marker>>
     \/ /\ proc[m] = "marking" /\ Becomes(m, "disabling")
        /\ marker' = [marker EXCEPT ![m] = TRUE] /\ UNCHANGED <<credential, enabled>>
     \/ /\ proc[m] = "disabling" /\ Becomes(m, "off")
        /\ credential' = [credential EXCEPT ![m] = 0] /\ UNCHANGED <<marker, enabled>>
  /\ UNCHANGED <<controllerVars, updateVars, requests, env, gets, faults>>

\* decommissionRevokedAgent, in the order of the code.
Decommission(m) ==
  /\ \/ /\ proc[m] = "removing" /\ Becomes(m, "marking")
        /\ credential' = [credential EXCEPT ![m] = 0] /\ UNCHANGED <<marker, enabled>>
     \/ /\ proc[m] = "marking" /\ Becomes(m, "disabling")
        /\ marker' = [marker EXCEPT ![m] = TRUE] /\ UNCHANGED <<credential, enabled>>
     \/ /\ proc[m] = "disabling" /\ Becomes(m, "off")
        /\ enabled' = [enabled EXCEPT ![m] = FALSE] /\ UNCHANGED <<credential, marker>>
  /\ UNCHANGED <<controllerVars, updateVars, requests, env, gets, faults>>

\* Mutant: a state no process is in.
EndsMisspelt(m) ==
  /\ Becomes(m, "of") /\ gets' = [gets EXCEPT ![m] = 0]
  /\ requests' = {[q EXCEPT !.awaited = q.awaited /\ q.machine # m] : q \in requests}

\* The process ends; a request of its own goes on without it.
Ends(m) ==
  /\ Becomes(m, "off") /\ gets' = [gets EXCEPT ![m] = 0]
  /\ requests' = {[q EXCEPT !.awaited = q.awaited /\ q.machine # m] : q \in requests}

\* It gives up waiting, is killed, or cannot write its file.
Stop(m) ==
  /\ proc[m] # "off" /\ Fault /\ Ends(m)
  /\ UNCHANGED <<controllerVars, updateVars, env, credential, marker, enabled>>

-------------------------------------------------------------------------------
\* The installer on the machine; situations without tokens leave it out.

\* A token removes the marker of an earlier revocation; a credential is kept.
Install(m, t) ==
  /\ token[t] # "none" /\ start.tokens # {}
  /\ marker' = [marker EXCEPT ![m] = FALSE]
  /\ env' = [env EXCEPT ![m] = IF credential[m] = 0 THEN t ELSE @]
  /\ enabled' = [enabled EXCEPT ![m] = TRUE] /\ Ends(m)
  /\ IF credential[m] = 0 THEN UNCHANGED faults ELSE Fault
  /\ UNCHANGED <<controllerVars, updateVars, credential>>

Revoked(n) ==
  /\ status' = [status EXCEPT ![n] = "revoked"]
  /\ job' = [job EXCEPT ![n] = [v \in Releases |->
               IF @[v].status \in {"queued", "running"} THEN [@[v] EXCEPT !.status = "failed"]
                                                        ELSE @[v]]]

\* Local files go if the controller confirmed the revocation, if there never was an agent, or
\* by force; otherwise the agent is started again.
Cleans(m) ==
  /\ env' = [env EXCEPT ![m] = None] /\ credential' = [credential EXCEPT ![m] = 0]
  /\ marker' = [marker EXCEPT ![m] = FALSE] /\ enabled' = [enabled EXCEPT ![m] = FALSE]

Reenables(m) ==
  enabled' = [enabled EXCEPT ![m] = TRUE] /\ UNCHANGED <<env, credential, marker>>

Uninstall(m, force) ==
  /\ start.tokens # {} /\ env[m] # None /\ Ends(m)
  /\ LET n == credential[m]
         reached == n # 0 /\ status[n] = "active" IN
     \/ /\ reached /\ Revoked(n) /\ Cleans(m) /\ UNCHANGED faults
     \/ /\ reached /\ Fault /\ (Revoked(n) \/ UNCHANGED <<status, job>>)
        /\ IF force THEN Cleans(m) ELSE Reenables(m)
     \/ /\ ~reached /\ IF force \/ n = 0 THEN UNCHANGED faults ELSE Fault
        /\ (IF force THEN Cleans(m) ELSE Reenables(m)) /\ UNCHANGED <<status, job>>
  /\ UNCHANGED <<token, origin, paid, version, proven>>

-------------------------------------------------------------------------------
\* The administrator's requests; a release may have been read some time ago.

Revoke(n) ==
  /\ status[n] = "active" /\ Revoked(n)
  /\ UNCHANGED <<token, origin, paid, version, proven, requests, machineVars, faults>>

Active(n) == \E v \in Releases : job[n][v].status \in {"queued", "running"}

Queues(S, v, all) ==
  /\ v \in start.releases
  /\ job' = [n \in Nodes |-> IF n \in S THEN [job[n] EXCEPT ![v] =
                                                [status |-> "queued", all |-> all]] ELSE job[n]]
  /\ UNCHANGED <<controllerVars, version, proven, requests, machineVars, faults>>

UpdateOne(n, v) ==
  /\ status[n] = "active" /\ version[n] < v /\ ~Active(n)
  /\ Queues({n}, v, FALSE)

Current == {n \in Nodes : status[n] = "active"}

\* latestAtlasUpdateJobs
Succeeded(v) == {n \in Current : job[n][v].status = "succeeded" /\ version[n] = v}
Failed(v)    == {n \in Current : job[n][v].status = "failed" /\ version[n] # v}

\* Mutant: failures are not looked at.
QuietIfIdle(v) == \A n \in Nodes : ~Active(n)

Quiet(v) == Failed(v) = {} /\ \A n \in Nodes : ~Active(n)

\* Any nodes may be offline, unhealthy, busy or of another architecture; the controller's own
\* machine comes last.
UpdateAll(v) ==
  /\ Quiet(v)
  /\ LET limit == IF Succeeded(v) = {} THEN 1 ELSE Batch IN
     \E candidates \in SUBSET {n \in Current : version[n] < v} : \E S \in SUBSET candidates :
       /\ S # {} /\ Cardinality(S) <= limit
       /\ Cardinality(S) = limit \/ S = candidates
       /\ \A n \in S : origin[n] = Own => \A k \in candidates \ S : origin[k] = Own
       /\ Queues(S, v, TRUE)

Retry(n, v) ==
  /\ status[n] = "active" /\ job[n][v].status = "failed"
  /\ Queues({n}, v, job[n][v].all)

Clear ==
  /\ job' = [n \in Nodes |-> [v \in Releases |->
               IF job[n][v].status \in {"queued", "failed"} THEN NoJob ELSE job[n][v]]]
  /\ UNCHANGED <<controllerVars, version, proven, requests, machineVars, faults>>

-------------------------------------------------------------------------------
\* The update of one node: it starts with a poll, and fails with either version in the end.

Moves(n, v, from, to) ==
  /\ status[n] = "active" /\ job[n][v].status = from
  /\ job' = [job EXCEPT ![n][v].status = to]
  /\ UNCHANGED <<controllerVars, requests, machineVars, faults>>

Begin(n, v) ==
  /\ \E m \in Machines : credential[m] = n /\ proc[m] = "polling"
  /\ \A w \in Releases : job[n][w].status # "running"
  /\ Moves(n, v, "queued", "running") /\ UNCHANGED <<version, proven>>

\* requireVersionUpgrade
Installs(n, v) == version[n] < v

Succeed(n, v) ==
  /\ Installs(n, v) /\ Moves(n, v, "running", "succeeded")
  /\ version' = [version EXCEPT ![n] = v] /\ proven' = proven \cup {v}

\* Maintenance gives a job back that was not answered, and gives up one that was not fetched.
Overdue(n, v) ==
  /\ Moves(n, v, "running", "queued") \/ Moves(n, v, "queued", "failed")
  /\ UNCHANGED <<version, proven>>

Fail(n, v) ==
  /\ Moves(n, v, "running", "failed")
  /\ \E w \in {version[n]} \cup (IF Installs(n, v) THEN {v} ELSE {}) :
       version' = [version EXCEPT ![n] = w]
  /\ UNCHANGED proven

Agent(m) == Boot(m) \/ Ask(m) \/ Save(m) \/ Rejected(m) \/ Decommission(m)

Step ==
  \/ \E t \in Tokens : CreateEnrollment(t) \/ Expire(t)
  \/ \E m \in Machines : Agent(m) \/ Stop(m)
  \/ \E q \in requests : Enroll(q)
  \/ \E m \in Machines, t \in Tokens : Install(m, t)
  \/ \E m \in Machines, force \in BOOLEAN : Uninstall(m, force)
  \/ \E n \in Nodes : Revoke(n)
  \/ \E n \in Nodes, v \in Releases :
       UpdateOne(n, v) \/ Retry(n, v)
         \/ Begin(n, v) \/ Succeed(n, v) \/ Fail(n, v) \/ Overdue(n, v)
  \/ \E v \in Releases : UpdateAll(v)
  \/ Clear

Next == Step /\ UNCHANGED start

\* The agents' processes go on; an installer interrupts them only so often.
Fairness == \A m \in Machines : WF_vars(Agent(m) /\ UNCHANGED start)

Spec == Init /\ [][Next]_vars /\ Fairness

-------------------------------------------------------------------------------
\* A token admits one node, however many requests with it were under way at once.
TokenOnce ==
  \A n, k \in Nodes : paid[n] # None /\ paid[n] = paid[k] => n = k

\* As long as no node was updated to a release, an update of all has at most one node at a
\* time whose update to it waits, runs or has failed.
CanaryFirst ==
  \A v \in Releases \ proven :
    Cardinality({n \in Current : job[n][v].all /\ version[n] < v}) <= 1

\* The agent of a node that was removed deletes its credential in the end.
RevokedLeaves ==
  []<>(\A m \in Machines : credential[m] # 0 => status[credential[m]] = "active")
===============================================================================
