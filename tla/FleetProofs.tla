------------------------------ MODULE FleetProofs ------------------------------
(***************************************************************************)
(* Proofs about the fleet, for any machines, tokens, releases and numbers  *)
(* of nodes: a token admits one node, and a release that nobody runs yet   *)
(* is tried on one node only.                                              *)
(***************************************************************************)
EXTENDS Fleet, FiniteSetTheorems, TLAPS

\* The type invariant in parts.
ControllerTypes ==
  /\ token \in [Tokens -> {"none", "usable", "used", "gone"}]
  /\ status \in [Nodes -> {"none", "active", "revoked"}]
  /\ origin \in [Nodes -> Machines \cup {None}] /\ paid \in [Nodes -> Tokens \cup {None}]

UpdateTypes ==
  /\ version \in [Nodes -> {0} \cup Releases] /\ proven \subseteq Releases
  /\ job \in [Nodes -> [Releases -> [status : Statuses, all : BOOLEAN]]]

MachineTypes ==
  /\ env \in [Machines -> Tokens \cup {None}]
  /\ credential \in [Machines -> {0} \cup Nodes] /\ gets \in [Machines -> {0} \cup Nodes]
  /\ marker \in [Machines -> BOOLEAN] /\ enabled \in [Machines -> BOOLEAN]
  /\ proc \in [Machines -> {"off", "joining", "saving", "polling", "removing", "marking",
                            "disabling"}]

RequestTypes == requests \subseteq [machine : Machines, token : Tokens, awaited : BOOLEAN]

BoundTypes == start \in Starts /\ faults \in 0..start.faults

LEMMA TypeParts ==
  TypeOK <=> ControllerTypes /\ UpdateTypes /\ MachineTypes /\ RequestTypes /\ BoundTypes
  BY DEF TypeOK, ControllerTypes, UpdateTypes, MachineTypes, RequestTypes, BoundTypes

\* An agent that enrols has a token.
JoinInv == \A m \in Machines : proc[m] = "joining" => env[m] # None

Jobs == [Nodes -> [Releases -> [status : Statuses, all : BOOLEAN]]]

LEMMA RevokedTypes ==
  ASSUME UpdateTypes, NEW n \in Nodes, Revoked(n)
  PROVE  job' \in Jobs
<1> DEFINE ended == [v \in Releases |-> IF job[n][v].status \in {"queued", "running"}
                                       THEN [job[n][v] EXCEPT !.status = "failed"] ELSE job[n][v]]
<1>1. ended \in [Releases -> [status : Statuses, all : BOOLEAN]]
  <2>1. ASSUME NEW v \in Releases
        PROVE  /\ job[n][v] \in [status : Statuses, all : BOOLEAN]
               /\ [job[n][v] EXCEPT !.status = "failed"] \in [status : Statuses, all : BOOLEAN]
    BY DEF UpdateTypes, Statuses
  <2> QED BY <2>1
<1>2. job' = [job EXCEPT ![n] = ended]
  BY DEF Revoked
<1> QED BY <1>1, <1>2 DEF UpdateTypes, Jobs

LEMMA MovedTypes ==
  ASSUME UpdateTypes, NEW n \in Nodes, NEW v \in Releases, NEW to \in Statuses,
         job' = [job EXCEPT ![n][v].status = to]
  PROVE  job' \in Jobs
<1>0. job[n][v] \in [status : Statuses, all : BOOLEAN]
  BY DEF UpdateTypes
<1>1. [job[n][v] EXCEPT !.status = to] \in [status : Statuses, all : BOOLEAN]
  BY <1>0
<1>2. [job[n] EXCEPT ![v].status = to] \in [Releases -> [status : Statuses, all : BOOLEAN]]
  BY <1>1 DEF UpdateTypes
<1> QED BY <1>2 DEF UpdateTypes, Jobs

LEMMA QueuedTypes ==
  ASSUME UpdateTypes, NEW S \in SUBSET Nodes, NEW v \in Releases, NEW all \in BOOLEAN,
         Queues(S, v, all)
  PROVE  job' \in Jobs
<1> DEFINE queued(n) == [job[n] EXCEPT ![v] = [status |-> "queued", all |-> all]]
<1>1. ASSUME NEW n \in Nodes
      PROVE  job[n] \in [Releases -> [status : Statuses, all : BOOLEAN]]
             /\ queued(n) \in [Releases -> [status : Statuses, all : BOOLEAN]]
  BY DEF UpdateTypes, Statuses
<1>2. job' = [n \in Nodes |-> IF n \in S THEN queued(n) ELSE job[n]]
  BY DEF Queues
<1> QED BY <1>1, <1>2 DEF Jobs

LEMMA EndsTypes ==
  ASSUME RequestTypes, NEW m \in Machines, Ends(m)
  PROVE  RequestTypes'
<1>1. ASSUME NEW q \in requests
      PROVE  [q EXCEPT !.awaited = q.awaited /\ q.machine # m]
               \in [machine : Machines, token : Tokens, awaited : BOOLEAN]
  BY DEF RequestTypes
<1>2. requests' = {[q EXCEPT !.awaited = q.awaited /\ q.machine # m] : q \in requests}
  BY DEF Ends
<1> QED BY <1>1, <1>2 DEF RequestTypes

LEMMA ControllerTypesStep ==
  ASSUME TypeOK, [Next]_vars
  PROVE  ControllerTypes'
<1> USE DEF TypeOK, ControllerTypes, controllerVars, updateVars, machineVars
<1>1. ASSUME NEW t \in Tokens, CreateEnrollment(t) \/ Expire(t)
      PROVE  ControllerTypes'
  BY <1>1 DEF CreateEnrollment, Expire
<1>2. ASSUME NEW m \in Machines, Boot(m) \/ Ask(m) \/ Save(m) \/ Rejected(m)
      PROVE  ControllerTypes'
  BY <1>2 DEF Boot, Ask, Save, Rejected, Becomes
<1>3. ASSUME NEW m \in Machines, Decommission(m)
      PROVE  ControllerTypes'
  BY <1>3 DEF Decommission, Becomes
<1>4. ASSUME NEW m \in Machines, Stop(m)
      PROVE  ControllerTypes'
  BY <1>4 DEF Stop, Ends, Becomes, Fault
<1>5. ASSUME NEW q \in requests, Enroll(q)
      PROVE  ControllerTypes'
  BY <1>5 DEF Enroll, Fresh, Becomes, Fault
<1>6. ASSUME NEW m \in Machines, NEW t \in Tokens, Install(m, t)
      PROVE  ControllerTypes'
  BY <1>6 DEF Install, Ends, Becomes, Fault
<1>7. ASSUME NEW m \in Machines, NEW force \in BOOLEAN, Uninstall(m, force)
      PROVE  ControllerTypes'
  BY <1>7 DEF Uninstall, Ends, Becomes, Fault, Revoked, Cleans, Reenables
<1>8. ASSUME NEW n \in Nodes, Revoke(n)
      PROVE  ControllerTypes'
  BY <1>8 DEF Revoke, Revoked
<1>9. ASSUME NEW n \in Nodes, NEW v \in Releases,
             UpdateOne(n, v) \/ Retry(n, v) \/ Begin(n, v) \/ Succeed(n, v) \/ Fail(n, v) \/ Overdue(n, v)
      PROVE  ControllerTypes'
  BY <1>9 DEF UpdateOne, Retry, Begin, Succeed, Fail, Overdue, Moves, Queues
<1>10. ASSUME NEW v \in Releases, UpdateAll(v)
       PROVE  ControllerTypes'
  BY <1>10 DEF UpdateAll, Queues
<1>11. ASSUME Clear
       PROVE  ControllerTypes'
  BY <1>11 DEF Clear
<1>12. ASSUME UNCHANGED vars
       PROVE  ControllerTypes'
  BY <1>12 DEF vars
<1> QED
  BY <1>1, <1>2, <1>3, <1>4, <1>5, <1>6, <1>7, <1>8, <1>9, <1>10, <1>11, <1>12
     DEF Next, Step, Agent

LEMMA UpdateTypesStep ==
  ASSUME TypeOK, [Next]_vars
  PROVE  UpdateTypes'
<1> USE TypeParts DEF UpdateTypes, Statuses, NoJob, controllerVars, updateVars, machineVars
<1>1. ASSUME NEW t \in Tokens, CreateEnrollment(t) \/ Expire(t)
      PROVE  UpdateTypes'
  BY <1>1 DEF CreateEnrollment, Expire
<1>2. ASSUME NEW m \in Machines, Boot(m) \/ Ask(m) \/ Save(m) \/ Rejected(m)
      PROVE  UpdateTypes'
  BY <1>2 DEF Boot, Ask, Save, Rejected, Becomes
<1>3. ASSUME NEW m \in Machines, Decommission(m)
      PROVE  UpdateTypes'
  BY <1>3 DEF Decommission, Becomes
<1>4. ASSUME NEW m \in Machines, Stop(m)
      PROVE  UpdateTypes'
  BY <1>4 DEF Stop, Ends, Becomes, Fault
<1>5. ASSUME NEW q \in requests, Enroll(q)
      PROVE  UpdateTypes'
  BY <1>5 DEF Enroll, Fresh, Becomes, Fault
<1>6. ASSUME NEW m \in Machines, NEW t \in Tokens, Install(m, t)
      PROVE  UpdateTypes'
  BY <1>6 DEF Install, Ends, Becomes, Fault
<1>7. ASSUME NEW m \in Machines, NEW force \in BOOLEAN, Uninstall(m, force)
      PROVE  UpdateTypes'
  <2>1. CASE credential[m] \in Nodes /\ Revoked(credential[m])
    BY <1>7, <2>1, RevokedTypes DEF Uninstall, Jobs
  <2>2. CASE UNCHANGED job
    BY <1>7, <2>2 DEF Uninstall
  <2> QED BY <1>7, <2>1, <2>2 DEF Uninstall, MachineTypes
<1>8. ASSUME NEW n \in Nodes, Revoke(n)
      PROVE  UpdateTypes'
  BY <1>8, RevokedTypes DEF Revoke, Jobs
<1>9. ASSUME NEW n \in Nodes, NEW v \in Releases,
             UpdateOne(n, v) \/ Retry(n, v) \/ Begin(n, v) \/ Succeed(n, v) \/ Fail(n, v) \/ Overdue(n, v)
      PROVE  UpdateTypes'
  <2>1. CASE UpdateOne(n, v)
    BY <2>1, QueuedTypes DEF UpdateOne, Queues, Jobs
  <2>2. CASE Retry(n, v)
    <3>1. job[n][v].all \in BOOLEAN
      OBVIOUS
    <3> QED BY <2>2, <3>1, QueuedTypes DEF Retry, Queues, Jobs
  <2>3. ASSUME NEW from, NEW to \in Statuses, Moves(n, v, from, to)
        PROVE  job' \in Jobs
    BY <2>3, MovedTypes DEF Moves
  <2>4. CASE Begin(n, v) \/ Overdue(n, v)
    BY <2>3, <2>4 DEF Begin, Overdue, Jobs
  <2>5. CASE Succeed(n, v)
    BY <2>3, <2>5 DEF Succeed, Jobs
  <2>6. CASE Fail(n, v)
    BY <2>3, <2>6 DEF Fail, Jobs
  <2> QED BY <1>9, <2>1, <2>2, <2>4, <2>5, <2>6
<1>10. ASSUME NEW v \in Releases, UpdateAll(v)
       PROVE  UpdateTypes'
  BY <1>10 DEF UpdateAll, Queues
<1>11. ASSUME Clear
       PROVE  UpdateTypes'
  BY <1>11 DEF Clear
<1>12. ASSUME UNCHANGED vars
       PROVE  UpdateTypes'
  BY <1>12 DEF vars
<1> QED
  BY <1>1, <1>2, <1>3, <1>4, <1>5, <1>6, <1>7, <1>8, <1>9, <1>10, <1>11, <1>12
     DEF Next, Step, Agent

LEMMA MachineTypesStep ==
  ASSUME TypeOK, [Next]_vars
  PROVE  MachineTypes'
<1> USE FleetAssumption, TypeParts DEF MachineTypes, controllerVars, updateVars, machineVars
<1>1. ASSUME NEW t \in Tokens, CreateEnrollment(t) \/ Expire(t)
      PROVE  MachineTypes'
  BY <1>1 DEF CreateEnrollment, Expire
<1>2. ASSUME NEW m \in Machines, Boot(m) \/ Ask(m) \/ Save(m) \/ Rejected(m)
      PROVE  MachineTypes'
  <2>1. CASE Save(m)
    BY <2>1 DEF Save, Becomes
  <2>2. CASE Boot(m) \/ Ask(m) \/ Rejected(m)
    BY <2>2 DEF Boot, Ask, Rejected, Becomes
  <2> QED BY <1>2, <2>1, <2>2
<1>3. ASSUME NEW m \in Machines, Decommission(m)
      PROVE  MachineTypes'
  BY <1>3 DEF Decommission, Becomes
<1>4. ASSUME NEW m \in Machines, Stop(m)
      PROVE  MachineTypes'
  BY <1>4 DEF Stop, Ends, Becomes, Fault
<1>5. ASSUME NEW q \in requests, Enroll(q)
      PROVE  MachineTypes'
  <2>1. q.machine \in Machines
    BY DEF RequestTypes
  <2>2. proc' = proc \/ proc' = [proc EXCEPT ![q.machine] = "saving"]
          \/ proc' = [proc EXCEPT ![q.machine] = "off"]
    BY <1>5 DEF Enroll, Becomes
  <2>3. gets' = gets \/ \E n \in Nodes : gets' = [gets EXCEPT ![q.machine] = n]
    BY <1>5 DEF Enroll, Fresh
  <2> QED BY <1>5, <2>1, <2>2, <2>3 DEF Enroll
<1>6. ASSUME NEW m \in Machines, NEW t \in Tokens, Install(m, t)
      PROVE  MachineTypes'
  BY <1>6 DEF Install, Ends, Becomes, Fault
<1>7. ASSUME NEW m \in Machines, NEW force \in BOOLEAN, Uninstall(m, force)
      PROVE  MachineTypes'
  BY <1>7 DEF Uninstall, Ends, Becomes, Fault, Revoked, Cleans, Reenables
<1>8. ASSUME NEW n \in Nodes, Revoke(n)
      PROVE  MachineTypes'
  BY <1>8 DEF Revoke, Revoked
<1>9. ASSUME NEW n \in Nodes, NEW v \in Releases,
             UpdateOne(n, v) \/ Retry(n, v) \/ Begin(n, v) \/ Succeed(n, v) \/ Fail(n, v) \/ Overdue(n, v)
      PROVE  MachineTypes'
  BY <1>9 DEF UpdateOne, Retry, Begin, Succeed, Fail, Overdue, Moves, Queues
<1>10. ASSUME NEW v \in Releases, UpdateAll(v)
       PROVE  MachineTypes'
  BY <1>10 DEF UpdateAll, Queues
<1>11. ASSUME Clear
       PROVE  MachineTypes'
  BY <1>11 DEF Clear
<1>12. ASSUME UNCHANGED vars
       PROVE  MachineTypes'
  BY <1>12 DEF vars
<1> QED
  BY <1>1, <1>2, <1>3, <1>4, <1>5, <1>6, <1>7, <1>8, <1>9, <1>10, <1>11, <1>12
     DEF Next, Step, Agent

LEMMA RequestTypesStep ==
  ASSUME TypeOK, JoinInv, [Next]_vars
  PROVE  RequestTypes'
<1> USE TypeParts DEF JoinInv, RequestTypes, controllerVars, updateVars, machineVars
<1>1. ASSUME NEW t \in Tokens, CreateEnrollment(t) \/ Expire(t)
      PROVE  RequestTypes'
  BY <1>1 DEF CreateEnrollment, Expire
<1>2. ASSUME NEW m \in Machines, Boot(m) \/ Ask(m) \/ Save(m) \/ Rejected(m)
      PROVE  RequestTypes'
  <2>1. CASE Ask(m)
    <3>1. env[m] \in Tokens
      BY <2>1 DEF Ask, MachineTypes
    <3>2. requests' \subseteq requests \cup {[machine |-> m, token |-> env[m], awaited |-> TRUE]}
      BY <2>1 DEF Ask
    <3>3. [machine |-> m, token |-> env[m], awaited |-> TRUE]
            \in [machine : Machines, token : Tokens, awaited : BOOLEAN]
      BY <3>1
    <3>4. requests \subseteq [machine : Machines, token : Tokens, awaited : BOOLEAN]
      OBVIOUS
    <3> QED BY <3>2, <3>3, <3>4 DEF RequestTypes
  <2>2. CASE Boot(m) \/ Save(m) \/ Rejected(m)
    BY <2>2 DEF Boot, Save, Rejected
  <2> QED BY <1>2, <2>1, <2>2
<1>3. ASSUME NEW m \in Machines, Decommission(m)
      PROVE  RequestTypes'
  BY <1>3 DEF Decommission, Becomes
<1>4. ASSUME NEW m \in Machines, Stop(m)
      PROVE  RequestTypes'
  BY <1>4, EndsTypes DEF Stop
<1>5. ASSUME NEW q \in requests, Enroll(q)
      PROVE  RequestTypes'
  BY <1>5 DEF Enroll, Fresh, Becomes, Fault
<1>6. ASSUME NEW m \in Machines, NEW t \in Tokens, Install(m, t)
      PROVE  RequestTypes'
  BY <1>6, EndsTypes DEF Install
<1>7. ASSUME NEW m \in Machines, NEW force \in BOOLEAN, Uninstall(m, force)
      PROVE  RequestTypes'
  BY <1>7, EndsTypes DEF Uninstall
<1>8. ASSUME NEW n \in Nodes, Revoke(n)
      PROVE  RequestTypes'
  BY <1>8 DEF Revoke, Revoked
<1>9. ASSUME NEW n \in Nodes, NEW v \in Releases,
             UpdateOne(n, v) \/ Retry(n, v) \/ Begin(n, v) \/ Succeed(n, v) \/ Fail(n, v) \/ Overdue(n, v)
      PROVE  RequestTypes'
  BY <1>9 DEF UpdateOne, Retry, Begin, Succeed, Fail, Overdue, Moves, Queues
<1>10. ASSUME NEW v \in Releases, UpdateAll(v)
       PROVE  RequestTypes'
  BY <1>10 DEF UpdateAll, Queues
<1>11. ASSUME Clear
       PROVE  RequestTypes'
  BY <1>11 DEF Clear
<1>12. ASSUME UNCHANGED vars
       PROVE  RequestTypes'
  BY <1>12 DEF vars
<1> QED
  BY <1>1, <1>2, <1>3, <1>4, <1>5, <1>6, <1>7, <1>8, <1>9, <1>10, <1>11, <1>12
     DEF Next, Step, Agent

LEMMA JoinStep ==
  ASSUME TypeOK, JoinInv, [Next]_vars
  PROVE  JoinInv'
<1> USE FleetAssumption DEF TypeOK, JoinInv, controllerVars, updateVars, machineVars
<1>1. ASSUME NEW t \in Tokens, CreateEnrollment(t) \/ Expire(t)
      PROVE  JoinInv'
  BY <1>1 DEF CreateEnrollment, Expire
<1>2. ASSUME NEW m \in Machines, Boot(m) \/ Ask(m) \/ Save(m) \/ Rejected(m)
      PROVE  JoinInv'
  BY <1>2 DEF Boot, Ask, Save, Rejected, Becomes
<1>3. ASSUME NEW m \in Machines, Decommission(m)
      PROVE  JoinInv'
  BY <1>3 DEF Decommission, Becomes
<1>4. ASSUME NEW m \in Machines, Stop(m)
      PROVE  JoinInv'
  BY <1>4 DEF Stop, Ends, Becomes, Fault
<1>5. ASSUME NEW q \in requests, Enroll(q)
      PROVE  JoinInv'
  BY <1>5 DEF Enroll, Fresh, Becomes, Fault
<1>6. ASSUME NEW m \in Machines, NEW t \in Tokens, Install(m, t)
      PROVE  JoinInv'
  BY <1>6 DEF Install, Ends, Becomes, Fault
<1>7. ASSUME NEW m \in Machines, NEW force \in BOOLEAN, Uninstall(m, force)
      PROVE  JoinInv'
  BY <1>7 DEF Uninstall, Ends, Becomes, Fault, Revoked, Cleans, Reenables
<1>8. ASSUME NEW n \in Nodes, Revoke(n)
      PROVE  JoinInv'
  BY <1>8 DEF Revoke, Revoked
<1>9. ASSUME NEW n \in Nodes, NEW v \in Releases,
             UpdateOne(n, v) \/ Retry(n, v) \/ Begin(n, v) \/ Succeed(n, v) \/ Fail(n, v) \/ Overdue(n, v)
      PROVE  JoinInv'
  BY <1>9 DEF UpdateOne, Retry, Begin, Succeed, Fail, Overdue, Moves, Queues
<1>10. ASSUME NEW v \in Releases, UpdateAll(v)
       PROVE  JoinInv'
  BY <1>10 DEF UpdateAll, Queues
<1>11. ASSUME Clear
       PROVE  JoinInv'
  BY <1>11 DEF Clear
<1>12. ASSUME UNCHANGED vars
       PROVE  JoinInv'
  BY <1>12 DEF vars
<1> QED
  BY <1>1, <1>2, <1>3, <1>4, <1>5, <1>6, <1>7, <1>8, <1>9, <1>10, <1>11, <1>12
     DEF Next, Step, Agent

-------------------------------------------------------------------------------
\* What a token admitted, and that it admits nothing else.
PaidInv ==
  /\ token \in [Tokens -> {"none", "usable", "used", "gone"}]
  /\ paid \in [Nodes -> Tokens \cup {None}]
  /\ \A q \in requests : q.token \in Tokens
  /\ \A n \in Nodes : paid[n] # None => token[paid[n]] \in {"used", "gone"}
  /\ TokenOnce

\* Steps that leave nodes and tokens as they are.
TokenStep ==
  /\ paid' = paid
  /\ \A q \in requests' : q.token \in Tokens
  /\ token' \in [Tokens -> {"none", "usable", "used", "gone"}]
  /\ \A t \in Tokens : token[t] \in {"used", "gone"} => token'[t] = token[t]

LEMMA TokenStepKeeps ==
  ASSUME PaidInv, TokenStep
  PROVE  PaidInv'
<1>1. \A n \in Nodes : paid[n] # None => paid[n] \in Tokens
  BY DEF PaidInv
<1>2. (\A n \in Nodes : paid[n] # None => token[paid[n]] \in {"used", "gone"})'
  BY <1>1 DEF PaidInv, TokenStep
<1>3. TokenOnce'
  BY DEF PaidInv, TokenStep, TokenOnce
<1> QED BY <1>2, <1>3 DEF PaidInv, TokenStep

LEMMA PaidByEnrollment ==
  ASSUME PaidInv, NEW q \in requests, Enroll(q)
  PROVE  PaidInv'
<1>1. CASE ~Admits(q)
  BY <1>1, TokenStepKeeps DEF PaidInv, TokenStep, Enroll, controllerVars
<1>2. CASE Admits(q)
  <2>1. q.token \in Tokens /\ token[q.token] = "usable" /\ requests' \subseteq requests
    BY <1>2 DEF PaidInv, Admits, Enroll
  <2>2. PICK n \in Nodes : /\ token' = [token EXCEPT ![q.token] = "used"]
                           /\ paid' = [paid EXCEPT ![n] = q.token]
    BY <1>2 DEF Enroll, Fresh
  <2>3. \A k \in Nodes : paid'[k] = IF k = n THEN q.token ELSE paid[k]
    BY <2>2 DEF PaidInv
  <2>4. \A t \in Tokens : token'[t] = IF t = q.token THEN "used" ELSE token[t]
    BY <2>2 DEF PaidInv
  <2>5. \A k \in Nodes : paid[k] # None => paid[k] \in Tokens /\ paid[k] # q.token
    BY <2>1 DEF PaidInv
  <2>6. (\A k \in Nodes : paid[k] # None => token[paid[k]] \in {"used", "gone"})'
    BY <2>1, <2>3, <2>4, <2>5 DEF PaidInv
  <2>7. TokenOnce'
    BY <2>1, <2>3, <2>5 DEF PaidInv, TokenOnce
  <2> QED BY <2>1, <2>2, <2>6, <2>7 DEF PaidInv
<1> QED BY <1>1, <1>2

LEMMA PaidStep ==
  ASSUME TypeOK, JoinInv, PaidInv, [Next]_vars
  PROVE  PaidInv'
<1> USE DEF TokenStep, PaidInv, controllerVars, updateVars, machineVars
<1>1. ASSUME NEW t \in Tokens, CreateEnrollment(t) \/ Expire(t)
      PROVE  TokenStep
  BY <1>1 DEF CreateEnrollment, Expire
<1>2. ASSUME NEW m \in Machines, Agent(m)
      PROVE  TokenStep
  <2>1. CASE Ask(m)
    <3>1. env[m] \in Tokens
      BY <2>1 DEF Ask, JoinInv, TypeOK
    <3> QED BY <2>1, <3>1 DEF Ask
  <2> QED BY <1>2, <2>1 DEF Agent, Boot, Save, Rejected, Decommission
<1>3. ASSUME NEW m \in Machines, Ends(m)
      PROVE  \A q \in requests' : q.token \in Tokens
  BY <1>3 DEF Ends, TypeOK
<1>4. ASSUME NEW m \in Machines, Stop(m)
      PROVE  TokenStep
  BY <1>3, <1>4 DEF Stop
<1>5. ASSUME NEW m \in Machines, NEW t \in Tokens, Install(m, t)
      PROVE  TokenStep
  BY <1>3, <1>5 DEF Install
<1>6. ASSUME NEW m \in Machines, NEW force \in BOOLEAN, Uninstall(m, force)
      PROVE  TokenStep
  BY <1>3, <1>6 DEF Uninstall
<1>7. ASSUME NEW n \in Nodes, Revoke(n)
      PROVE  TokenStep
  BY <1>7 DEF Revoke
<1>8. ASSUME NEW n \in Nodes, NEW v \in Releases,
             UpdateOne(n, v) \/ Retry(n, v) \/ Begin(n, v) \/ Succeed(n, v) \/ Fail(n, v) \/ Overdue(n, v)
      PROVE  TokenStep
  BY <1>8 DEF UpdateOne, Retry, Begin, Succeed, Fail, Overdue, Moves, Queues
<1>9. ASSUME NEW v \in Releases, UpdateAll(v)
      PROVE  TokenStep
  BY <1>9 DEF UpdateAll, Queues
<1>10. ASSUME Clear
       PROVE  TokenStep
  BY <1>10 DEF Clear
<1>11. ASSUME UNCHANGED vars
       PROVE  TokenStep
  BY <1>11 DEF vars
<1> QED
  BY <1>1, <1>2, <1>4, <1>5, <1>6, <1>7, <1>8, <1>9, <1>10, <1>11, TokenStepKeeps, PaidByEnrollment
     DEF Next, Step

-------------------------------------------------------------------------------
\* The nodes a rollout has reached and not updated.
Ahead(v) == {n \in Current : job[n][v].all /\ version[n] < v}

\* Jobs of a rollout are jobs; a success is proof; only nodes that exist have jobs.
JobsInv ==
  \A n \in Nodes, v \in Releases :
    /\ job[n][v].all => job[n][v].status # "none"
    /\ job[n][v].status = "succeeded" => v \in proven
    /\ status[n] = "none" => job[n][v].status = "none"

OneAhead == \A v \in Releases \ proven : \A n, k \in Ahead(v) : n = k

\* What a step that is not UpdateAll makes of a job: it may drop it, or replace it by one that
\* is no rollout's, or move it.
JobStep(n, v) ==
  \/ /\ ~job'[n][v].all
     /\ \/ job'[n][v].status = "none"
        \/ job'[n][v].status = "queued" /\ status'[n] # "none"
  \/ /\ job'[n][v].all = job[n][v].all
     /\ \/ job'[n][v].status = job[n][v].status
        \/ job[n][v].status # "none" /\ job'[n][v].status \in {"queued", "running", "failed"}
        \/ job[n][v].status # "none" /\ job'[n][v].status = "succeeded" /\ v \in proven'

NodeStep ==
  /\ \A n \in Nodes : /\ status[n] # "none" => status'[n] # "none"
                      /\ status'[n] = "active" => status[n] \in {"none", "active"}
                      /\ version'[n] \in Nat /\ version[n] <= version'[n]
  /\ proven \subseteq proven'

LEMMA ReleaseNumbers == Releases \subseteq Nat
  BY FleetAssumption

LEMMA VersionNumbers ==
  ASSUME TypeOK, NEW n \in Nodes
  PROVE  version[n] \in Nat
<1>1. version[n] \in {0} \cup Releases
  BY TypeParts DEF UpdateTypes
<1>2. 0 \in Nat
  OBVIOUS
<1> QED BY <1>1, <1>2, ReleaseNumbers

LEMMA RolloutKept ==
  ASSUME TypeOK, JobsInv, OneAhead, NodeStep, \A n \in Nodes, v \in Releases : JobStep(n, v)
  PROVE  (JobsInv /\ OneAhead)'
<1>1. JobsInv'
  BY DEF JobsInv, NodeStep, JobStep
<1>2. ASSUME NEW v \in Releases, NEW n \in Nodes, n \in Ahead(v)'
      PROVE  n \in Ahead(v)
  <2>1. status'[n] = "active" /\ job'[n][v].all /\ version'[n] < v
    BY <1>2 DEF Ahead, Current
  <2>2. job[n][v].all
    BY <2>1 DEF JobStep
  <2>3. status[n] = "active"
    BY <2>1, <2>2 DEF JobsInv, NodeStep
  <2>4. version[n] < v
    <3>1. version[n] \in Nat /\ v \in Nat
      BY ReleaseNumbers, VersionNumbers
    <3> QED BY <2>1, <3>1 DEF NodeStep
  <2> QED BY <2>2, <2>3, <2>4 DEF Ahead, Current
<1>3. \A v : Ahead(v)' \subseteq Nodes
  BY DEF Ahead, Current
<1>4. OneAhead'
  BY <1>2, <1>3 DEF OneAhead, NodeStep
<1> QED BY <1>1, <1>4

LEMMA OneElement ==
  ASSUME NEW S, IsFiniteSet(S), Cardinality(S) <= 1, NEW x \in S, NEW y \in S
  PROVE  x = y
<1>1. IsFiniteSet(S \ {x}) /\ Cardinality(S \ {x}) = Cardinality(S) - 1
  BY FS_RemoveElement
<1>2. Cardinality(S) \in Nat /\ Cardinality(S \ {x}) \in Nat
  BY <1>1, FS_CardinalityType
<1>3. S \ {x} = {}
  BY <1>1, <1>2, FS_EmptySet
<1> QED BY <1>3

LEMMA NodesFinite == IsFiniteSet(Nodes)
  BY FS_Interval, FleetAssumption DEF Nodes

\* Before a release is proven, an update of all finds no node ahead and queues one.
LEMMA Canary ==
  ASSUME TypeOK, JobsInv, OneAhead, NEW v \in Releases, UpdateAll(v)
  PROVE  (JobsInv /\ OneAhead)'
<1>1. PICK S \in SUBSET Current :
        /\ Cardinality(S) <= (IF Succeeded(v) = {} THEN 1 ELSE Batch)
        /\ Queues(S, v, TRUE)
  BY DEF UpdateAll
<1>2. UNCHANGED <<status, version, proven>> /\ S \subseteq Nodes
  BY <1>1 DEF Queues, Current, controllerVars
<1>3. \A n \in Nodes, w \in Releases :
        job'[n][w] = IF n \in S /\ w = v THEN [status |-> "queued", all |-> TRUE] ELSE job[n][w]
  BY <1>1 DEF Queues, TypeOK
<1>4. JobsInv'
  <2>1. \A n \in S : status[n] = "active"
    BY DEF Current
  <2>2. ASSUME NEW n \in Nodes, NEW w \in Releases
        PROVE  (/\ job[n][w].all => job[n][w].status # "none"
                /\ job[n][w].status = "succeeded" => w \in proven
                /\ status[n] = "none" => job[n][w].status = "none")'
    <3>1. CASE n \in S /\ w = v
      BY <1>2, <1>3, <2>1, <3>1
    <3>2. CASE ~(n \in S /\ w = v)
      BY <1>2, <1>3, <3>2 DEF JobsInv
    <3> QED BY <3>1, <3>2
  <2> QED BY <2>2 DEF JobsInv
<1>5. ASSUME v \notin proven
      PROVE  Ahead(v) = {} /\ Cardinality(S) <= 1
  <2>1. ASSUME NEW n \in Ahead(v)
        PROVE  FALSE
    <3>1. n \in Nodes /\ status[n] = "active" /\ job[n][v].all /\ version[n] # v
      BY ReleaseNumbers DEF Ahead, Current, TypeOK
    <3>2. job[n][v].status \in Statuses \ {"none", "succeeded"}
      BY <1>5, <3>1 DEF JobsInv, TypeOK
    <3>3. job[n][v].status \notin {"queued", "running"}
      BY <3>1 DEF UpdateAll, Quiet, Active
    <3>4. job[n][v].status # "failed"
      BY <3>1 DEF UpdateAll, Quiet, Failed, Current
    <3> QED BY <3>2, <3>3, <3>4 DEF Statuses
  <2>2. Succeeded(v) = {}
    BY <1>5 DEF Succeeded, Current, JobsInv
  <2> QED BY <1>1, <2>1, <2>2
<1>6. ASSUME NEW w \in Releases \ proven, NEW n \in Ahead(w)', NEW k \in Ahead(w)'
      PROVE  n = k
  <2>1. n \in Nodes /\ k \in Nodes
    BY DEF Ahead, Current
  <2>2. CASE w # v
    BY <1>2, <1>3, <2>1, <2>2 DEF Ahead, Current, OneAhead
  <2>3. CASE w = v
    <3>1. ASSUME NEW x \in Nodes, x \in Ahead(v)', x \notin S
          PROVE  x \in Ahead(v)
      BY <1>2, <1>3, <3>1 DEF Ahead, Current
    <3>2. n \in S /\ k \in S
      BY <1>5, <2>1, <2>3, <3>1
    <3>3. IsFiniteSet(S)
      BY <1>2, NodesFinite, FS_Subset
    <3> QED BY <1>5, <2>3, <3>2, <3>3, OneElement
  <2> QED BY <2>2, <2>3
<1>7. OneAhead'
  BY <1>2, <1>6 DEF OneAhead
<1> QED BY <1>4, <1>7

Rolls == NodeStep /\ \A n \in Nodes, v \in Releases : JobStep(n, v)

LEMMA NothingRolls ==
  ASSUME TypeOK, UNCHANGED <<job, version, proven>>,
         \/ UNCHANGED status
         \/ \E n \in Nodes : status[n] = "none" /\ status' = [status EXCEPT ![n] = "active"]
  PROVE  Rolls
<1>1. \A n \in Nodes : version[n] \in Nat
  BY VersionNumbers
<1>2. \A n \in Nodes : /\ status[n] # "none" => status'[n] # "none"
                       /\ status'[n] = "active" => status[n] \in {"none", "active"}
  BY TypeParts DEF ControllerTypes
<1>3. \A n \in Nodes, v \in Releases : JobStep(n, v)
  BY DEF JobStep
<1>5. \A n \in Nodes : version'[n] \in Nat /\ version[n] <= version'[n]
  BY <1>1
<1>4. NodeStep
  <2>1. proven \subseteq proven'
    OBVIOUS
  <2>2. \A n \in Nodes : /\ status[n] # "none" => status'[n] # "none"
                         /\ status'[n] = "active" => status[n] \in {"none", "active"}
                         /\ version'[n] \in Nat /\ version[n] <= version'[n]
    BY <1>2, <1>5
  <2> QED BY <2>1, <2>2 DEF NodeStep
<1> QED BY <1>3, <1>4 DEF Rolls

LEMMA RevokedRolls ==
  ASSUME TypeOK, NEW n \in Nodes, status[n] = "active", Revoked(n), UNCHANGED <<version, proven>>
  PROVE  Rolls
<1>1. \A k \in Nodes : version[k] \in Nat
  BY VersionNumbers
<1>2. \A k \in Nodes : status'[k] = IF k = n THEN "revoked" ELSE status[k]
  BY TypeParts DEF ControllerTypes, Revoked
<1>3. \A k \in Nodes, v \in Releases :
        job'[k][v] = IF k = n /\ job[n][v].status \in {"queued", "running"}
                       THEN [job[n][v] EXCEPT !.status = "failed"] ELSE job[k][v]
  BY TypeParts DEF UpdateTypes, Revoked
<1>4. \A k \in Nodes, v \in Releases : job[k][v] \in [status : Statuses, all : BOOLEAN]
  BY TypeParts DEF UpdateTypes
<1>5. ASSUME NEW k \in Nodes, NEW v \in Releases
      PROVE  JobStep(k, v)
  <2>1. CASE k = n /\ job[n][v].status \in {"queued", "running"}
    <3>1. job'[k][v].status = "failed" /\ job'[k][v].all = job[k][v].all
      BY <1>3, <1>4, <2>1
    <3> QED BY <2>1, <3>1 DEF JobStep
  <2>2. CASE job'[k][v] = job[k][v]
    BY <2>2 DEF JobStep
  <2> QED BY <1>3, <2>1, <2>2
<1> QED BY <1>1, <1>2, <1>5 DEF Rolls, NodeStep

LEMMA MovedRolls ==
  ASSUME TypeOK, NEW n \in Nodes, NEW v \in Releases, NEW from \in Statuses \ {"none"},
         NEW to \in {"queued", "running", "failed", "succeeded"}, Moves(n, v, from, to),
         to = "succeeded" => v \in proven', proven \subseteq proven',
         UNCHANGED version \/ \E w \in Releases : version[n] <= w /\ version' = [version EXCEPT ![n] = w]
  PROVE  Rolls
<1>1. \A k \in Nodes : version[k] \in Nat
  BY VersionNumbers
<1>2. \A k \in Nodes : version'[k] \in Nat /\ version[k] <= version'[k]
  BY <1>1, ReleaseNumbers, TypeParts DEF UpdateTypes
<1>3. \A k \in Nodes, w \in Releases : job[k][w] \in [status : Statuses, all : BOOLEAN]
  BY TypeParts DEF UpdateTypes
<1>4. \A k \in Nodes, w \in Releases :
        job'[k][w] = IF k = n /\ w = v THEN [job[n][v] EXCEPT !.status = to] ELSE job[k][w]
  BY TypeParts DEF UpdateTypes, Moves
<1>5. ASSUME NEW k \in Nodes, NEW w \in Releases
      PROVE  JobStep(k, w)
  <2>1. CASE k = n /\ w = v
    <3>1. job'[k][w].status = to /\ job'[k][w].all = job[k][w].all /\ job[k][w].status = from
      BY <1>3, <1>4, <2>1 DEF Moves
    <3> QED BY <2>1, <3>1 DEF JobStep
  <2>2. CASE job'[k][w] = job[k][w]
    BY <2>2 DEF JobStep
  <2> QED BY <1>4, <2>1, <2>2
<1>6. UNCHANGED status
  BY DEF Moves, controllerVars
<1> QED BY <1>2, <1>5, <1>6 DEF Rolls, NodeStep

LEMMA QueuedRolls ==
  ASSUME TypeOK, NEW n \in Nodes, NEW v \in Releases, status[n] = "active",
         NEW all \in BOOLEAN, Queues({n}, v, all),
         ~all \/ (job[n][v].status # "none" /\ all = job[n][v].all)
  PROVE  Rolls
<1>1. \A k \in Nodes : version[k] \in Nat
  BY VersionNumbers
<1>2. UNCHANGED <<status, version, proven>>
  BY DEF Queues, controllerVars
<1>3. \A k \in Nodes, w \in Releases :
        job'[k][w] = IF k = n /\ w = v THEN [status |-> "queued", all |-> all] ELSE job[k][w]
  BY TypeParts DEF UpdateTypes, Queues
<1>4. ASSUME NEW k \in Nodes, NEW w \in Releases
      PROVE  JobStep(k, w)
  <2>1. CASE k = n /\ w = v
    <3>1. job'[k][w].status = "queued" /\ job'[k][w].all = all
      BY <1>3, <2>1
    <3> QED BY <1>2, <2>1, <3>1 DEF JobStep
  <2>2. CASE job'[k][w] = job[k][w]
    BY <2>2 DEF JobStep
  <2> QED BY <1>3, <2>1, <2>2
<1> QED BY <1>1, <1>2, <1>4 DEF Rolls, NodeStep

LEMMA ClearRolls ==
  ASSUME TypeOK, Clear
  PROVE  Rolls
<1>1. \A k \in Nodes : version[k] \in Nat
  BY VersionNumbers
<1>2. UNCHANGED <<status, version, proven>>
  BY DEF Clear, controllerVars
<1>3. \A k \in Nodes, w \in Releases : job'[k][w] = job[k][w] \/ job'[k][w] = NoJob
  BY DEF Clear
<1>4. \A k \in Nodes, w \in Releases : JobStep(k, w)
  BY <1>3 DEF JobStep, NoJob
<1> QED BY <1>1, <1>2, <1>4 DEF Rolls, NodeStep

LEMMA RolloutStep ==
  ASSUME TypeOK, JobsInv, OneAhead, [Next]_vars
  PROVE  (JobsInv /\ OneAhead)'
<1> USE DEF controllerVars, updateVars, machineVars
<1>1. ASSUME UNCHANGED <<job, version, proven, status>>
      PROVE  Rolls
  BY <1>1, NothingRolls
<1>2. ASSUME NEW q \in requests, Enroll(q)
      PROVE  Rolls
  <2>1. CASE UNCHANGED status
    BY <1>1, <1>2, <2>1 DEF Enroll
  <2>2. CASE \E n \in Fresh : status' = [status EXCEPT ![n] = "active"]
    BY <1>2, <2>2, NothingRolls DEF Enroll, Fresh
  <2> QED BY <1>2, <2>1, <2>2 DEF Enroll
<1>3. ASSUME NEW m \in Machines, NEW force \in BOOLEAN, Uninstall(m, force)
      PROVE  Rolls
  <2>1. CASE UNCHANGED <<status, job>>
    BY <1>1, <1>3, <2>1 DEF Uninstall
  <2>2. CASE credential[m] # 0 /\ status[credential[m]] = "active" /\ Revoked(credential[m])
    <3>1. credential[m] \in Nodes
      BY <2>2, TypeParts DEF MachineTypes
    <3> QED BY <1>3, <2>2, <3>1, RevokedRolls DEF Uninstall
  <2> QED BY <1>3, <2>1, <2>2 DEF Uninstall
<1>4. ASSUME NEW n \in Nodes, Revoke(n)
      PROVE  Rolls
  BY <1>4, RevokedRolls DEF Revoke
<1>5. ASSUME NEW n \in Nodes, NEW v \in Releases,
             UpdateOne(n, v) \/ Retry(n, v) \/ Begin(n, v) \/ Succeed(n, v) \/ Fail(n, v) \/ Overdue(n, v)
      PROVE  Rolls
  <2>1. CASE UpdateOne(n, v)
    BY <2>1, QueuedRolls DEF UpdateOne
  <2>2. CASE Retry(n, v)
    <3>1. job[n][v].all \in BOOLEAN
      BY TypeParts DEF UpdateTypes
    <3> QED BY <2>2, <3>1, QueuedRolls DEF Retry
  <2>3. CASE Begin(n, v)
    BY <2>3, MovedRolls DEF Begin, Statuses
  <2>4. CASE Overdue(n, v)
    BY <2>4, MovedRolls DEF Overdue, Statuses
  <2>5. version[n] \in Nat /\ v \in Nat
    BY VersionNumbers, ReleaseNumbers
  <2>6. CASE Succeed(n, v)
    <3>1. version[n] <= v
      BY <2>5, <2>6 DEF Succeed, Installs
    <3>2. v \in proven' /\ proven \subseteq proven'
      BY <2>6 DEF Succeed
    <3>3. Moves(n, v, "running", "succeeded") /\ version' = [version EXCEPT ![n] = v]
      BY <2>6 DEF Succeed
    <3> QED BY <3>1, <3>2, <3>3, MovedRolls DEF Statuses
  <2>7. CASE Fail(n, v)
    <3>1. UNCHANGED version \/ (version[n] <= v /\ version' = [version EXCEPT ![n] = v])
      <4>1. CASE version' = [version EXCEPT ![n] = version[n]]
        BY <4>1, TypeParts DEF UpdateTypes
      <4>2. CASE Installs(n, v) /\ version' = [version EXCEPT ![n] = v]
        BY <4>2, <2>5 DEF Installs
      <4> QED BY <2>7, <4>1, <4>2 DEF Fail
    <3>2. Moves(n, v, "running", "failed") /\ UNCHANGED proven
      BY <2>7 DEF Fail
    <3> QED BY <3>1, <3>2, MovedRolls DEF Statuses
  <2> QED BY <1>5, <2>1, <2>2, <2>3, <2>4, <2>6, <2>7
<1>6. ASSUME NEW t \in Tokens, CreateEnrollment(t) \/ Expire(t)
      PROVE  Rolls
  BY <1>1, <1>6 DEF CreateEnrollment, Expire
<1>7. ASSUME NEW m \in Machines, Agent(m) \/ Stop(m)
      PROVE  Rolls
  BY <1>1, <1>7 DEF Agent, Stop, Boot, Ask, Save, Rejected, Decommission
<1>8. ASSUME NEW m \in Machines, NEW t \in Tokens, Install(m, t)
      PROVE  Rolls
  BY <1>1, <1>8 DEF Install
<1>9. ASSUME UNCHANGED vars
      PROVE  Rolls
  BY <1>1, <1>9 DEF vars
<1>10. (\E v \in Releases : UpdateAll(v)) \/ Rolls
  BY <1>2, <1>3, <1>4, <1>5, <1>6, <1>7, <1>8, <1>9, ClearRolls DEF Next, Step
<1> QED BY <1>10, Canary, RolloutKept DEF Rolls

-------------------------------------------------------------------------------
FleetInv == TypeOK /\ JoinInv /\ PaidInv /\ JobsInv /\ OneAhead

LEMMA ElementOf ==
  ASSUME NEW S, NEW s \in Seq(S), NEW i \in 1..Len(s)
  PROVE  s[i] \in S
  OBVIOUS

LEMMA JoinedTypes ==
  ASSUME start \in Starts, NEW n \in Nodes, Joined(n)
  PROVE  /\ start.joined[n].machine \in Machines
         /\ start.joined[n].token \in Tokens \ start.tokens
         /\ \A k \in Nodes : Joined(k) /\ start.joined[n].token = start.joined[k].token => n = k
<1>1. start.joined \in Seq([machine : Machines, token : Tokens])
  BY FleetAssumption
<1>2. Len(start.joined) \in Nat /\ DOMAIN start.joined = 1..Len(start.joined)
  BY <1>1
<1>3. \A k \in Nodes : Joined(k) => k \in 1..Len(start.joined)
  BY <1>2 DEF Joined, Nodes
<1>4. start.joined[n] \in [machine : Machines, token : Tokens]
  <2>1. n \in 1..Len(start.joined)
    BY <1>3
  <2> QED BY <1>1, <2>1, ElementOf
<1> QED BY <1>2, <1>3, <1>4, FleetAssumption

LEMMA JoinerTypes ==
  ASSUME NEW m \in Machines, Joiner(m) # {}
  PROVE  /\ (CHOOSE n \in Joiner(m) : TRUE) \in Joiner(m)
         /\ Joiner(m) \subseteq {n \in Nodes : Joined(n)}
  BY DEF Joiner

LEMMA Initially == Init => FleetInv
<1> SUFFICES ASSUME Init PROVE FleetInv
  OBVIOUS
<1>1. start \in Starts /\ start.faults \in Nat
  BY FleetAssumption DEF Init
<1>2. ControllerTypes
  <2>1. /\ token = [t \in Tokens |-> IF t \in start.tokens THEN "none" ELSE "gone"]
        /\ status = [n \in Nodes |-> IF Joined(n) THEN "active" ELSE "none"]
        /\ origin = [n \in Nodes |-> IF Joined(n) THEN start.joined[n].machine ELSE None]
        /\ paid = [n \in Nodes |-> IF Joined(n) THEN start.joined[n].token ELSE None]
    BY DEF Init
  <2> QED BY <1>1, <2>1, JoinedTypes DEF ControllerTypes
<1>3. UpdateTypes
  BY DEF Init, UpdateTypes, NoJob, Statuses
<1>4. \A m \in Machines : IF Joiner(m) = {} THEN credential[m] = 0 /\ env[m] = None
                          ELSE /\ credential[m] \in Nodes /\ Joined(credential[m])
                               /\ env[m] \in Tokens
  <2>1. ASSUME NEW m \in Machines, Joiner(m) = {}
        PROVE  credential[m] = 0 /\ env[m] = None
    BY <2>1 DEF Init
  <2>2. ASSUME NEW m \in Machines, Joiner(m) # {}
        PROVE  credential[m] \in Nodes /\ Joined(credential[m]) /\ env[m] \in Tokens
    <3>1. credential[m] = CHOOSE n \in Joiner(m) : TRUE
      BY <2>2 DEF Init
    <3>2. credential[m] \in Nodes /\ Joined(credential[m])
      BY <2>2, <3>1, JoinerTypes
    <3>3. env[m] = paid[credential[m]] /\ paid[credential[m]] = start.joined[credential[m]].token
      BY <2>2, <3>2 DEF Init
    <3> QED BY <1>1, <3>2, <3>3, JoinedTypes
  <2> QED BY <2>1, <2>2
<1>5. MachineTypes
  <2>1. \A m \in Machines : env[m] \in Tokens \cup {None} /\ credential[m] \in {0} \cup Nodes
    BY <1>4
  <2>2. env = [m \in Machines |-> env[m]] /\ credential = [m \in Machines |-> credential[m]]
    BY DEF Init
  <2>3. env \in [Machines -> Tokens \cup {None}] /\ credential \in [Machines -> {0} \cup Nodes]
    BY <2>1, <2>2
  <2>4. /\ gets \in [Machines -> {0} \cup Nodes]
        /\ marker \in [Machines -> BOOLEAN] /\ enabled \in [Machines -> BOOLEAN]
    BY DEF Init
  <2>5. proc = [m \in Machines |-> "off"]
    BY DEF Init
  <2> QED BY <2>3, <2>4, <2>5 DEF MachineTypes
<1>6. RequestTypes /\ BoundTypes
  BY <1>1 DEF Init, RequestTypes, BoundTypes
<1>7. JoinInv
  BY DEF Init, JoinInv
<1>8. \A n \in Nodes : IF Joined(n) THEN paid[n] = start.joined[n].token /\ token[paid[n]] = "gone"
                      ELSE paid[n] = None
  BY <1>1, JoinedTypes DEF Init
<1>9. PaidInv
  <2>1. TokenOnce
    BY <1>1, <1>8, JoinedTypes DEF TokenOnce
  <2>2. requests = {}
    BY DEF Init
  <2> QED BY <1>2, <1>8, <2>1, <2>2 DEF PaidInv, ControllerTypes
<1>10. JobsInv /\ OneAhead
  <2>1. \A n \in Nodes, v \in Releases : job[n][v] = NoJob
    BY DEF Init
  <2> QED BY <2>1 DEF JobsInv, OneAhead, Ahead, Current, NoJob
<1> QED BY <1>2, <1>3, <1>5, <1>6, <1>7, <1>9, <1>10, TypeParts DEF FleetInv

LEMMA BoundTypesStep ==
  ASSUME TypeOK, [Next]_vars
  PROVE  BoundTypes'
<1>1. start' = start
  BY DEF Next, vars
<1>2. start.faults \in Nat
  BY FleetAssumption DEF TypeOK
<1>3. UNCHANGED faults \/ Fault
  BY DEF Next, Step, vars, Agent, CreateEnrollment, Expire, Boot, Ask, Save, Rejected, Decommission,
         Stop, Enroll, Install, Uninstall, Revoke, UpdateOne, UpdateAll, Retry, Begin, Succeed,
         Fail, Overdue, Moves, Queues, Clear
<1> QED BY <1>1, <1>2, <1>3, TypeParts DEF BoundTypes, Fault

LEMMA Preserved == FleetInv /\ [Next]_vars => FleetInv'
<1> SUFFICES ASSUME FleetInv, [Next]_vars PROVE FleetInv'
  OBVIOUS
<1>1. (ControllerTypes /\ UpdateTypes /\ MachineTypes /\ RequestTypes /\ BoundTypes)'
  BY ControllerTypesStep, UpdateTypesStep, MachineTypesStep, RequestTypesStep, BoundTypesStep
     DEF FleetInv
<1>2. TypeOK'
  BY <1>1 DEF TypeOK, ControllerTypes, UpdateTypes, MachineTypes, RequestTypes, BoundTypes
<1> QED BY <1>2, JoinStep, PaidStep, RolloutStep DEF FleetInv

LEMMA AlwaysFleetInv == Spec => []FleetInv
  BY Initially, Preserved, PTL DEF Spec

\* The files of the agents, the controller's records and the requests between them always have
\* values the code can store.
THEOREM TypeCorrect == Spec => []TypeOK
  BY AlwaysFleetInv, PTL DEF FleetInv

\* However many enrolments with one token pass its first look at once, and whatever fails or is
\* installed again, the transaction of handleAgentEnroll admits one node with it.
THEOREM OneNodePerToken == Spec => []TokenOnce
  BY AlwaysFleetInv, PTL DEF FleetInv, PaidInv

LEMMA CanaryOfInv == FleetInv => CanaryFirst
<1> SUFFICES ASSUME FleetInv, NEW v \in Releases \ proven PROVE Cardinality(Ahead(v)) <= 1
  BY DEF CanaryFirst, Ahead
<1>1. \A n, k \in Ahead(v) : n = k
  BY DEF FleetInv, OneAhead
<1>2. CASE Ahead(v) = {}
  BY <1>2, FS_EmptySet
<1>3. CASE Ahead(v) # {}
  <2>1. PICK n : Ahead(v) = {n}
    BY <1>1, <1>3
  <2>2. Cardinality({n}) = 1
    BY FS_Singleton
  <2> QED BY <2>1, <2>2
<1> QED BY <1>2, <1>3

\* In a fleet of any size, as long as no node was updated to a release, handleUpdateAll has it
\* tried on one node at a time, also with retries, single updates and revocations in between.
THEOREM OneCanary == Spec => []CanaryFirst
  BY AlwaysFleetInv, CanaryOfInv, PTL
===============================================================================
