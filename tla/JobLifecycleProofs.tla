------------------------- MODULE JobLifecycleProofs -------------------------
(***************************************************************************)
(* What JobLifecycle says implies what is expected of jobs, for any number *)
(* of jobs, places and attempts.                                           *)
(***************************************************************************)
EXTENDS JobLifecycle, TLAPS

TypeOK == job \in [Ids -> Job] /\ last \in Ids /\ promised \subseteq Ids

\* Identifiers are given in order: those not given yet, and those given to jobs
\* still to be created, name no job.
Fresh ==
  /\ \A j \in Ids : last < j => job[j].status = "absent"
  /\ \A j \in promised : 0 < j /\ j <= last /\ job[j].status = "absent"

LifecycleInv == TypeOK /\ Fresh /\ OneAtATime /\ OldestFirst /\ Bounded

-----------------------------------------------------------------------------
(* Facts about one step of a job *)

\* Which steps a job in a given status came by.
LEMMA StepFacts ==
  ASSUME TypeOK, Fresh, Next, NEW j \in Ids
  PROVE  /\ last \in Nat /\ last' \in Nat /\ j \in Nat
         /\ job[j] \in Job /\ job'[j] \in Job
         /\ job'[j].status = "running" =>
              /\ Keeps(j)
              /\ IF job[j].remote THEN job[j].status \in {"queued", "running"} ELSE IsActive(job[j])
              /\ job[j].remote /\ job[j].status = "queued" => IsNext(j)
         /\ job'[j].status = "succeeded" => Keeps(j) /\ job[j].status \in {"running", "succeeded"}
         /\ IsActive(job'[j]) => (IsActive(job[j]) /\ Keeps(j)) \/ Created(j)
         /\ Created(j) => last < j \/ job'[j].retry
<1>1. last \in Nat /\ last' \in Nat /\ j \in Nat /\ job[j] \in Job /\ job'[j] \in Job
  BY DEF TypeOK, Next, Ids
<1>2. Step(j)
  BY DEF Next
<1>. QED
  BY <1>1, <1>2 DEF Step, Created, Started, Resent, PutBack, Succeeded, Failed, Forgotten,
                    Keeps, IsActive

-----------------------------------------------------------------------------
(* The invariant is inductive *)

LEMMA FreshStep ==
  ASSUME TypeOK, Fresh, Next
  PROVE  Fresh'
<1>1. last \in Nat /\ last' \in Nat /\ last <= last' /\ Ids \subseteq Nat
  BY DEF TypeOK, Next, Ids
<1>2. \A j \in promised' : j \in Ids /\ 0 < j /\ j <= last' /\ (j \in promised \/ last < j)
  <2>. SUFFICES ASSUME NEW j \in promised'
                PROVE  j \in Ids /\ 0 < j /\ j <= last' /\ (j \in promised \/ last < j)
    OBVIOUS
  <2>1. CASE j \in promised
    BY <1>1, <2>1 DEF Fresh, TypeOK
  <2>2. CASE j \in {i \in Ids : last < i /\ i <= last'}
    BY <1>1, <2>2
  <2>. QED
    BY <2>1, <2>2 DEF Next
<1>3. ASSUME NEW j \in Ids, last' < j \/ j \in promised'
      PROVE  job'[j].status = "absent"
  <2>1. job[j].status = "absent" /\ j # 0 /\ ~Created(j)
    BY <1>1, <1>2, <1>3 DEF Fresh, Created
  <2>2. Step(j)
    BY DEF Next
  <2>. QED
    BY <2>1, <2>2 DEF Step, Started, Resent, PutBack, Succeeded, Failed, Forgotten, IsActive
<1>. QED
  BY <1>2, <1>3 DEF Fresh

\* Two jobs that start compete: only one of them is the next.
LEMMA OneAtATimeStep ==
  ASSUME LifecycleInv, Next
  PROVE  OneAtATime'
<1>. USE DEF LifecycleInv
<1>. SUFFICES ASSUME NEW i \in Ids, NEW k \in Ids, Rivals(i, k)',
                     job'[i].status = "running", job'[k].status = "running"
              PROVE  i = k
  BY DEF OneAtATime
<1>1. Rivals(i, k) /\ Rivals(k, i)
  BY StepFacts DEF Rivals, Keeps
<1>2. CASE job[i].status = "running" /\ job[k].status = "running"
  BY <1>1, <1>2 DEF OneAtATime
<1>3. CASE job[i].status = "running" /\ job[k].status # "running"
  <2>1. IsNext(k)
    BY <1>1, <1>3, StepFacts DEF Rivals
  <2>. QED
    BY <1>1, <1>3, <2>1 DEF IsNext
<1>4. CASE job[i].status # "running" /\ job[k].status = "running"
  <2>1. IsNext(i)
    BY <1>1, <1>4, StepFacts DEF Rivals
  <2>. QED
    BY <1>1, <1>4, <2>1 DEF IsNext
<1>5. CASE job[i].status # "running" /\ job[k].status # "running"
  <2>1. IsNext(i) /\ IsNext(k) /\ job[i].status = "queued" /\ job[k].status = "queued"
    BY <1>1, <1>5, StepFacts DEF Rivals
  <2>2. ~(i < k) /\ ~(k < i) /\ i \in Nat /\ k \in Nat
    BY <1>1, <2>1, StepFacts DEF IsNext
  <2>. QED
    BY <2>2
<1>. QED
  BY <1>2, <1>3, <1>4, <1>5

LEMMA OldestFirstStep ==
  ASSUME LifecycleInv, Next
  PROVE  OldestFirst'
<1>. USE DEF LifecycleInv
<1>. SUFFICES ASSUME NEW i \in Ids, NEW k \in Ids, i < k, Rivals(i, k)', ~job'[i].retry,
                     job'[k].status \in {"running", "succeeded"}, IsActive(job'[i])
              PROVE  FALSE
  BY DEF OldestFirst
<1>1. Keeps(k) /\ job[k].status \in {"queued", "running", "succeeded"}
  BY StepFacts, Zenon DEF Rivals, IsActive
<1>2. ~Created(i)
  <2>1. ~(last < k) /\ last \in Nat /\ i \in Nat /\ k \in Nat
    BY <1>1, StepFacts DEF Fresh
  <2>2. Created(i) => last < i
    BY StepFacts
  <2>. QED
    BY <2>1, <2>2
<1>3. IsActive(job[i]) /\ Rivals(i, k) /\ ~job[i].retry
  BY <1>1, <1>2, StepFacts DEF Rivals, Keeps
<1>4. CASE job[k].status \in {"running", "succeeded"}
  BY <1>3, <1>4 DEF OldestFirst
<1>5. CASE job[k].status = "queued"
  <2>1. IsNext(k)
    BY <1>3, <1>5, StepFacts DEF Rivals
  <2>. QED
    BY <1>3, <2>1 DEF IsNext, IsActive
<1>. QED
  BY <1>1, <1>4, <1>5

LEMMA BoundedStep ==
  ASSUME LifecycleInv, Next, MaxAttempts \in Nat \ {0}
  PROVE  Bounded'
<1>. USE DEF LifecycleInv
<1>. SUFFICES ASSUME NEW j \in Ids, job'[j].remote
              PROVE  /\ job'[j].status = "queued"  => job'[j].attempts < MaxAttempts
                     /\ job'[j].status = "running" => job'[j].attempts \in 1..MaxAttempts
  BY DEF Bounded
<1>1. Step(j) /\ job[j].attempts \in Nat /\ job'[j].attempts \in Nat
  BY StepFacts DEF Next, Job
<1>2. CASE job'[j] = job[j]
  BY <1>2 DEF Bounded
<1>3. CASE Created(j)
  BY <1>3 DEF Created
<1>4. CASE Started(j)
  <2>1. job[j].attempts < MaxAttempts
    BY <1>4 DEF Started, Keeps, Bounded
  <2>. QED
    BY <1>1, <1>4, <2>1 DEF Started
<1>5. CASE Resent(j)
  BY <1>1, <1>5 DEF Resent
<1>6. CASE PutBack(j)
  BY <1>1, <1>6 DEF PutBack
<1>7. CASE Succeeded(j) \/ Failed(j) \/ Forgotten(j)
  BY <1>7 DEF Succeeded, Failed, Forgotten
<1>. QED
  BY <1>1, <1>2, <1>3, <1>4, <1>5, <1>6, <1>7 DEF Step

-----------------------------------------------------------------------------
\* A place never runs two jobs, jobs of a place run in their order, but for retries
\* that were overtaken, and the attempts of a job are bounded.
THEOREM LifecycleSafe ==
  ASSUME MaxJobs \in Nat, MaxAttempts \in Nat \ {0}
  PROVE  Spec => [](OneAtATime /\ OldestFirst /\ Bounded)
<1>1. Init => LifecycleInv
  <2>. SUFFICES ASSUME Init PROVE LifecycleInv
    OBVIOUS
  <2>1. TypeOK
    BY DEF Init, TypeOK, Ids
  <2>. QED
    BY <2>1 DEF Init, LifecycleInv, Fresh, OneAtATime, OldestFirst, Bounded
<1>2. LifecycleInv /\ [Next]_jobVars => LifecycleInv'
  <2>. SUFFICES ASSUME LifecycleInv, [Next]_jobVars PROVE LifecycleInv'
    OBVIOUS
  <2>1. CASE Next
    <3>1. TypeOK'
      BY <2>1 DEF Next, TypeOK, LifecycleInv
    <3>. QED
      BY <2>1, <3>1, FreshStep, OneAtATimeStep, OldestFirstStep, BoundedStep DEF LifecycleInv
  <2>2. CASE UNCHANGED jobVars
    BY <2>2 DEF jobVars, LifecycleInv, TypeOK, Fresh, OneAtATime, OldestFirst, Bounded, Rivals
  <2>. QED
    BY <2>1, <2>2
<1>3. LifecycleInv => OneAtATime /\ OldestFirst /\ Bounded
  BY DEF LifecycleInv
<1>. QED
  BY <1>1, <1>2, <1>3, PTL DEF Spec
\* What has ended stays ended: no step leads from the end of a job to its queue.
THEOREM LifecycleEnds == Spec => EndedForGood
<1>1. [Next]_jobVars => [StaysEnded]_jobVars
  <2>. SUFFICES ASSUME Next, NEW j \in Ids, HasEnded(job[j])
                PROVE  /\ ~IsActive(job'[j])
                       /\ job[j].status = "failed" => job'[j].status # "succeeded"
    BY DEF StaysEnded
  <2>1. Step(j)
    BY DEF Next
  <2>. QED
    BY <2>1 DEF Step, Created, Started, Resent, PutBack, Succeeded, Failed, Forgotten,
                HasEnded, IsActive, IsNext
<1>. QED
  BY <1>1, PTL DEF Spec, EndedForGood
=============================================================================
