---------------------------- MODULE JobLifecycle ----------------------------
(***************************************************************************)
(* What the controller promises of its jobs, without the domains and       *)
(* certificates they are about, the messages that carry them and the clock *)
(* that ends them: a job is created, waits for its turn, runs, is put back *)
(* a bounded number of times, ends, and may be forgotten.                  *)
(*                                                                         *)
(* In one step of the controller any number of jobs may take one step of   *)
(* their own: a maintenance ends some, retries others and creates more.    *)
(* Controller implements this specification.                               *)
(***************************************************************************)
EXTENDS Naturals

CONSTANTS
  MaxJobs,       \* the last identifier
  Places,        \* where jobs are executed
  MaxAttempts    \* attempts of a job a node executes

VARIABLES
  job,           \* [Ids -> Job]
  last,          \* the last identifier given
  promised       \* identifiers given to jobs that are still to be created

jobVars == <<job, last, promised>>

Ids == 0..MaxJobs

\* Identifiers are the order of the jobs.
\* remote: a node executes the job, not the controller itself.
\* retry: the job repeats one that failed.
Job == [ status   : {"absent", "queued", "running", "succeeded", "failed"},
         node     : Places,
         remote   : BOOLEAN,
         attempts : Nat,
         retry    : BOOLEAN ]

IsActive(r) == r.status \in {"queued", "running"}
HasEnded(r) == r.status \in {"succeeded", "failed"}

\* Jobs that compete for one node.
Rivals(i, k) == job[i].remote /\ job[k].remote /\ job[i].node = job[k].node

\* It is j's turn on its node: nothing runs there and nothing older waits.
IsNext(j) ==
  /\ \A i \in Ids : Rivals(i, j) => job[i].status # "running"
  /\ \A i \in Ids : i < j /\ Rivals(i, j) => job[i].status # "queued"

-----------------------------------------------------------------------------
(* Steps of one job *)

\* A new job is the youngest, but a retry may take the place it was promised.
Created(j) ==
  /\ \/ last < j /\ j <= last'
     \/ j \in promised /\ job'[j].retry
  /\ j \notin promised'
  /\ job[j].status = "absent"
  /\ job'[j].status = "queued" /\ job'[j].attempts = 0

\* All other steps keep the place of a job.
Keeps(j) ==
  /\ job'[j].node = job[j].node /\ job'[j].remote = job[j].remote
  /\ job'[j].retry = job[j].retry

\* The controller also starts its own jobs again, when it was restarted.
Started(j) ==
  /\ Keeps(j)
  /\ IF job[j].remote THEN job[j].status = "queued" /\ IsNext(j) ELSE IsActive(job[j])
  /\ job'[j].status = "running" /\ job'[j].attempts = job[j].attempts + 1

Resent(j) ==
  /\ Keeps(j)
  /\ job[j].status = "running" /\ job[j].attempts < MaxAttempts
  /\ job'[j].status = "running" /\ job'[j].attempts = job[j].attempts + 1

PutBack(j) ==
  /\ Keeps(j)
  /\ job[j].status = "running" /\ job[j].attempts < MaxAttempts
  /\ job'[j].status = "queued" /\ job'[j].attempts = job[j].attempts

Succeeded(j) ==
  /\ Keeps(j)
  /\ job[j].status = "running"
  /\ job'[j].status = "succeeded" /\ job'[j].attempts = job[j].attempts

\* Even a job that succeeded is failed by a dispatch that ends late, and one
\* that was forgotten leaves a failed job under identifier 0.
Failed(j) ==
  /\ Keeps(j)
  /\ job[j].status = "absent" => j = 0
  /\ job'[j].status = "failed" /\ job'[j].attempts = job[j].attempts

Forgotten(j) ==
  /\ job[j].status \in {"queued", "failed"}
  /\ job'[j].status = "absent"

-----------------------------------------------------------------------------
Init ==
  /\ job \in [Ids -> Job]
  /\ \A j \in Ids : job[j].status = "absent"
  /\ last = 0 /\ promised = {}

Step(j) ==
  \/ job'[j] = job[j]
  \/ Created(j)
  \/ Started(j)
  \/ Resent(j)
  \/ PutBack(j)
  \/ Succeeded(j)
  \/ Failed(j)
  \/ Forgotten(j)

Next ==
  /\ job' \in [Ids -> Job]
  /\ last' \in Ids /\ last <= last'
  /\ promised' \subseteq promised \cup {j \in Ids : last < j /\ j <= last'}
  /\ \A j \in Ids : Step(j)

Spec == Init /\ [][Next]_jobVars

-----------------------------------------------------------------------------
(* What follows from it *)

\* A place executes one job at a time.
OneAtATime ==
  \A i, k \in Ids :
    Rivals(i, k) /\ job[i].status = "running" /\ job[k].status = "running" => i = k

\* A job that runs or has succeeded is older than every job that waits for the
\* same place, unless that is a retry.
OldestFirst ==
  \A i, k \in Ids :
    /\ i < k /\ Rivals(i, k) /\ ~job[i].retry
    /\ job[k].status \in {"running", "succeeded"}
    => ~IsActive(job[i])

\* A job that waits has attempts left, and one that runs has counted this attempt.
Bounded ==
  \A j \in Ids : job[j].remote =>
    /\ job[j].status = "queued"  => job[j].attempts < MaxAttempts
    /\ job[j].status = "running" => job[j].attempts \in 1..MaxAttempts

\* What has ended stays ended, and what has failed does not succeed after all.
StaysEnded ==
  \A j \in Ids : HasEnded(job[j]) =>
    /\ ~IsActive(job'[j])
    /\ job[j].status = "failed" => job'[j].status # "succeeded"

EndedForGood == [][StaysEnded]_jobVars
=============================================================================
