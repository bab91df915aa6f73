-------------------------- MODULE UpdateConfirmation --------------------------
(***************************************************************************)
(* The controller's side of an update of one node: dispatch and redelivery *)
(* of the job, its result, and the confirmation that follows an accepted   *)
(* result.  Time since an event replaces the time of the event.            *)
(***************************************************************************)
EXTENDS Integers

CONSTANTS
  ObservationDelay,    \* updateObservationDelay, 3 min
  StableDuration,      \* updateStableDuration, 30 s
  MaxReportGap,        \* updateMaxReportGap, 30 s
  ConfirmationTimeout, \* updateConfirmationTimeout, 30 min
  MaxAttempts          \* Job.MaxAttempts

ASSUME ConfirmationAssumption ==
  /\ ObservationDelay \in Nat /\ StableDuration \in Nat
  /\ MaxReportGap \in Nat /\ ConfirmationTimeout \in Nat
  /\ MaxAttempts \in Nat \ {0}

VARIABLE update     \* the job

\* A nil time.
Never == -1

Times == Nat \cup {Never}

NoReport == "none"

\* The fields of the job: UpdateAcceptedAt, UpdateVersionSeenAt, UpdateLastReportAt.
Update == [ status   : {"queued", "running", "succeeded", "failed"},
            attempts : Nat,
            accepted : Times,
            seen     : Times,
            last     : Times ]

Queued ==
  [status |-> "queued", attempts |-> 0, accepted |-> Never, seen |-> Never, last |-> Never]

\* awaitingUpdateConfirmation
Awaiting == update.status = "running" /\ update.accepted # Never

\* Mutant: the version is trusted as soon as it is stable.
TrustedSoon(seen) == seen >= StableDuration

\* Beyond the rollback window of the agent, and stable.
Trusted(seen) == update.accepted >= ObservationDelay /\ seen >= StableDuration

\* Since when the expected version is reported without a gap.
SeenSince ==
  IF update.seen = Never \/ update.last = Never \/ update.last > MaxReportGap THEN 0 ELSE update.seen

Expired == update.accepted >= ConfirmationTimeout

\* Mutant: a status that no constant names.
FinishMisspelt(status) == update' = [update EXCEPT !.status = "done"]

Finish(status) == update' = [update EXCEPT !.status = status]

\* observeUpdate: heartbeats carry no report and prove nothing.
Observe(report) ==
  /\ Awaiting
  /\ \/ Expired /\ Finish("failed")
     \/ ~Expired /\ report = NoReport /\ UNCHANGED update
     \/ ~Expired /\ report = "old" /\ update' = [update EXCEPT !.seen = Never, !.last = 0]
     \/ /\ ~Expired /\ report = "new"
        /\ LET seen == SeenSince IN
             IF Trusted(seen) THEN Finish("succeeded")
                              ELSE update' = [update EXCEPT !.seen = seen, !.last = 0]

\* Mutant: only an update whose version was seen is looked at.
ExpireIfSeen ==
  /\ Awaiting /\ Expired /\ update.seen # Never
  /\ Finish("failed")

\* The scheduler fails what is not confirmed in time.
Expire ==
  /\ Awaiting /\ Expired
  /\ Finish("failed")

\* Limits of jobs that wait or are executed may be exceeded at any time.
TimeOut ==
  /\ update.status \in {"queued", "running"} /\ ~Awaiting
  /\ Finish(IF update.status = "running" /\ update.attempts < MaxAttempts THEN "queued" ELSE "failed")

\* Mutant: an accepted job is sent again like any other that runs.
DispatchAgain ==
  \/ /\ update.status = "queued"
     /\ update' = [update EXCEPT !.status = "running", !.attempts = @ + 1]
  \/ /\ update.status = "running"
     /\ update' = [update EXCEPT !.attempts = IF @ < MaxAttempts THEN @ + 1 ELSE @]

\* handleAgentPoll: the job is sent, or sent again.
Dispatch ==
  /\ \/ /\ update.status = "queued"
        /\ update' = [update EXCEPT !.status = "running", !.attempts = @ + 1]
     \/ /\ update.status = "running" /\ ~Awaiting
        /\ update' = [update EXCEPT !.attempts = IF @ < MaxAttempts THEN @ + 1 ELSE @]

\* A result posted again does not reset the deadline.
Accept ==
  /\ update.status = "running"
  /\ update' = IF Awaiting THEN update ELSE [update EXCEPT !.accepted = 0]

\* An error is tried again while there are attempts left, except the two that
\* nonRetryableUpdateError recognises.
Reject ==
  /\ update.status = "running"
  /\ \/ Awaiting /\ UNCHANGED update
     \/ ~Awaiting /\ update.attempts < MaxAttempts /\ Finish("queued")
     \/ ~Awaiting /\ Finish("failed")

-----------------------------------------------------------------------------
UpdateInit == update = Queued

Ages(age, limit) == IF age = Never \/ age >= limit THEN age ELSE age + 1

Largest(a, b) == IF a > b THEN a ELSE b

\* Runs every 15 s: what expired does not wait.
UpdateTick ==
  /\ ~(Awaiting /\ Expired)
  /\ update' = IF ~Awaiting THEN update
       ELSE [update EXCEPT !.accepted = Ages(@, Largest(ConfirmationTimeout, ObservationDelay)),
                           !.seen     = Ages(@, StableDuration),
                           !.last     = Ages(@, MaxReportGap + 1)]

UpdateTypeOK == update \in Update
=============================================================================
