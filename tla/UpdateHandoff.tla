---------------------------- MODULE UpdateHandoff ----------------------------
(***************************************************************************)
(* An update of a node from end to end: the controller sends the job and   *)
(* observes reports, the agent replaces itself, the result travels between *)
(* them and may be lost, acknowledged in vain or read late.                *)
(***************************************************************************)
EXTENDS SelfUpdate, UpdateConfirmation

\* The controller and its agents are configured to outlast the watchdog.
ASSUME WindowAssumption ==
  /\ WatchdogDelay < ObservationDelay
  /\ PostTimeout < ObservationDelay

VARIABLE post     \* results sent and not yet read; live: the agent waits for the answer

vars == <<nodeVars, update, post>>

Result == [outcome : {"ok", "error"}, live : BOOLEAN]

Init == SelfUpdateInit /\ UpdateInit /\ post = {}

\* What nobody waits for is lost, unless the controller reads it late.
Abandoned ==
  IF "late" \in Faults THEN {[outcome |-> r.outcome, live |-> FALSE] : r \in post} ELSE {}

\* handleAgentPoll: the job is sent with the answer, unless its new version is
\* waited for.
PollForJob ==
  /\ stage = "idle"
  /\ Dispatch
  /\ Enters("polling")
  /\ UNCHANGED <<disk, proc, uptime, marker, watchdog, armed, restart, confirming, health,
                 faults, unguarded, post>>

\* The answer arrives, whatever became of the job meanwhile.
ReceiveJob ==
  /\ stage = "polling"
  /\ Enters("executing")
  /\ UNCHANGED <<disk, proc, uptime, marker, watchdog, armed, restart, confirming, health,
                 faults, unguarded, update, post>>

\* Polls with and without a report of the running version.
PollForUpdate ==
  /\ stage = "idle"
  /\ \E report \in {NoReport, proc} : Observe(report)
  /\ UNCHANGED <<nodeVars, post>>

Posts(outcome, s) ==
  /\ post' = post \cup {[outcome |-> outcome, live |-> TRUE]}
  /\ Enters(s)
  /\ UNCHANGED <<disk, proc, uptime, marker, watchdog, armed, restart, confirming, health,
                 faults, unguarded, update>>

PostSuccess == stage = "armed" /\ Posts("ok", "posting")
PostError   == \/ stage = "unarmed" /\ Posts("error", "reporting")
               \/ stage = "stuck" /\ Posts("error", "reportingStuck")

\* Without an answer, or with a refusal, the agent restores the binary if its
\* result names a marker.
Unanswered == Enters(IF stage \in {"posting", "reportingStuck"} THEN "givenUp" ELSE "idle")

\* Only an update that is acknowledged is activated.
Answered(r, accepted) ==
  IF ~r.live THEN UNCHANGED <<stage, busy>>
  ELSE IF accepted THEN Enters(IF stage = "posting" THEN "acknowledged" ELSE "idle")
  ELSE Unanswered

\* handleAgentJobResult
ReadResult(r) ==
  /\ post' = post \ {r}
  /\ \/ /\ IF r.outcome = "ok" THEN Accept ELSE Reject
        /\ \/ Answered(r, TRUE)
           \/ "loss" \in Faults /\ UNCHANGED <<stage, busy>>
     \/ /\ update.status # "running"
        /\ UNCHANGED update
        /\ Answered(r, FALSE)
  /\ UNCHANGED <<disk, proc, uptime, marker, watchdog, armed, restart, confirming, health,
                 faults, unguarded>>

\* The request fails or times out.
GiveUp ==
  /\ stage \in Requesting
  /\ "loss" \in Faults
  /\ Unanswered
  /\ post' = Abandoned
  /\ UNCHANGED <<disk, proc, uptime, marker, watchdog, armed, restart, confirming, health,
                 faults, unguarded, update>>

\* runMaintenance
Maintain == (Expire \/ TimeOut) /\ UNCHANGED <<nodeVars, post>>

Tick == NodeTick /\ UpdateTick /\ UNCHANGED post

\* A process that ends drops its request.
DropsRequest ==
  /\ post' = IF stage \in Requesting /\ stage' \notin Requesting THEN Abandoned ELSE post
  /\ UNCHANGED update

Node == NodeStep /\ DropsRequest

Next ==
  \/ PollForJob \/ ReceiveJob \/ PollForUpdate \/ PostSuccess \/ PostError
  \/ \E r \in post : ReadResult(r)
  \/ GiveUp \/ Maintain \/ Tick \/ Node

Spec == Init /\ [][Next]_vars

\* Time goes on (agents wait between polls, so nothing repeats without it), a
\* process goes on with what it began, and healthy services are found so.  Polls,
\* answers, time limits, faults and slow services are not forced.
FairSpec ==
  /\ Spec
  /\ SF_vars(Tick)
  /\ WF_vars(Expire /\ UNCHANGED <<nodeVars, post>>)
  /\ WF_vars(PollOnce /\ DropsRequest)
  /\ WF_vars(Systemd /\ DropsRequest)
  /\ WF_vars(StopWatchdog /\ DropsRequest)
  /\ WF_vars(Confirm /\ health = "good" /\ DropsRequest)
  /\ WF_vars(ReceiveJob \/ PostSuccess \/ PostError \/ GiveUp)

-----------------------------------------------------------------------------
TypeOK ==
  /\ SelfUpdateTypeOK
  /\ UpdateTypeOK
  /\ post \subseteq Result

\* README: success is reported beyond the rollback window.  No watchdog that
\* could still put the old binary back is left when the job succeeds.
SuccessBeyondWindow == update.status = "succeeded" => watchdog = "none"

\* After the controller reported success the node's binary is not replaced any
\* more: neither the watchdog nor an agent that believes its result was lost
\* restores the old one.
NoRollbackAfterSuccess ==
  [][update.status = "succeeded" => disk' = disk]_vars

\* A version whose services never became healthy is not reported as a success,
\* even though it reports itself to the controller: the watchdog is faster than
\* the confirmation, unless a reboot or a failing helper was the end of it.
SuccessHealthy == update.status = "succeeded" /\ health = "bad" => unguarded

\* An update the agent began to execute after the controller had accepted its
\* result would be installed unobserved: nothing is accepted while the job is on
\* its way to the agent.
NotSentAgain ==
  [][Awaiting /\ stage # "executing" => stage' # "executing"]_vars

\* A result that was accepted leads to success or failure, whatever the agent does.
UpdateEnds == Awaiting ~> update.status \in {"succeeded", "failed"}

\* An armed watchdog ends with a node that can be updated again: confirmed, or
\* rolled back, and without a marker; unless a reboot or a failing helper was the
\* end of it.
WatchdogSettles == watchdog # "none" ~> (watchdog = "none" /\ ~marker) \/ unguarded
=============================================================================
