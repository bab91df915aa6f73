---------------------------- MODULE UpdateProofs ----------------------------
(***************************************************************************)
(* What holds of an update for all durations: if the controller waits      *)
(* longer than the watchdog and than the agent waits for the answer to its *)
(* result (WindowAssumption), and reads no result late, then its success   *)
(* is final.                                                               *)
(***************************************************************************)
EXTENDS UpdateHandoff, TLAPS

NoLateReads == "late" \notin Faults

-----------------------------------------------------------------------------
(* The invariant *)

Accepted  == update.accepted # Never
Preparing == {"polling", "executing", "marked", "installed", "unarmed", "stuck", "armed",
              "reporting", "reportingStuck"}
Answering == {"acknowledged", "givenUp", "restored"}

\* A result on its way is that of the request the agent waits for.
PostInFlight ==
  \A r \in post : /\ r.live
                  /\ stage \in IF r.outcome = "ok" THEN {"posting"}
                                                 ELSE {"reporting", "reportingStuck"}

\* A job is sent and executed only before its result was accepted.
NotYetAccepted == stage \in Preparing \/ update.status = "queued" => ~Accepted

\* The watchdog was armed before the result was accepted, and fires in time.
WatchdogFirst == watchdog # "none" =>
  /\ armed <= WatchdogDelay
  /\ Accepted => update.accepted <= armed

\* An agent that still acts on the answer to its result does so soon after.
JustAccepted ==
  /\ stage = "posting" => busy <= PostTimeout /\ (Accepted => update.accepted <= busy)
  /\ stage \in Answering => (Accepted => update.accepted <= PostTimeout)

\* Success takes the whole observation delay.
SucceededLate == update.status = "succeeded" => Accepted /\ update.accepted >= ObservationDelay

Window == PostInFlight /\ NotYetAccepted /\ WatchdogFirst /\ JustAccepted /\ SucceededLate

\* A bad version is kept by nobody: until the old one is back, there is a
\* watchdog with a marker, or a process of the old version that restores it.
Bad == health = "bad" /\ ~unguarded

BadGuarded == Bad =>
  /\ ~confirming
  /\ watchdog # "none" => marker
  /\ watchdog = "restored" => disk = "old"
  /\ stage \in {"marked", "installed"} => watchdog = "none" /\ proc = "old" /\ marker
  /\ stage \in {"stuck", "reportingStuck", "armed", "posting"} \cup Answering => proc = "old"
  /\ stage \in {"armed", "posting"} => watchdog # "none"
  /\ stage = "restored" => disk = "old"
  /\ Accepted /\ watchdog = "none" => disk = "old" /\ proc = "old"

-----------------------------------------------------------------------------
(* Every step is one of these. *)
LEMMA StepCases ==
  ASSUME [Next]_vars
  PROVE  \/ Refuse /\ DropsRequest
         \/ WriteMarker /\ DropsRequest
         \/ Install /\ DropsRequest
         \/ CannotInstall /\ DropsRequest
         \/ ArmWatchdog /\ DropsRequest
         \/ CannotArm /\ DropsRequest
         \/ CannotArmNorRestore /\ DropsRequest
         \/ ScheduleRestart /\ DropsRequest
         \/ RestoreBinary /\ DropsRequest
         \/ CannotRestore /\ DropsRequest
         \/ Disarm /\ DropsRequest
         \/ RestartServices /\ DropsRequest
         \/ WatchdogFires /\ DropsRequest
         \/ HelperRestores /\ DropsRequest
         \/ HelperRestarts /\ DropsRequest
         \/ HelperFails /\ DropsRequest
         \/ Confirm /\ DropsRequest
         \/ StopWatchdog /\ DropsRequest
         \/ Crash /\ DropsRequest
         \/ Reboot /\ DropsRequest
         \/ PollForJob \/ ReceiveJob \/ PollForUpdate \/ PostSuccess \/ PostError
         \/ \E r \in post : ReadResult(r)
         \/ GiveUp \/ Maintain \/ Tick \/ UNCHANGED vars
BY Zenon DEF Next, Node, NodeStep, PollOnce, Systemd

-----------------------------------------------------------------------------
(* What the controller does to its job. *)

LEMMA Dispatches ==
  ASSUME update \in Update, Dispatch
  PROVE  /\ update' \in Update
         /\ update'.accepted = update.accepted /\ update'.status = "running"
         /\ update.status \in {"queued", "running"} /\ ~Awaiting
<1> USE ConfirmationAssumption
<1> DEFINE more == IF update.attempts < MaxAttempts THEN update.attempts + 1 ELSE update.attempts
<1>1. more \in Nat
  BY SMT DEF Update
<1>2. CASE update.status = "queued" /\ update' = [update EXCEPT !.status = "running", !.attempts = @ + 1]
  <2> DEFINE next == update.attempts + 1
  <2>1. next \in Nat
    BY DEF Update
  <2> HIDE DEF next
  <2>2. update' = [update EXCEPT !.status = "running", !.attempts = next]
    BY <1>2 DEF next
  <2>3. QED
    BY <1>2, <2>1, <2>2 DEF Update, Awaiting
<1>3. CASE update.status = "running" /\ ~Awaiting /\ update' = [update EXCEPT !.attempts = more]
  <2> HIDE DEF more
  <2> QED BY <1>1, <1>3, SMT DEF Update
<1>4. QED
  BY <1>2, <1>3, Zenon DEF Dispatch

LEMMA Observes ==
  ASSUME update \in Update, NEW report, Observe(report)
  PROVE  /\ update' \in Update
         /\ update'.accepted = update.accepted
         /\ update.status = "running" /\ update.accepted # Never /\ update'.status # "queued"
         /\ update'.status = "succeeded" => report = "new" /\ update.accepted >= ObservationDelay
<1> USE ConfirmationAssumption
<1>0. update.status = "running" /\ update.accepted # Never
  BY Zenon DEF Observe, Awaiting
<1>1. SeenSince \in Times
  BY SMT DEF SeenSince, Update, Times, Never
<1>t. Never \in Times /\ 0 \in Times
  BY DEF Times, Never
<1>2. CASE update' = [update EXCEPT !.status = "failed"]
  BY <1>0, <1>2, SMT DEF Update
<1>3. CASE update' = update
  BY <1>0, <1>3, SMT DEF Update
<1>4. CASE update' = [update EXCEPT !.seen = Never, !.last = 0]
  <2> DEFINE zero == 0
  <2> zero \in Times
    BY <1>t
  <2>1. update'.status = update.status /\ update'.accepted = update.accepted
    BY <1>4 DEF Update
  <2> HIDE DEF zero
  <2>2. update' \in Update
    BY <1>4, <1>t DEF Update, zero
  <2>3. QED
    BY <1>0, <2>1, <2>2
<1>5. CASE report = "new" /\ Trusted(SeenSince) /\ update' = [update EXCEPT !.status = "succeeded"]
  BY <1>0, <1>5, SMT DEF Update, Trusted
<1>6. CASE update' = [update EXCEPT !.seen = SeenSince, !.last = 0]
  <2> DEFINE zero == 0
  <2> zero \in Times
    BY <1>t
  <2>1. update'.status = update.status /\ update'.accepted = update.accepted
    BY <1>6 DEF Update
  <2> HIDE DEF zero
  <2>2. update' \in Update
    BY <1>6, <1>1, <1>t DEF Update, zero
  <2>3. QED
    BY <1>0, <2>1, <2>2
<1>7. QED
  BY <1>2, <1>3, <1>4, <1>5, <1>6, Zenon DEF Observe, Finish

LEMMA Ticks ==
  ASSUME update \in Update, UpdateTick
  PROVE  /\ update' \in Update
         /\ update'.status = update.status
         /\ update.accepted = Never => update'.accepted = Never
         /\ update.accepted # Never => /\ update'.accepted # Never
                                       /\ update'.accepted <= update.accepted + 1
         /\ update.status = "succeeded" => update' = update
<1> USE ConfirmationAssumption
<1>1. ASSUME NEW age \in Times, NEW limit \in Nat
      PROVE  /\ Ages(age, limit) \in Times
             /\ age = Never => Ages(age, limit) = Never
             /\ age # Never => Ages(age, limit) # Never /\ Ages(age, limit) <= age + 1
  BY SMT DEF Ages, Times, Never
<1>2. /\ Largest(ConfirmationTimeout, ObservationDelay) \in Nat
      /\ StableDuration \in Nat /\ MaxReportGap + 1 \in Nat
  BY SMT DEF Largest
<1>3. CASE ~Awaiting
  BY <1>3, SMT DEF UpdateTick, Update, Times, Never
<1>4. CASE Awaiting
  <2> DEFINE a == Ages(update.accepted, Largest(ConfirmationTimeout, ObservationDelay))
             s == Ages(update.seen, StableDuration)
             l == Ages(update.last, MaxReportGap + 1)
  <2>1. update' = [update EXCEPT !.accepted = a, !.seen = s, !.last = l]
    BY <1>4, Zenon DEF UpdateTick
  <2>2. update.accepted \in Times /\ update.seen \in Times /\ update.last \in Times
    BY SMT DEF Update
  <2>3. /\ a \in Times /\ s \in Times /\ l \in Times
        /\ update.accepted = Never => a = Never
        /\ update.accepted # Never => a # Never /\ a <= update.accepted + 1
    BY <1>1, <1>2, <2>2
  <2> HIDE DEF a, s, l
  <2>4. update.status = "running"
    BY <1>4 DEF Awaiting
  <2>5. update' \in Update
    BY <2>1, <2>3 DEF Update
  <2>6. update'.status = update.status /\ update'.accepted = a
    BY <2>1 DEF Update
  <2>7. QED
    BY <2>3, <2>4, <2>5, <2>6
<1>5. QED
  BY <1>3, <1>4

-----------------------------------------------------------------------------
(* Types *)

\* TypeOK in three parts: the provers treat each kind of value apart.
DataOK ==
  /\ disk \in Versions /\ proc \in Versions
  /\ stage \in Stages /\ watchdog \in Watchdogs
  /\ busy \in Nat /\ uptime \in Nat /\ armed \in Nat /\ faults \in Nat
  /\ health \in {"good", "slow", "bad"}
  /\ update \in Update

PostOK == post \subseteq Result

LEMMA TypeParts == TypeOK <=> DataOK /\ FlagsOK /\ PostOK
BY Zenon DEF TypeOK, SelfUpdateTypeOK, UpdateTypeOK, DataOK, PostOK

LEMMA FlagsKept == ASSUME FlagsOK, [Next]_vars PROVE FlagsOK'
<1>1. ASSUME Node PROVE FlagsOK'
  BY <1>1, Zenon DEF Node, NodeStep, PollOnce, Systemd, FlagsOK, Enters, Starts, Refuse,
     WriteMarker, Install, CannotInstall, ArmWatchdog, CannotArm, CannotArmNorRestore,
     ScheduleRestart, RestoreBinary, CannotRestore, Disarm, RestartServices, WatchdogFires,
     HelperRestores, HelperRestarts, HelperFails, Confirm,
     StopWatchdog, Crash, Reboot
<1>2. ASSUME ~Node PROVE FlagsOK'
  BY <1>2, Zenon DEF Next, FlagsOK, PollForJob, ReceiveJob, PollForUpdate, PostSuccess, PostError, Posts,
     ReadResult, GiveUp, Maintain, Tick, NodeTick, vars, nodeVars
<1>3. QED
  BY <1>1, <1>2

LEMMA PostKept == ASSUME PostOK, [Next]_vars PROVE PostOK'
<1>1. Abandoned \subseteq Result
  <2>1. ASSUME NEW r \in post PROVE [outcome |-> r.outcome, live |-> FALSE] \in Result
    <3>1. r.outcome \in {"ok", "error"}
      BY SMT DEF PostOK, Result
    <3>2. QED
      BY <3>1, Zenon DEF Result
  <2>2. QED
    BY <2>1, Zenon DEF Abandoned
<1>2. ASSUME NEW outcome \in {"ok", "error"}
      PROVE  [outcome |-> outcome, live |-> TRUE] \in Result
  BY Zenon DEF Result
<1>3. ASSUME NEW outcome \in {"ok", "error"}, NEW s, Posts(outcome, s) PROVE PostOK'
  BY <1>2, <1>3, Zenon DEF Posts, PostOK
<1>4. post' = post \/ post' = Abandoned \/ PostOK'
      \/ \E r \in post : post' = post \ {r}
  BY <1>3, Zenon DEF Next, Node, DropsRequest, PollForJob, ReceiveJob, PollForUpdate, PostSuccess,
     PostError, ReadResult, GiveUp, Maintain, Tick, vars
<1>5. QED
  BY <1>1, <1>4, Zenon DEF PostOK

LEMMA DataKept == ASSUME DataOK, [Next]_vars PROVE DataOK'
  <2> USE SelfUpdateAssumption, ConfirmationAssumption
      DEF DataOK, Update, Times, Never, Versions, Stages, Watchdogs, Requesting, DropsRequest,
      Enters
  <2>1. CASE Refuse /\ DropsRequest
    BY <2>1 DEF Refuse
  <2>2. CASE WriteMarker /\ DropsRequest
    BY <2>2 DEF WriteMarker
  <2>3. CASE Install /\ DropsRequest
    BY <2>3 DEF Install
  <2>0. CASE CannotInstall /\ DropsRequest
    BY <2>0 DEF CannotInstall
  <2>4. CASE ArmWatchdog /\ DropsRequest
    BY <2>4 DEF ArmWatchdog
  <2>5. CASE CannotArm /\ DropsRequest
    BY <2>5 DEF CannotArm
  <2>27. CASE CannotArmNorRestore /\ DropsRequest
    BY <2>27 DEF CannotArmNorRestore, Fault
  <2>28. CASE CannotRestore /\ DropsRequest
    BY <2>28 DEF CannotRestore, Fault
  <2>29. CASE HelperFails /\ DropsRequest
    BY <2>29 DEF HelperFails, Fault
  <2>30. CASE ReceiveJob
    BY <2>30 DEF ReceiveJob
  <2>6. CASE ScheduleRestart /\ DropsRequest
    BY <2>6 DEF ScheduleRestart
  <2>7. CASE RestoreBinary /\ DropsRequest
    BY <2>7 DEF RestoreBinary
  <2>8. CASE Disarm /\ DropsRequest
    BY <2>8 DEF Disarm
  <2>9. CASE RestartServices /\ DropsRequest
    BY <2>9 DEF RestartServices, Starts
  <2>10. CASE WatchdogFires /\ DropsRequest
    BY <2>10 DEF WatchdogFires
  <2>11. CASE HelperRestores /\ DropsRequest
    BY <2>11 DEF HelperRestores
  <2>12. CASE HelperRestarts /\ DropsRequest
    BY <2>12 DEF HelperRestarts, Starts
  <2>13. CASE Confirm /\ DropsRequest
    BY <2>13 DEF Confirm, Confirmable
  <2>14. CASE StopWatchdog /\ DropsRequest
    BY <2>14 DEF StopWatchdog
  <2>15. CASE Crash /\ DropsRequest
    BY <2>15 DEF Crash, Fault, Starts
  <2>16. CASE Reboot /\ DropsRequest
    BY <2>16 DEF Reboot, Fault, Starts
  <2>17. CASE PollForJob
    BY <2>17, Dispatches DEF PollForJob
  <2>18. CASE PollForUpdate
    BY <2>18, Observes DEF PollForUpdate, NoReport, nodeVars
  <2>19. CASE PostSuccess
    BY <2>19 DEF PostSuccess, Posts
  <2>20. CASE PostError
    BY <2>20 DEF PostError, Posts
  <2>21. CASE \E r \in post : ReadResult(r)
    BY <2>21 DEF ReadResult, Answered, Unanswered, Accept, Reject, Finish, Awaiting
  <2>22. CASE GiveUp
    BY <2>22 DEF GiveUp, Unanswered, Abandoned
  <2>23. CASE Maintain
    BY <2>23 DEF Maintain, Expire, TimeOut, Finish, Awaiting, Expired, nodeVars
  <2>24. CASE Tick
    BY <2>24, Ticks DEF Tick, NodeTick, NothingDue
  <2>25. CASE UNCHANGED vars
    BY <2>25 DEF vars, nodeVars
  <2>26. QED
    BY <2>0, <2>1, <2>2, <2>3, <2>4, <2>5, <2>6, <2>7, <2>8, <2>9, <2>10, <2>11, <2>12, <2>13,
       <2>14, <2>15, <2>16, <2>17, <2>18, <2>19, <2>20, <2>21, <2>22, <2>23, <2>24, <2>25,
       <2>27, <2>28, <2>29, <2>30, StepCases

\* Every variable keeps its type (TypeOK), for all durations and faults.
THEOREM TypeCorrect == Spec => []TypeOK
<1>1. Init => TypeOK
  <2> SUFFICES ASSUME Init PROVE DataOK /\ FlagsOK /\ PostOK
    BY TypeParts
  <2>1. DataOK
    BY SMT DEF Init, SelfUpdateInit, UpdateInit, Queued, DataOK, Update, Times, Never, Versions,
       Stages, Watchdogs, Requesting
  <2>2. FlagsOK
    BY Zenon DEF Init, SelfUpdateInit, FlagsOK
  <2>3. PostOK
    BY Zenon DEF Init, PostOK
  <2>4. QED
    BY <2>1, <2>2, <2>3
<1>2. TypeOK /\ [Next]_vars => TypeOK'
  <2> SUFFICES ASSUME TypeOK, [Next]_vars PROVE DataOK' /\ FlagsOK' /\ PostOK'
    BY TypeParts, Zenon DEF TypeOK, SelfUpdateTypeOK, UpdateTypeOK, DataOK, PostOK
  <2>1. QED
    BY DataKept, FlagsKept, PostKept, TypeParts
<1>3. QED
  BY <1>1, <1>2, PTL DEF Spec

LEMMA WindowInvariant ==
  ASSUME NoLateReads
  PROVE  Spec => [](TypeOK /\ Window)
<1>1. Init => Window
  BY SMT DEF Init, SelfUpdateInit, UpdateInit, Queued, Window, PostInFlight, NotYetAccepted,
     WatchdogFirst, JustAccepted, SucceededLate, Accepted, Preparing, Answering, Never
<1>2. TypeOK /\ Window /\ [Next]_vars => Window'
  <2> SUFFICES ASSUME TypeOK, Window, [Next]_vars PROVE Window'
    OBVIOUS
  <2> DataOK /\ PostOK
    BY TypeParts
  <2> USE SelfUpdateAssumption, ConfirmationAssumption, WindowAssumption, NoLateReads
      DEF Window, PostInFlight, NotYetAccepted, WatchdogFirst, JustAccepted, SucceededLate,
      Accepted, Preparing, Answering, Requesting, TypeOK, SelfUpdateTypeOK, UpdateTypeOK,
      Update, Times, Never, Result, NoLateReads, Abandoned, DropsRequest, Enters
  <2>1. CASE Refuse /\ DropsRequest
    BY <2>1 DEF Refuse
  <2>2. CASE WriteMarker /\ DropsRequest
    BY <2>2 DEF WriteMarker
  <2>3. CASE Install /\ DropsRequest
    BY <2>3 DEF Install
  <2>0. CASE CannotInstall /\ DropsRequest
    BY <2>0 DEF CannotInstall
  <2>4. CASE ArmWatchdog /\ DropsRequest
    BY <2>4 DEF ArmWatchdog
  <2>5. CASE CannotArm /\ DropsRequest
    BY <2>5 DEF CannotArm
  <2>27. CASE CannotArmNorRestore /\ DropsRequest
    BY <2>27 DEF CannotArmNorRestore, Fault
  <2>28. CASE CannotRestore /\ DropsRequest
    BY <2>28 DEF CannotRestore, Fault
  <2>29. CASE HelperFails /\ DropsRequest
    BY <2>29 DEF HelperFails, Fault
  <2>30. CASE ReceiveJob
    BY <2>30 DEF ReceiveJob
  <2>6. CASE ScheduleRestart /\ DropsRequest
    BY <2>6 DEF ScheduleRestart
  <2>7. CASE RestoreBinary /\ DropsRequest
    BY <2>7 DEF RestoreBinary
  <2>8. CASE Disarm /\ DropsRequest
    BY <2>8 DEF Disarm
  <2>9. CASE RestartServices /\ DropsRequest
    BY <2>9 DEF RestartServices, Starts
  <2>10. CASE WatchdogFires /\ DropsRequest
    BY <2>10 DEF WatchdogFires
  <2>11. CASE HelperRestores /\ DropsRequest
    BY <2>11 DEF HelperRestores
  <2>12. CASE HelperRestarts /\ DropsRequest
    BY <2>12 DEF HelperRestarts, Starts
  <2>13. CASE Confirm /\ DropsRequest
    BY <2>13 DEF Confirm, Confirmable
  <2>14. CASE StopWatchdog /\ DropsRequest
    BY <2>14 DEF StopWatchdog
  <2>15. CASE Crash /\ DropsRequest
    BY <2>15 DEF Crash, Fault, Starts
  <2>16. CASE Reboot /\ DropsRequest
    BY <2>16 DEF Reboot, Fault, Starts
  <2>17. CASE PollForJob
    <3>1. ~Accepted /\ ~Accepted' /\ update'.status = "running"
      BY <2>17, Dispatches DEF PollForJob, Awaiting
    <3>2. /\ stage = "idle" /\ stage' = "polling"
          /\ UNCHANGED <<post, watchdog, armed>>
      BY <2>17 DEF PollForJob
    <3>3. post = {}
      BY <3>2
    <3>4. PostInFlight'
      BY <3>2, <3>3
    <3>5. NotYetAccepted' /\ SucceededLate'
      BY <3>1
    <3>6. WatchdogFirst'
      BY <3>1, <3>2
    <3>7. JustAccepted'
      BY <3>1, <3>2
    <3>8. QED
      BY <3>4, <3>5, <3>6, <3>7
  <2>18. CASE PollForUpdate
    BY <2>18, Observes DEF PollForUpdate, NoReport, nodeVars
  <2>19. CASE PostSuccess
    BY <2>19 DEF PostSuccess, Posts
  <2>20. CASE PostError
    BY <2>20 DEF PostError, Posts
  <2>21. CASE \E r \in post : ReadResult(r)
    BY <2>21 DEF ReadResult, Answered, Unanswered, Accept, Reject, Finish, Awaiting
  <2>22. CASE GiveUp
    BY <2>22 DEF GiveUp, Unanswered
  <2>23. CASE Maintain
    BY <2>23 DEF Maintain, Expire, TimeOut, Finish, Awaiting, Expired, nodeVars
  <2>24. CASE Tick
    BY <2>24, Ticks DEF Tick, NodeTick, NothingDue
  <2>25. CASE UNCHANGED vars
    BY <2>25 DEF vars, nodeVars
  <2>26. QED
    BY <2>0, <2>1, <2>2, <2>3, <2>4, <2>5, <2>6, <2>7, <2>8, <2>9, <2>10, <2>11, <2>12, <2>13,
       <2>14, <2>15, <2>16, <2>17, <2>18, <2>19, <2>20, <2>21, <2>22, <2>23, <2>24, <2>25,
       <2>27, <2>28, <2>29, <2>30, StepCases
<1>3. QED
  BY <1>1, <1>2, TypeCorrect, PTL DEF Spec

LEMMA BadInvariant ==
  ASSUME NoLateReads
  PROVE  Spec => []BadGuarded
<1>1. Init => BadGuarded
  BY SMT DEF Init, SelfUpdateInit, UpdateInit, Queued, BadGuarded, Bad, Accepted, Answering, Never
<1>2. TypeOK /\ Window /\ BadGuarded /\ [Next]_vars => BadGuarded'
  <2> SUFFICES ASSUME TypeOK, Window, BadGuarded, [Next]_vars PROVE BadGuarded'
    OBVIOUS
  <2> USE DEF Window, PostInFlight, NotYetAccepted, Preparing, BadGuarded, Bad, Accepted, Answering,
      TypeOK, SelfUpdateTypeOK, Versions, Watchdogs, Result, UpdateTypeOK, Update, Times,
      Never, DropsRequest, Enters
  <2>1. CASE Refuse /\ DropsRequest
    BY <2>1 DEF Refuse, Abandoned
  <2>2. CASE WriteMarker /\ DropsRequest
    BY <2>2 DEF WriteMarker, Abandoned
  <2>3. CASE Install /\ DropsRequest
    BY <2>3 DEF Install, Abandoned
  <2>0. CASE CannotInstall /\ DropsRequest
    BY <2>0 DEF CannotInstall, Abandoned
  <2>4. CASE ArmWatchdog /\ DropsRequest
    BY <2>4 DEF ArmWatchdog, Abandoned
  <2>5. CASE CannotArm /\ DropsRequest
    BY <2>5 DEF CannotArm, Abandoned
  <2>27. CASE CannotArmNorRestore /\ DropsRequest
    BY <2>27 DEF CannotArmNorRestore, Fault, Abandoned
  <2>28. CASE CannotRestore /\ DropsRequest
    BY <2>28 DEF CannotRestore, Fault, Abandoned
  <2>29. CASE HelperFails /\ DropsRequest
    BY <2>29 DEF HelperFails, Fault, Abandoned
  <2>30. CASE ReceiveJob
    BY <2>30 DEF ReceiveJob
  <2>6. CASE ScheduleRestart /\ DropsRequest
    BY <2>6 DEF ScheduleRestart, Abandoned
  <2>7. CASE RestoreBinary /\ DropsRequest
    BY <2>7 DEF RestoreBinary, Abandoned
  <2>8. CASE Disarm /\ DropsRequest
    BY <2>8 DEF Disarm, Abandoned
  <2>9. CASE RestartServices /\ DropsRequest
    BY <2>9 DEF RestartServices, Starts, Abandoned
  <2>10. CASE WatchdogFires /\ DropsRequest
    BY <2>10 DEF WatchdogFires, Abandoned
  <2>11. CASE HelperRestores /\ DropsRequest
    BY <2>11 DEF HelperRestores, Abandoned
  <2>12. CASE HelperRestarts /\ DropsRequest
    BY <2>12 DEF HelperRestarts, Starts, Abandoned
  <2>13. CASE Confirm /\ DropsRequest
    BY <2>13 DEF Confirm, Confirmable, Abandoned
  <2>14. CASE StopWatchdog /\ DropsRequest
    BY <2>14 DEF StopWatchdog, Abandoned
  <2>15. CASE Crash /\ DropsRequest
    BY <2>15 DEF Crash, Fault, Starts, Abandoned
  <2>16. CASE Reboot /\ DropsRequest
    BY <2>16 DEF Reboot, Fault, Starts, Abandoned
  <2>17. CASE PollForJob
    BY <2>17, Dispatches DEF PollForJob
  <2>18. CASE PollForUpdate
    BY <2>18, Observes DEF PollForUpdate, NoReport, nodeVars
  <2>19. CASE PostSuccess
    BY <2>19 DEF PostSuccess, Posts
  <2>20. CASE PostError
    BY <2>20 DEF PostError, Posts
  <2>21. CASE \E r \in post : ReadResult(r)
    BY <2>21 DEF ReadResult, Answered, Unanswered, Accept, Reject, Finish, Awaiting
  <2>22. CASE GiveUp
    BY <2>22 DEF GiveUp, Unanswered, Abandoned, Requesting
  <2>23. CASE Maintain
    BY <2>23 DEF Maintain, Expire, TimeOut, Finish, Awaiting, Expired, nodeVars
  <2>24. CASE Tick
    BY <2>24, Ticks DEF Tick, NodeTick, NothingDue, Requesting
  <2>25. CASE UNCHANGED vars
    BY <2>25 DEF vars, nodeVars
  <2>26. QED
    BY <2>0, <2>1, <2>2, <2>3, <2>4, <2>5, <2>6, <2>7, <2>8, <2>9, <2>10, <2>11, <2>12, <2>13,
       <2>14, <2>15, <2>16, <2>17, <2>18, <2>19, <2>20, <2>21, <2>22, <2>23, <2>24, <2>25,
       <2>27, <2>28, <2>29, <2>30, StepCases
<1>3. QED
  BY <1>1, <1>2, WindowInvariant, PTL DEF Spec

-----------------------------------------------------------------------------
(* What an update promises *)

\* SuccessBeyondWindow: the watchdog is over when the controller reports success,
\* however long it and the agent's requests take, if no result is read late.
THEOREM SuccessIsFinal == NoLateReads => (Spec => []SuccessBeyondWindow)
<1> SUFFICES ASSUME NoLateReads PROVE Spec => []SuccessBeyondWindow
  OBVIOUS
<1>1. TypeOK /\ Window => SuccessBeyondWindow
  BY WindowAssumption, SelfUpdateAssumption, ConfirmationAssumption
     DEF TypeOK, SelfUpdateTypeOK, UpdateTypeOK, Update, Times, Never, Window, WatchdogFirst,
         SucceededLate, Accepted, SuccessBeyondWindow
<1>2. QED
  BY <1>1, WindowInvariant, PTL

\* NoRollbackAfterSuccess: once success is reported no step replaces the binary,
\* the agent's own restoration after a lost acknowledgement included.
THEOREM NoLateRollback == NoLateReads => (Spec => NoRollbackAfterSuccess)
<1> SUFFICES ASSUME NoLateReads PROVE Spec => NoRollbackAfterSuccess
  OBVIOUS
<1>1. TypeOK /\ Window /\ [Next]_vars => [update.status = "succeeded" => disk' = disk]_vars
  <2> SUFFICES ASSUME TypeOK, Window, [Next]_vars, update.status = "succeeded"
               PROVE  disk' = disk
    OBVIOUS
  <2>1. /\ stage \notin Preparing \cup Answering
        /\ watchdog = "none"
    BY WindowAssumption, SelfUpdateAssumption, ConfirmationAssumption
       DEF TypeOK, SelfUpdateTypeOK, UpdateTypeOK, Update, Times, Never, Window, WatchdogFirst,
           NotYetAccepted, JustAccepted, SucceededLate, Accepted, SuccessBeyondWindow
  <2>2. /\ ~Install /\ ~CannotArm /\ ~CannotArmNorRestore
        /\ ~RestoreBinary /\ ~CannotRestore /\ ~HelperRestores
    BY <2>1 DEF Install, CannotArm, CannotArmNorRestore, RestoreBinary, CannotRestore,
       HelperRestores, Preparing, Answering
  <2>3. QED
    BY <2>2, StepCases, Zenon DEF Refuse, WriteMarker, CannotInstall, ArmWatchdog,
       ScheduleRestart, Disarm,
       RestartServices, WatchdogFires, HelperRestarts, HelperFails, Confirm, StopWatchdog, Crash,
       Reboot, PollForJob, ReceiveJob, PollForUpdate, PostSuccess, PostError, Posts, ReadResult, GiveUp, Maintain,
       Tick, NodeTick, nodeVars, vars
<1>2. QED
  BY <1>1, WindowInvariant, PTL DEF Spec, NoRollbackAfterSuccess

\* NotSentAgain: nothing is accepted while the job is on its way to the agent or
\* being prepared, so the agent never begins an update that is waited for.
THEOREM AcceptedNotSentAgain == NoLateReads => (Spec => NotSentAgain)
<1> SUFFICES ASSUME NoLateReads PROVE Spec => NotSentAgain
  OBVIOUS
<1>1. Window /\ [Next]_vars => [Awaiting /\ stage # "executing" => stage' # "executing"]_vars
  <2> SUFFICES ASSUME Window, [Next]_vars, Awaiting, stage # "executing"
               PROVE  stage' # "executing"
    OBVIOUS
  <2>1. stage # "polling"
    BY DEF Window, NotYetAccepted, Preparing, Accepted, Awaiting
  <2>2. ~ReceiveJob
    BY <2>1 DEF ReceiveJob
  <2>3. ASSUME NEW r, ReadResult(r) PROVE stage' # "executing"
    BY <2>3 DEF ReadResult, Answered, Unanswered, Enters
  <2>4. QED
    BY <2>2, <2>3, StepCases DEF Refuse, WriteMarker, Install, CannotInstall, ArmWatchdog,
       CannotArm, CannotArmNorRestore, ScheduleRestart, RestoreBinary, CannotRestore, Disarm,
       RestartServices, WatchdogFires, HelperRestores, HelperRestarts, HelperFails, Confirm,
       StopWatchdog, Crash, Reboot, Starts, Enters, PollForJob, PollForUpdate, PostSuccess,
       PostError, Posts, GiveUp, Unanswered, Maintain, Tick, NodeTick, nodeVars, vars
<1>2. QED
  BY <1>1, WindowInvariant, PTL DEF Spec, NotSentAgain

\* SuccessHealthy: a version whose services never become healthy is rolled back
\* before the controller would report its success.
THEOREM BadNeverSucceeds == NoLateReads => (Spec => []SuccessHealthy)
<1> SUFFICES ASSUME NoLateReads PROVE Spec => []SuccessHealthy
  OBVIOUS
<1>1. Init => SuccessHealthy
  BY DEF Init, UpdateInit, Queued, SuccessHealthy
<1>2. TypeOK /\ Window /\ BadGuarded /\ SuccessHealthy /\ [Next]_vars => SuccessHealthy'
  <2> SUFFICES ASSUME TypeOK, Window, BadGuarded, SuccessHealthy, [Next]_vars,
                      update'.status = "succeeded", health' = "bad", ~unguarded'
               PROVE  FALSE
    BY DEF SuccessHealthy
  <2>1. health = "bad" /\ ~unguarded
    <3>1. Node => UNCHANGED health /\ (unguarded' = TRUE \/ UNCHANGED unguarded)
      BY Zenon DEF Node, NodeStep, PollOnce, Systemd, Refuse, WriteMarker, Install, CannotInstall,
         ArmWatchdog,
         CannotArm, CannotArmNorRestore, ScheduleRestart, RestoreBinary, CannotRestore, Disarm,
         RestartServices, WatchdogFires, HelperRestores, HelperRestarts, HelperFails, Confirm,
         StopWatchdog, Crash, Reboot
    <3>2. ~Node => UNCHANGED <<health, unguarded>>
      BY Zenon DEF Next, PollForJob, ReceiveJob, PollForUpdate, PostSuccess, PostError, Posts, ReadResult,
         GiveUp, Maintain, Tick, NodeTick, nodeVars, vars
    <3>3. QED
      BY <3>1, <3>2
  <2>2. update.status # "succeeded"
    BY <2>1 DEF SuccessHealthy
  <2>3. PollForUpdate
    <3>1. ~PollForJob /\ ~Tick
      BY <2>2, Dispatches, Ticks DEF PollForJob, Tick, TypeOK, UpdateTypeOK
    <3>2. \A r \in post : ~ReadResult(r)
      BY <2>2 DEF ReadResult, Accept, Reject, Finish, TypeOK, UpdateTypeOK, Update
    <3>3. ~Maintain
      BY <2>2 DEF Maintain, Expire, TimeOut, Finish, TypeOK, UpdateTypeOK, Update
    <3>4. QED
      BY <2>2, <3>1, <3>2, <3>3, StepCases, Zenon
         DEF DropsRequest, ReceiveJob, PostSuccess, PostError, Posts, GiveUp, vars
  <2>4. proc = "new" /\ Accepted /\ update.accepted >= ObservationDelay
    BY <2>3, Observes DEF PollForUpdate, NoReport, Accepted, TypeOK, UpdateTypeOK
  <2>5. watchdog = "none"
    BY <2>4, WindowAssumption, SelfUpdateAssumption, ConfirmationAssumption
       DEF TypeOK, SelfUpdateTypeOK, UpdateTypeOK, Update, Times, Never, Window, WatchdogFirst
  <2>6. QED
    BY <2>1, <2>4, <2>5 DEF BadGuarded, Bad
<1>3. QED
  BY <1>1, <1>2, WindowInvariant, BadInvariant, PTL DEF Spec
=============================================================================
