----------------------------- MODULE SelfUpdate -----------------------------
(***************************************************************************)
(* An agent replaces its own binary: it prepares the update (backup,       *)
(* helper, marker, rename), arms a watchdog that is no child of it, posts  *)
(* the result, and restarts.  The new process removes the marker once it   *)
(* ran long enough beside healthy services; if nobody does so in time, the *)
(* watchdog's helper puts the old binary back.                             *)
(*                                                                         *)
(* Time is counted in units; every timer below is due at its limit, and    *)
(* time stops until what is due has happened.                              *)
(***************************************************************************)
EXTENDS Naturals

CONSTANTS
  WatchdogDelay,   \* --on-active of scheduleUpdateRollback, 90 s
  ConfirmDelay,    \* updateConfirmationDelay, 30 s
  PostTimeout,     \* timeout of the agent's HTTP client, 45 s
  MaxExecution,    \* bound: time the execution of the job takes
  MaxFaults,       \* bound: crashes, reboots and failing restorations
  Faults           \* what may go wrong: crash, reboot, broken, loss, late, slow, bad

ASSUME SelfUpdateAssumption ==
  /\ WatchdogDelay \in Nat \ {0}
  /\ ConfirmDelay \in Nat /\ PostTimeout \in Nat
  /\ MaxExecution \in Nat /\ MaxFaults \in Nat

VARIABLES
  disk,       \* the version of the installed binary
  proc,       \* the version of the agent that runs
  stage,      \* how far pollOnce is with the job, in that process
  uptime,     \* time since that process started, up to ConfirmDelay
  marker,     \* pending-update.json exists
  watchdog,   \* the rollback unit: its timer, then the helper's steps
  armed,      \* time since the timer was started
  busy,       \* time since the present stage began
  restart,    \* the unit that restarts the services is due
  confirming, \* the marker is removed, the watchdog not yet stopped
  health,     \* of the services that run the new binary
  faults,     \* crashes, reboots and failing restorations so far
  unguarded    \* a reboot or a failing helper left the update without watchdog

nodeVars == <<disk, proc, stage, uptime, marker, watchdog, armed, busy, restart,
              confirming, health, faults, unguarded>>

Versions == {"old", "new"}
Stages   == {"idle", "polling", "executing", "marked", "installed", "unarmed", "stuck", "armed",
             "posting", "reporting", "reportingStuck", "acknowledged", "givenUp", "restored"}
Requesting == {"polling", "posting", "reporting", "reportingStuck"}
Watchdogs == {"none", "armed", "checked", "restored"}

\* A process starts with whatever binary is installed.
Starts ==
  /\ proc' = disk
  /\ stage' = "idle" /\ busy' = 0 /\ uptime' = 0 /\ confirming' = FALSE

Enters(s) == stage' = s /\ busy' = 0

Fault(kind) ==
  /\ kind \in Faults /\ faults < MaxFaults
  /\ faults' = faults + 1

-----------------------------------------------------------------------------
(* Executor.updateAtlas and Client.pollOnce *)

\* requireVersionUpgrade refuses a target that is not newer; a marker left
\* behind refuses every update; the download may fail.  The answer is an error.
Refuse ==
  /\ stage = "executing"
  /\ Enters("unarmed")
  /\ UNCHANGED <<disk, proc, uptime, marker, watchdog, armed, restart, confirming, health, faults, unguarded>>

\* writePendingUpdate, the backup and the helper already written.
WriteMarker ==
  /\ stage = "executing" /\ proc = "old" /\ ~marker
  /\ marker' = TRUE
  /\ Enters("marked")
  /\ UNCHANGED <<disk, proc, uptime, watchdog, armed, restart, confirming, health, faults, unguarded>>

Install ==
  /\ stage = "marked"
  /\ disk' = "new"
  /\ Enters("installed")
  /\ UNCHANGED <<proc, uptime, marker, watchdog, armed, restart, confirming, health, faults, unguarded>>

ArmWatchdog ==
  /\ stage = "installed"
  /\ watchdog' = "armed" /\ armed' = 0
  /\ Enters("armed")
  /\ UNCHANGED <<disk, proc, uptime, marker, restart, confirming, health, faults, unguarded>>

\* The rename failed, and the answer is an error.
CannotInstall ==
  /\ stage = "marked"
  /\ marker' = FALSE
  /\ Enters("unarmed")
  /\ UNCHANGED <<disk, proc, uptime, watchdog, armed, restart, confirming, health, faults, unguarded>>

\* scheduleUpdateRollback failed: rollbackUpdatedBinary, and the answer is an error.
CannotArm ==
  /\ stage = "installed"
  /\ disk' = "old" /\ marker' = FALSE
  /\ Enters("unarmed")
  /\ UNCHANGED <<proc, uptime, watchdog, armed, restart, confirming, health, faults, unguarded>>

\* The restoration fails as well, before or after the rename: the marker stays,
\* and the answer still names it.
CannotArmNorRestore ==
  /\ stage = "installed"
  /\ Fault("broken")
  /\ disk' \in {disk, "old"}
  /\ Enters("stuck")
  /\ UNCHANGED <<proc, uptime, marker, watchdog, armed, restart, confirming, health, unguarded>>

\* The acknowledgement arrived: scheduleUpdateRestart.  When that fails,
\* recovery is left to the watchdog.
ScheduleRestart ==
  /\ stage = "acknowledged"
  /\ restart' \in {TRUE, restart}
  /\ Enters("idle")
  /\ UNCHANGED <<disk, proc, uptime, marker, watchdog, armed, confirming, health, faults, unguarded>>

\* It did not: the binary is restored ...
RestoreBinary ==
  /\ stage = "givenUp"
  /\ disk' = "old"
  /\ Enters("restored")
  /\ UNCHANGED <<proc, uptime, marker, watchdog, armed, restart, confirming, health, faults, unguarded>>

\* ... or cannot be, which leaves marker and watchdog ...
CannotRestore ==
  /\ stage = "givenUp"
  /\ Fault("broken")
  /\ disk' \in {disk, "old"}
  /\ Enters("idle")
  /\ UNCHANGED <<proc, uptime, marker, watchdog, armed, restart, confirming, health, unguarded>>

\* Mutant: the marker is left to the watchdog that is stopped.
DisarmKeepsMarker ==
  /\ stage = "restored"
  /\ watchdog' = "none"
  /\ Enters("idle")
  /\ UNCHANGED <<disk, proc, uptime, marker, armed, restart, confirming, health, faults, unguarded>>

\* ... then the marker is removed and the watchdog stopped.
Disarm ==
  /\ stage = "restored"
  /\ marker' = FALSE /\ watchdog' = "none"
  /\ Enters("idle")
  /\ UNCHANGED <<disk, proc, uptime, armed, restart, confirming, health, faults, unguarded>>

-----------------------------------------------------------------------------
(* The units of systemd *)

RestartServices ==
  /\ restart
  /\ restart' = FALSE
  /\ Starts
  /\ UNCHANGED <<disk, marker, watchdog, armed, health, faults, unguarded>>

\* The helper exits when there is no marker.
WatchdogFires ==
  /\ watchdog = "armed" /\ armed = WatchdogDelay
  /\ watchdog' = IF marker THEN "checked" ELSE "none"
  /\ UNCHANGED <<disk, proc, stage, uptime, marker, armed, busy, restart, confirming, health, faults, unguarded>>

HelperRestores ==
  /\ watchdog = "checked"
  /\ disk' = "old" /\ watchdog' = "restored"
  /\ UNCHANGED <<proc, stage, uptime, marker, armed, busy, restart, confirming, health, faults, unguarded>>

HelperRestarts ==
  /\ watchdog = "restored"
  /\ watchdog' = "none" /\ marker' = FALSE
  /\ Starts
  /\ UNCHANGED <<disk, armed, restart, health, faults, unguarded>>

\* The script ends with the first command that fails (install, mv or the restart
\* of the services), and nobody runs it again.
HelperFails ==
  /\ watchdog \in {"checked", "restored"}
  /\ Fault("broken")
  /\ watchdog' = "none" /\ unguarded' = TRUE
  /\ UNCHANGED <<disk, proc, stage, uptime, marker, armed, busy, restart, confirming, health>>

-----------------------------------------------------------------------------
(* confirmPendingUpdate, in a goroutine of its own *)

Confirmable ==
  /\ marker /\ proc = "new" /\ ~confirming
  /\ uptime >= ConfirmDelay

\* Mutant: the services are not asked.
ConfirmAnyway ==
  /\ Confirmable
  /\ marker' = FALSE /\ confirming' = TRUE
  /\ UNCHANGED <<disk, proc, stage, uptime, watchdog, armed, busy, restart, health, faults, unguarded>>

\* The marker is removed when is-active finds all services healthy ...
Confirm ==
  /\ Confirmable /\ health # "bad"
  /\ marker' = FALSE /\ confirming' = TRUE
  /\ UNCHANGED <<disk, proc, stage, uptime, watchdog, armed, busy, restart, health, faults, unguarded>>

\* ... then timer and helper are stopped, wherever the helper is.
StopWatchdog ==
  /\ confirming
  /\ watchdog' = "none" /\ confirming' = FALSE
  /\ UNCHANGED <<disk, proc, stage, uptime, marker, armed, busy, restart, health, faults, unguarded>>

-----------------------------------------------------------------------------
(* Faults *)

\* The agent's process ends, and systemd starts it again.
Crash ==
  /\ Fault("crash")
  /\ Starts
  /\ UNCHANGED <<disk, marker, watchdog, armed, restart, health, unguarded>>

\* The machine starts again: units that were created at run time are gone.
Reboot ==
  /\ Fault("reboot")
  /\ Starts
  /\ watchdog' = "none" /\ restart' = FALSE /\ unguarded' = TRUE
  /\ UNCHANGED <<disk, marker, armed, health>>

-----------------------------------------------------------------------------
SelfUpdateInit ==
  /\ disk = "old" /\ proc = "old"
  /\ stage = "idle" /\ busy = 0 /\ uptime = 0
  /\ marker = FALSE /\ watchdog = "none" /\ armed = 0
  /\ restart = FALSE /\ confirming = FALSE
  /\ health \in {"good"} \cup (Faults \cap {"slow", "bad"})
  /\ faults = 0 /\ unguarded = FALSE

\* What must happen before time goes on.
NothingDue ==
  /\ stage \in {"idle", "executing"} \cup Requesting
  /\ stage = "executing" => busy < MaxExecution
  /\ stage \in Requesting => busy < PostTimeout
  /\ ~restart /\ ~confirming
  /\ watchdog \in {"none", "armed"}
  /\ watchdog = "armed" => armed < WatchdogDelay
  /\ health = "good" => ~Confirmable

NodeTick ==
  /\ NothingDue
  /\ busy' = IF stage = "idle" THEN 0 ELSE busy + 1
  /\ uptime' = IF uptime < ConfirmDelay THEN uptime + 1 ELSE uptime
  /\ armed' = IF watchdog = "armed" THEN armed + 1 ELSE armed
  /\ UNCHANGED <<disk, proc, stage, marker, watchdog, restart, confirming, health, faults, unguarded>>

PollOnce ==
  \/ Refuse \/ WriteMarker \/ Install \/ CannotInstall \/ ArmWatchdog \/ CannotArm
  \/ CannotArmNorRestore \/ ScheduleRestart \/ RestoreBinary \/ CannotRestore \/ Disarm

Systemd == RestartServices \/ WatchdogFires \/ HelperRestores \/ HelperRestarts \/ HelperFails

NodeStep == PollOnce \/ Systemd \/ Confirm \/ StopWatchdog \/ Crash \/ Reboot

FlagsOK ==
  /\ marker \in BOOLEAN /\ restart \in BOOLEAN
  /\ confirming \in BOOLEAN /\ unguarded \in BOOLEAN

SelfUpdateTypeOK ==
  /\ disk \in Versions /\ proc \in Versions
  /\ stage \in Stages /\ watchdog \in Watchdogs
  /\ busy \in Nat /\ uptime \in Nat /\ armed \in Nat /\ faults \in Nat
  /\ health \in {"good", "slow", "bad"}
  /\ FlagsOK
=============================================================================
