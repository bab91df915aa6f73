SPECIFICATION FairSpec
CONSTANTS
  WatchdogDelay = 6
  ConfirmDelay = 2
  PostTimeout = 3
  MaxExecution = 1
  MaxFaults = 2
  Faults = {"crash", "reboot", "broken", "loss", "slow", "bad"}
  ObservationDelay = 12
  StableDuration = 2
  MaxReportGap = 2
  ConfirmationTimeout = 16
  MaxAttempts = 2
INVARIANTS
  TypeOK
  SuccessBeyondWindow
  SuccessHealthy
PROPERTIES
  NoRollbackAfterSuccess
  NotSentAgain
  UpdateEnds
  WatchdogSettles
